------------------------- MODULE DebugSessionProofs -------------------------
(***************************************************************************)
(* Proofs about the debugger session, for every program, every set of      *)
(* breakpoints and every choice of what the program and the user do.       *)
(***************************************************************************)
EXTENDS DebugSession, VectorsProofs, SequenceTheorems, TLAPS

USE DEF session, table, install, exec, regions, ghost

-----------------------------------------------------------------------------
(* Exception information. *)

\* Only a stop sets the state to Stopped, and it sets the information with it.
LEMMA ParkSetsException ==
    ASSUME NEW info, NEW then, ParkAt(info, then)
    PROVE  /\ stop' = info
           /\ exc' = IF info.reason = "exception" THEN info.of ELSE None
    BY DEF ParkAt

\* The steps of Next that stop the session, and the others: these leave the
\* stop and its exception alone and never enter the stopped state.
ParksOrRuns ==
    \/ \E info, then : ParkAt(info, then)
    \/ stop' = stop /\ exc' = exc /\ (st' = "Stopped" => st = "Stopped")

LEMMA StepParksOrRuns ==
    ASSUME [Next]_vars PROVE ParksOrRuns
<1> USE DEF ParksOrRuns
<1>1. CASE UNCHANGED vars
    BY <1>1 DEF vars
<1>2. CASE Command \/ Call
    BY <1>2 DEF Command, Call, Arrive
<1>3. CASE PassSeam \/ Veto
    BY <1>3 DEF PassSeam, Veto
<1>4. CASE StopAtBreakpoint
    BY <1>4 DEF StopAtBreakpoint
<1>5. CASE EvaluateCondition
    BY <1>5 DEF EvaluateCondition
<1>6. CASE StopAtStep
    BY <1>6 DEF StopAtStep
<1>7. CASE ConditionTrue
    BY <1>7 DEF ConditionTrue
<1>8. CASE ConditionFalse
    BY <1>8 DEF ConditionFalse
<1>9. CASE ConditionExits \/ SubshellExits \/ Exits \/ EvaluateExit
    BY <1>9 DEF ConditionExits, SubshellExits, Exits, EvaluateExit, NoteExit
<1>10. CASE ExceptionSite
    BY <1>10 DEF ExceptionSite
<1>11. CASE BoundaryPoll
    BY <1>11 DEF BoundaryPoll
<1>12. CASE FrameReturned
    BY <1>12 DEF FrameReturned
<1>13. CASE PopAfterStop \/ EnterSubshell \/ LeaveSubshell
    BY <1>13 DEF PopAfterStop, EnterSubshell, LeaveSubshell
<1>14. CASE Finish
    BY <1>14 DEF Finish
<1>15. CASE Resume \/ ForceReturn \/ EvaluateReturn \/ EvaluateBreak
    BY <1>15 DEF Resume, ForceReturn, EvaluateReturn, EvaluateBreak
<1>16. CASE Quit \/ Detach
    BY <1>16 DEF Quit, Detach
<1>17. CASE SetBreakpoint \/ Delete \/ ClearAt \/ Edit \/ SetExceptionFilters \/ RequestAsyncStop
    BY <1>17 DEF SetBreakpoint, Delete, ClearAt, Edit, SetExceptionFilters, RequestAsyncStop
<1> QED
    BY <1>1, <1>2, <1>3, <1>4, <1>5, <1>6, <1>7, <1>8, <1>9, <1>10, <1>11, <1>12, <1>13,
       <1>14, <1>15, <1>16, <1>17 DEF Next, Debuggee, User

\* The exception the session reports is that of the stop being served: no
\* later stop of another kind keeps the site of an earlier one.
THEOREM ExceptionInformation == Spec => []ExceptionInfoIsCurrent
<1>1. Init => ExceptionInfoIsCurrent
    BY DEF Init, ExceptionInfoIsCurrent, Stop
<1>2. ExceptionInfoIsCurrent /\ [Next]_vars => ExceptionInfoIsCurrent'
  <2> SUFFICES ASSUME ExceptionInfoIsCurrent, [Next]_vars PROVE ExceptionInfoIsCurrent'
    OBVIOUS
  <2>1. CASE \E info, then : ParkAt(info, then)
    BY <2>1, ParkSetsException DEF ExceptionInfoIsCurrent
  <2>2. CASE stop' = stop /\ exc' = exc /\ (st' = "Stopped" => st = "Stopped")
    BY <2>2 DEF ExceptionInfoIsCurrent
  <2> QED
    BY <2>1, <2>2, StepParksOrRuns DEF ParksOrRuns
<1> QED
    BY <1>1, <1>2, PTL DEF Spec

-----------------------------------------------------------------------------
(* One-shot breakpoints. *)

\* The inductive invariant: numbers are handed out once, so an entry that
\* stopped can come back neither under its number nor by a later insertion.
NumbersInv ==
    /\ nextId \in Nat
    /\ \A i \in DOMAIN bps \cup spent : i \in Nat /\ i < nextId
    /\ OneShotStopsOnce

\* The steps of Next as they act on the table: an entry is consumed, one is
\* added under the next number, or entries are deleted or edited.
TableStep ==
    \/ \E f, i : /\ DOMAIN f = DOMAIN bps
                 /\ i \in DOMAIN bps => f[i].one_shot = bps[i].one_shot
                 /\ bps' = Consumed(f, i) /\ spent' = SpentBy(bps, i) /\ nextId' = nextId
    \/ DOMAIN bps' \subseteq DOMAIN bps /\ spent' = spent /\ nextId' = nextId
    \/ DOMAIN bps' = DOMAIN bps \cup {nextId} /\ spent' = spent /\ nextId' = nextId + 1

\* The entry that decides a seam spends no credit.
LEMMA HitUncharged ==
    ASSUME NumbersInv, NEW i \in Hits
    PROVE  i \in DOMAIN bps /\ CreditSpent[i] = bps[i]
<1>1. i \in DOMAIN bps /\ i \in Nat
    BY DEF Hits, Candidates, LineEntries, FunctionEntries, NumbersInv
<1>2. ~AskedBefore(i, i)
    BY <1>1 DEF AskedBefore
<1> QED
    BY <1>1, <1>2 DEF CreditSpent, Asked

LEMMA StepOnTable ==
    ASSUME NumbersInv, [Next]_vars PROVE TableStep
<1> USE DEF TableStep
<1>0. DOMAIN CreditSpent = DOMAIN bps
    BY DEF CreditSpent
<1>1. CASE UNCHANGED vars
    BY <1>1 DEF vars
<1>2. CASE Command \/ Call
    BY <1>2 DEF Command, Call, Arrive
<1>3. CASE PassSeam \/ Veto
    BY <1>0, <1>3 DEF PassSeam, Veto
<1>4. CASE StopAtBreakpoint
  <2>1. PICK i \in Hits : bps' = Consumed(CreditSpent, i) /\ spent' = SpentBy(bps, i)
    BY <1>4 DEF StopAtBreakpoint
  <2>2. nextId' = nextId
    BY <1>4 DEF StopAtBreakpoint
  <2> QED
    BY <1>0, <2>1, <2>2, HitUncharged
<1>5. CASE EvaluateCondition
    BY <1>0, <1>5 DEF EvaluateCondition
<1>6. CASE StopAtStep
    BY <1>0, <1>6 DEF StopAtStep
<1>7. CASE ConditionTrue
    BY <1>7 DEF ConditionTrue
<1>8. CASE ConditionFalse
    BY <1>8 DEF ConditionFalse
<1>9. CASE ConditionExits \/ SubshellExits \/ Exits \/ EvaluateExit
    BY <1>9 DEF ConditionExits, SubshellExits, Exits, EvaluateExit
<1>10. CASE ExceptionSite \/ BoundaryPoll
    BY <1>10 DEF ExceptionSite, BoundaryPoll
<1>11. CASE FrameReturned \/ PopAfterStop \/ EnterSubshell \/ LeaveSubshell \/ Finish
    BY <1>11 DEF FrameReturned, PopAfterStop, EnterSubshell, LeaveSubshell, Finish
<1>12. CASE Resume \/ ForceReturn \/ EvaluateReturn \/ EvaluateBreak \/ Quit \/ Detach
    BY <1>12 DEF Resume, ForceReturn, EvaluateReturn, EvaluateBreak, Quit, Detach
<1>13. CASE SetBreakpoint
  <2>1. PICK b \in NewBreakpoints :
            bps' = [j \in DOMAIN bps \cup {nextId} |-> IF j = nextId THEN b ELSE bps[j]]
    BY <1>13 DEF SetBreakpoint
  <2>2. nextId' = nextId + 1 /\ spent' = spent
    BY <1>13 DEF SetBreakpoint
  <2> QED
    BY <2>1, <2>2
<1>14. CASE Delete \/ ClearAt
    BY <1>14 DEF Delete, ClearAt, Without
<1>15. CASE Edit
  <2>1. PICK i, e : bps' = [bps EXCEPT ![i] = e]
    BY <1>15 DEF Edit
  <2>2. nextId' = nextId /\ spent' = spent
    BY <1>15 DEF Edit
  <2> QED
    BY <2>1, <2>2
<1>16. CASE SetExceptionFilters \/ RequestAsyncStop
    BY <1>16 DEF SetExceptionFilters, RequestAsyncStop
<1> QED
    BY <1>1, <1>2, <1>3, <1>4, <1>5, <1>6, <1>7, <1>8, <1>9, <1>10, <1>11, <1>12, <1>13,
       <1>14, <1>15, <1>16 DEF Next, Debuggee, User

\* Consuming, adding, deleting and editing entries keep the numbers apart.
LEMMA StepKeepsNumbers == ASSUME NumbersInv, [Next]_vars PROVE NumbersInv'
<1>1. ASSUME NEW f, NEW i, DOMAIN f = DOMAIN bps,
             i \in DOMAIN bps => f[i].one_shot = bps[i].one_shot,
             bps' = Consumed(f, i), spent' = SpentBy(bps, i), nextId' = nextId
      PROVE  NumbersInv'
  <2>1. CASE i \in DOMAIN bps /\ bps[i].one_shot
    <3>1. bps' = [j \in DOMAIN f \ {i} |-> f[j]]
      BY <1>1, <2>1 DEF Consumed
    <3>2. DOMAIN bps' = DOMAIN bps \ {i}
      BY <1>1, <3>1
    <3>3. spent' = spent \cup {i}
      BY <1>1, <2>1 DEF SpentBy
    <3> QED
      BY <1>1, <2>1, <3>2, <3>3 DEF NumbersInv, OneShotStopsOnce
  <2>2. CASE ~(i \in DOMAIN bps /\ bps[i].one_shot)
    <3>1. bps' = f /\ spent' = spent
      BY <1>1, <2>2 DEF Consumed, SpentBy
    <3> QED
      BY <1>1, <3>1 DEF NumbersInv, OneShotStopsOnce
  <2> QED
    BY <2>1, <2>2
<1>2. CASE DOMAIN bps' \subseteq DOMAIN bps /\ spent' = spent /\ nextId' = nextId
  BY <1>2 DEF NumbersInv, OneShotStopsOnce
<1>3. CASE DOMAIN bps' = DOMAIN bps \cup {nextId} /\ spent' = spent /\ nextId' = nextId + 1
  BY <1>3 DEF NumbersInv, OneShotStopsOnce
<1> QED
  BY <1>1, <1>2, <1>3, StepOnTable DEF TableStep

\* A one-shot breakpoint stops the program at most once, whatever conditions,
\* nested stops and edits of the table come between.
THEOREM OneShotBreakpoints == Spec => []OneShotStopsOnce
<1>1. Init => NumbersInv
    BY DEF Init, NumbersInv, OneShotStopsOnce
<1>2. NumbersInv /\ [Next]_vars => NumbersInv'
    BY StepKeepsNumbers
<1>3. NumbersInv => OneShotStopsOnce
    BY DEF NumbersInv
<1> QED
    BY <1>1, <1>2, <1>3, PTL DEF Spec

-----------------------------------------------------------------------------
(* Stops are served. *)

\* The inductive invariant: an attached session that has not ended keeps its
\* gate armed, its entry stop is pending only until the first stop is served,
\* and a served stop goes on with a command, never in the stop loop.
ServeInv ==
    /\ driver /\ st # "Terminated" => gate
    /\ driver /\ st # "Terminated" /\ pc = "parked" => ~entryPending
    /\ back \in {"running", "consult", "condition", "popping"}
    /\ StoppedIsServed

\* A stop of a session that runs.
LEMMA ParkServes ==
    ASSUME ServeInv, NEW info, NEW then \in {"running", "consult", "condition", "popping"},
           driver, st = "Running", ParkAt(info, then), UNCHANGED install
    PROVE  ServeInv'
    BY DEF ServeInv, StoppedIsServed, ParkAt

\* Steps that leave the session alone and stay out of the stop loop.
LEMMA RunServes ==
    ASSUME ServeInv, pc # "parked", pc' # "parked", UNCHANGED <<st, back, install>>
    PROVE  ServeInv'
    BY DEF ServeInv, StoppedIsServed

\* Steps at a stop that stay at it.
LEMMA ParkedServes ==
    ASSUME ServeInv, UNCHANGED <<st, pc, back, install>>
    PROVE  ServeInv'
    BY DEF ServeInv, StoppedIsServed

\* Steps after which no session is left to serve.
LEMMA GoneServes ==
    ASSUME ServeInv, ~driver' \/ st' = "Terminated", back' \in {back, "running"}
    PROVE  ServeInv'
    BY DEF ServeInv, StoppedIsServed

\* A resumed session runs.
LEMMA ResumeServes ==
    ASSUME ServeInv, pc = "parked", st = "Stopped", st' = "Running", pc' # "parked",
           back' = "running", UNCHANGED install
    PROVE  ServeInv'
    BY DEF ServeInv, StoppedIsServed

\* At a stop whose session is not stopped there is nothing left to resume.
LEMMA ParkedOrGone ==
    ASSUME ServeInv, pc = "parked", st # "Stopped"
    PROVE  ~driver \/ st = "Terminated"
    BY DEF ServeInv, StoppedIsServed

\* How an error leaves a stop: a loop goes on, a function returns, or an exit.
Ways == {"running", "returning", "exiting"}

\* Whatever leaves the stop loop leaves it to a command or an error.
LEMMA LeavesStop ==
    ASSUME ServeInv
    PROVE  /\ GoOn => pc' # "parked" /\ back' = "running"
           /\ \A as \in Ways : Unwind(as) => pc' # "parked" /\ back' = "running"
    BY DEF ServeInv, GoOn, Unwind, Ways

LEMMA StepServes == ASSUME ServeInv, [Next]_vars PROVE ServeInv'
<1>1. CASE UNCHANGED vars
    BY <1>1, ParkedServes DEF vars
<1>2. CASE Command \/ Call
    BY <1>2 DEF Command, Call, Arrive, ServeInv, StoppedIsServed, Here
<1>3. CASE PassSeam \/ Veto
    BY <1>3, RunServes DEF PassSeam, Veto, Proceed
<1>4. CASE StopAtBreakpoint
    BY <1>4, ParkServes DEF StopAtBreakpoint, Here, CanStopAtSeam
<1>5. CASE EvaluateCondition
    BY <1>5, RunServes DEF EvaluateCondition
<1>6. CASE StopAtStep
    BY <1>6, ParkServes DEF StopAtStep, Here, CanStopAtSeam
<1>7. CASE ConditionTrue
  <2>1. CASE driver /\ st = "Running"
    BY <1>7, <2>1, ParkServes DEF ConditionTrue
  <2>2. CASE ~(driver /\ st = "Running")
    BY <1>7, <2>2, RunServes DEF ConditionTrue, Proceed
  <2> QED
    BY <2>1, <2>2
<1>8. CASE ConditionFalse
    BY <1>8, RunServes DEF ConditionFalse, Proceed
<1>9. CASE ConditionExits
    BY <1>9, GoneServes, RunServes DEF ConditionExits, NoteExit, Proceed
<1>10. CASE ExceptionSite
    BY <1>10, ParkServes DEF ExceptionSite, Executing, Here
<1>11. CASE BoundaryPoll
  <2>1. CASE st = "Running"
    BY <1>11, <2>1, ParkServes DEF BoundaryPoll, Executing, Here
  <2>2. CASE st # "Running"
    BY <1>11, <2>2, ParkedServes DEF BoundaryPoll
  <2> QED
    BY <2>1, <2>2
<1>12. CASE FrameReturned
  <2>1. CASE Here /\ st = "Running" /\ ArmingStopsAtFrameReturn
    BY <1>12, <2>1, ParkServes DEF FrameReturned, Here
  <2>2. CASE ~(Here /\ st = "Running" /\ ArmingStopsAtFrameReturn)
    BY <1>12, <2>2, RunServes DEF FrameReturned, Pop
  <2> QED
    BY <2>1, <2>2
<1>13. CASE PopAfterStop \/ EnterSubshell \/ LeaveSubshell
  <2>1. CASE PopAfterStop
    BY <2>1, RunServes DEF PopAfterStop, Pop
  <2>2. CASE EnterSubshell
    BY <2>2, ParkedServes DEF EnterSubshell
  <2>3. CASE LeaveSubshell
    BY <2>3, RunServes DEF LeaveSubshell
  <2> QED
    BY <1>13, <2>1, <2>2, <2>3
<1>14. CASE SubshellExits \/ Exits
  <2>1. CASE SubshellExits
    BY <2>1, GoneServes, ParkedServes DEF SubshellExits, NoteExit
  <2>2. CASE Exits
    BY <2>2, GoneServes, RunServes DEF Exits, NoteExit
  <2> QED
    BY <1>14, <2>1, <2>2
<1>15. CASE Finish
    BY <1>15, GoneServes DEF Finish
<1>16. CASE Resume
  <2>1. CASE st = "Stopped"
    BY <1>16, <2>1, ResumeServes, LeavesStop DEF Resume, Ways
  <2>2. CASE st # "Stopped"
    BY <1>16, <2>2, ParkedOrGone, GoneServes, LeavesStop DEF Resume, Ways
  <2> QED
    BY <2>1, <2>2
<1>17. CASE ForceReturn
  <2>1. CASE st = "Stopped"
    BY <1>17, <2>1, ResumeServes, LeavesStop DEF ForceReturn, Ways
  <2>2. CASE st # "Stopped"
    BY <1>17, <2>2, ParkedOrGone, GoneServes, LeavesStop DEF ForceReturn, Ways
  <2> QED
    BY <2>1, <2>2
<1>18. CASE EvaluateReturn \/ EvaluateBreak
  <2>1. CASE st = "Stopped"
    BY <1>18, <2>1, ResumeServes, LeavesStop DEF EvaluateReturn, EvaluateBreak, Ways
  <2>2. CASE st # "Stopped"
    BY <1>18, <2>2, ParkedOrGone, GoneServes, LeavesStop DEF EvaluateReturn, EvaluateBreak, Ways
  <2> QED
    BY <2>1, <2>2
<1>19. CASE EvaluateExit
    BY <1>19, GoneServes, LeavesStop DEF EvaluateExit, NoteExit, Ways
<1>20. CASE Quit
    BY <1>20, GoneServes, LeavesStop DEF Quit, Ways
<1>21. CASE Detach
    BY <1>21, GoneServes, LeavesStop DEF Detach
<1>22. CASE SetBreakpoint \/ Delete \/ ClearAt \/ SetExceptionFilters \/ RequestAsyncStop
    BY <1>22, ParkedServes DEF SetBreakpoint, Delete, ClearAt, SetExceptionFilters, RequestAsyncStop
<1>23. CASE Edit
    BY <1>23, ParkedServes DEF Edit
<1> QED
    BY <1>1, <1>2, <1>3, <1>4, <1>5, <1>6, <1>7, <1>8, <1>9, <1>10, <1>11, <1>12, <1>13,
       <1>14, <1>15, <1>16, <1>17, <1>18, <1>19, <1>20, <1>21, <1>22, <1>23
       DEF Next, Debuggee, User

\* A session that has not ended is in its stopped state exactly while its
\* stop loop is being served, so that no error that leaves a stop, a forced
\* return, a typed return or a detach, can wedge it.
THEOREM StopsAreServed == Spec => []StoppedIsServed
<1>1. Init => ServeInv
    BY DEF Init, ServeInv, StoppedIsServed
<1>2. ServeInv /\ [Next]_vars => ServeInv'
    BY StepServes
<1>3. ServeInv => StoppedIsServed
    BY DEF ServeInv
<1> QED
    BY <1>1, <1>2, <1>3, PTL DEF Spec
-----------------------------------------------------------------------------
(* The session implements the stop protocol. *)

\* The entry stop is pending only before the first seam, in a session nobody
\* has ended or taken off.
EntryInv ==
    /\ entryPending => pc = "over" \/ (pc = "running" /\ driver /\ gate /\ st = "Stopped")
    /\ st \in {"Stopped", "Running", "Terminated"}

LEMMA StepKeepsEntry == ASSUME ServeInv, EntryInv, [Next]_vars PROVE EntryInv'
<1> USE DEF EntryInv, ParkAt, NoteExit
<1>1. CASE UNCHANGED vars
    BY <1>1 DEF vars
<1>2. CASE Command \/ Call
    BY <1>2 DEF Command, Call, Arrive, Here
<1>3. CASE PassSeam \/ Veto \/ EvaluateCondition
    BY <1>3 DEF PassSeam, Veto, EvaluateCondition, Proceed
<1>4. CASE StopAtBreakpoint \/ StopAtStep
    BY <1>4 DEF StopAtBreakpoint, StopAtStep, CanStopAtSeam
<1>5. CASE ConditionTrue \/ ConditionFalse \/ ConditionExits
  <2>1. CASE ConditionTrue
    BY <2>1 DEF ConditionTrue
  <2>2. CASE ConditionFalse
    BY <2>2 DEF ConditionFalse
  <2>3. CASE ConditionExits
    BY <2>3 DEF ConditionExits
  <2> QED
    BY <1>5, <2>1, <2>2, <2>3
<1>6. CASE ExceptionSite
    BY <1>6 DEF ExceptionSite, Executing
<1>7. CASE BoundaryPoll
    BY <1>7 DEF BoundaryPoll
<1>8. CASE FrameReturned
    BY <1>8 DEF FrameReturned, Pop
<1>9. CASE PopAfterStop \/ EnterSubshell \/ LeaveSubshell \/ SubshellExits \/ Exits \/ Finish
  <2>1. CASE PopAfterStop \/ EnterSubshell
    BY <2>1 DEF PopAfterStop, Pop, EnterSubshell
  <2>2. CASE LeaveSubshell
    BY <2>2 DEF LeaveSubshell
  <2>3. CASE SubshellExits
    BY <2>3 DEF SubshellExits
  <2>4. CASE Exits
    BY <2>4 DEF Exits
  <2>5. CASE Finish
    BY <2>5 DEF Finish
  <2> QED
    BY <1>9, <2>1, <2>2, <2>3, <2>4, <2>5
<1>10. CASE Resume \/ ForceReturn \/ EvaluateReturn \/ EvaluateBreak \/ EvaluateExit
  <2>1. CASE Resume
    BY <2>1 DEF Resume
  <2>2. CASE ForceReturn
    BY <2>2 DEF ForceReturn
  <2>3. CASE EvaluateReturn
    BY <2>3 DEF EvaluateReturn
  <2>4. CASE EvaluateExit
    BY <2>4 DEF EvaluateExit
  <2>5. CASE EvaluateBreak
    BY <2>5 DEF EvaluateBreak
  <2> QED
    BY <1>10, <2>1, <2>2, <2>3, <2>4, <2>5
<1>11. CASE Quit \/ Detach \/ SetBreakpoint \/ Delete \/ ClearAt \/ Edit
    BY <1>11 DEF Quit, Detach, SetBreakpoint, Delete, ClearAt, Edit
<1>12. CASE SetExceptionFilters \/ RequestAsyncStop
    BY <1>12 DEF SetExceptionFilters, RequestAsyncStop
<1> QED
    BY <1>1, <1>2, <1>3, <1>4, <1>5, <1>6, <1>7, <1>8, <1>9, <1>10, <1>11, <1>12
       DEF Next, Debuggee, User

\* Steps the frontend does not see.
LEMMA Unseen ==
    ASSUME pc \notin {"parked", "over"}, pc' \notin {"parked", "over"},
           UNCHANGED <<st, stop, async, driver, entryPending>>
    PROVE  UNCHANGED Frontend!debuggee
    BY DEF Frontend!debuggee, Phase

\* Steps at a stop that stay at it.
LEMMA Unmoved ==
    ASSUME UNCHANGED <<st, stop, pc, async, driver, entryPending>>
    PROVE  UNCHANGED Frontend!debuggee
    BY DEF Frontend!debuggee, Phase

\* A stop of a session that runs, other than a pause, is one of the protocol.
LEMMA ParkMaps ==
    ASSUME NEW info, NEW then, ParkAt(info, then), info.reason \in {"breakpoint", "step", "exception"},
           driver, st = "Running", pc \notin {"parked", "over"},
           EntryInv, UNCHANGED <<async, driver, entryPending>>
    PROVE  Frontend!Park
    BY DEF Frontend!Park, Frontend!Reasons, ParkAt, Phase, EntryInv

\* An outcome of the stop loop that goes on with the debuggee.
LEMMA ContinueMaps ==
    ASSUME pc = "parked", pc' \notin {"parked", "over"}, ~entryPending,
           (st' = "Terminated") <=> (st = "Terminated"), UNCHANGED <<stop, async, driver, entryPending>>
    PROVE  Frontend!Continued
    BY DEF Frontend!Continued, Phase

\* One that ends the session or takes it off.
LEMMA EndMaps ==
    ASSUME pc = "parked", pc' \notin {"parked", "over"}, ~entryPending,
           ~driver' \/ st' = "Terminated", UNCHANGED <<stop, async, entryPending>>
    PROVE  Frontend!Ended
    BY DEF Frontend!Ended, Phase

LEMMA LeavesLoop ==
    ASSUME ServeInv
    PROVE  /\ GoOn => pc' \notin {"parked", "over"}
           /\ \A as \in Ways : Unwind(as) => pc' \notin {"parked", "over"}
    BY DEF ServeInv, GoOn, Unwind, Ways
LEMMA StepKeepsProtocol ==
    ASSUME ServeInv, EntryInv, [Next]_vars
    PROVE  [Frontend!Go]_(Frontend!debuggee)
<1> USE DEF Frontend!Go
<1>1. CASE UNCHANGED vars
    BY <1>1, Unmoved DEF vars
<1>2. CASE Command \/ Call
  <2>1. CASE Here /\ entryPending
    <3>1. Phase = "starting" /\ Phase' = "parked"
        BY <1>2, <2>1 DEF Command, Call, Arrive, Phase
    <3>2. driver /\ st # "Terminated"
        BY <1>2, <2>1 DEF Command, Call, EntryInv
    <3>3. UNCHANGED <<st, stop, async, driver>>
        BY <1>2 DEF Command, Call, Arrive
    <3> QED
        BY <3>1, <3>2, <3>3 DEF Frontend!ServeEntry
  <2>2. CASE ~(Here /\ entryPending)
    BY <1>2, <2>2, Unseen DEF Command, Call, Arrive
  <2> QED
    BY <2>1, <2>2
<1>3. CASE PassSeam \/ Veto
    BY <1>3, Unseen DEF PassSeam, Veto, Proceed
<1>4. CASE StopAtBreakpoint
    BY <1>4, ParkMaps DEF StopAtBreakpoint, Stop, Here, CanStopAtSeam
<1>5. CASE EvaluateCondition
    BY <1>5, Unseen DEF EvaluateCondition
<1>6. CASE StopAtStep
    BY <1>6, ParkMaps DEF StopAtStep, Stop, Here, CanStopAtSeam
<1>7. CASE ConditionTrue
  <2>1. CASE driver /\ st = "Running"
    BY <1>7, <2>1, ParkMaps DEF ConditionTrue, Stop
  <2>2. CASE ~(driver /\ st = "Running")
    BY <1>7, <2>2, Unseen DEF ConditionTrue, Proceed
  <2> QED
    BY <2>1, <2>2
<1>8. CASE ConditionFalse
    BY <1>8, Unseen DEF ConditionFalse, Proceed
<1>9. CASE ConditionExits \/ SubshellExits \/ Exits
  <2>1. CASE st' # st
    <3>1. Phase \in {"parked", "free"} /\ Phase' = Phase
      <4>1. CASE ConditionExits
        BY <4>1 DEF ConditionExits, Proceed, Phase, EntryInv
      <4>2. CASE SubshellExits
        BY <4>2 DEF SubshellExits, Phase, EntryInv
      <4>3. CASE Exits
        BY <4>3 DEF Exits, Phase
      <4> QED
        BY <1>9, <4>1, <4>2, <4>3
    <3>2. driver /\ st # "Terminated" /\ st' = "Terminated" /\ UNCHANGED <<stop, async>>
        BY <1>9, <2>1 DEF ConditionExits, SubshellExits, Exits, NoteExit
    <3> QED
        BY <3>1, <3>2 DEF Frontend!ExitNoted
  <2>2. CASE st' = st
    BY <1>9, <2>2, Unseen, Unmoved DEF ConditionExits, SubshellExits, Exits, Proceed
  <2> QED
    BY <2>1, <2>2
<1>10. CASE ExceptionSite
    BY <1>10, ParkMaps DEF ExceptionSite, Executing, Stop, Here
<1>11. CASE BoundaryPoll
  <2>1. CASE st = "Running"
    <3>1. Phase = "free" /\ Phase' = "parked"
        BY <1>11, <2>1 DEF BoundaryPoll, ParkAt, Phase, EntryInv
    <3>2. stop'.reason = "pause" /\ st' = "Stopped"
        BY <1>11, <2>1 DEF BoundaryPoll, ParkAt, Stop
    <3>3. driver /\ driver' = driver /\ async /\ async' = FALSE
        BY <1>11, <2>1 DEF BoundaryPoll, Here
    <3> QED
        BY <2>1, <3>1, <3>2, <3>3 DEF Frontend!Park, Frontend!Reasons
  <2>2. CASE st # "Running"
    <3>1. Phase = "starting" \/ (Phase = "free" /\ st = "Terminated")
        BY <1>11, <2>2 DEF BoundaryPoll, Here, Phase, ServeInv, StoppedIsServed, EntryInv
    <3>2. Phase' = Phase /\ UNCHANGED <<st, stop, driver>>
        BY <1>11, <2>2 DEF BoundaryPoll, Phase
    <3>3. async /\ async' = FALSE
        BY <1>11 DEF BoundaryPoll
    <3> QED
        BY <3>1, <3>2, <3>3 DEF Frontend!Absorb
  <2> QED
    BY <2>1, <2>2
<1>12. CASE FrameReturned
  <2>1. CASE Here /\ st = "Running" /\ ArmingStopsAtFrameReturn
    BY <1>12, <2>1, ParkMaps DEF FrameReturned, Stop, Here
  <2>2. CASE ~(Here /\ st = "Running" /\ ArmingStopsAtFrameReturn)
    BY <1>12, <2>2, Unseen DEF FrameReturned, Pop
  <2> QED
    BY <2>1, <2>2
<1>13. CASE PopAfterStop \/ EnterSubshell \/ LeaveSubshell
    BY <1>13, Unseen DEF PopAfterStop, Pop, EnterSubshell, LeaveSubshell
<1>14. CASE Finish
  <2>1. Phase \in {"starting", "free"} /\ Phase' = "over"
    BY <1>14 DEF Finish, Phase
  <2>2. ~(driver' /\ st' # "Terminated") /\ UNCHANGED <<stop, async>>
    BY <1>14 DEF Finish
  <2> QED
    BY <2>1, <2>2 DEF Frontend!Over
<1>15. CASE Resume
    BY <1>15, ContinueMaps, LeavesLoop DEF Resume, EntryInv, Ways
<1>16. CASE ForceReturn
    BY <1>16, ContinueMaps, LeavesLoop DEF ForceReturn, EntryInv, Ways
<1>17. CASE EvaluateReturn \/ EvaluateBreak
    BY <1>17, ContinueMaps, LeavesLoop DEF EvaluateReturn, EvaluateBreak, EntryInv, Ways
<1>18. CASE EvaluateExit
    BY <1>18, EndMaps, LeavesLoop DEF EvaluateExit, NoteExit, EntryInv, Ways
<1>19. CASE Quit \/ Detach
    BY <1>19, EndMaps, LeavesLoop DEF Quit, Detach, EntryInv, Ways
<1>20. CASE SetBreakpoint \/ Delete \/ ClearAt \/ SetExceptionFilters
    BY <1>20, Unmoved DEF SetBreakpoint, Delete, ClearAt, SetExceptionFilters
<1>21. CASE Edit
    BY <1>21, Unmoved DEF Edit
<1>22. CASE RequestAsyncStop
    BY <1>22 DEF RequestAsyncStop, Frontend!StopRequested, Phase
<1> QED
    BY <1>1, <1>2, <1>3, <1>4, <1>5, <1>6, <1>7, <1>8, <1>9, <1>10, <1>11, <1>12, <1>13,
       <1>14, <1>15, <1>16, <1>17, <1>18, <1>19, <1>20, <1>21, <1>22
       DEF Next, Debuggee, User

\* The debugger session implements the protocol its frontends rely on, for
\* every program and everything a user may do at a stop.
THEOREM SessionKeepsProtocol == Spec => KeepsProtocol
<1>1. Init => ServeInv /\ EntryInv /\ Frontend!Begin
    BY DEF Init, ServeInv, StoppedIsServed, EntryInv, Frontend!Begin, Phase, Stop
<1>2. ServeInv /\ EntryInv /\ [Next]_vars => ServeInv' /\ EntryInv'
    BY StepServes, StepKeepsEntry
<1>3. ServeInv /\ EntryInv /\ [Next]_vars => [Frontend!Go]_(Frontend!debuggee)
    BY StepKeepsProtocol
<1> QED
    BY <1>1, <1>2, <1>3, PTL DEF Spec, KeepsProtocol, Frontend!Protocol

-----------------------------------------------------------------------------
(* The frames on the stack and the depth the session counts. *)

\* A frame is entered, stopped at its end or being taken down.
InCall == pc = "popping" \/ (pc = "parked" /\ back = "popping") \/ seam.function # None

\* A seam is at hand only where it is consulted or its stop is served.
SeamPlaced ==
    pc \in {"running", "popping", "returning", "exiting"} \/ (pc = "parked" /\ back = "popping")
        => seam = NoSeam

Region == [depth : Nat, frames : Nat]

\* What the open regions restore: a count of at least the frames there were,
\* and no fewer frames than an outer region.
RegionsInv ==
    /\ shells \in Seq(Region)
    /\ \A i \in 1..Len(shells) : shells[i].frames <= shells[i].depth
    /\ \A i, j \in 1..Len(shells) : i <= j => shells[i].frames <= shells[j].frames

\* The inductive invariant: a frame that is entered or returns is one of the
\* innermost region, and every frame on the stack is counted.  The count may
\* stay ahead of the stack: an error that leaves a stop at the edge of a
\* function leaves the frame without taking it off the count.
FrameInv ==
    /\ depth \in Nat /\ frames \in Nat /\ frames <= depth
    /\ RegionsInv /\ SeamPlaced
    /\ Base <= frames /\ (InCall => Base < frames)

LEMMA Innermost ==
    ASSUME shells \in Seq(Region)
    PROVE  /\ Len(shells) \in Nat
           /\ shells # <<>> => Len(shells) \in 1..Len(shells)
           /\ \A i \in 1..Len(shells) : shells[i] \in Region
<1>1. Len(shells) \in Nat /\ (shells # <<>> => Len(shells) \in Nat \ {0})
    BY LenProperties, EmptySeq
<1>2. \A i \in 1..Len(shells) : shells[i] \in Region
    BY ElementOfSeq
<1> QED
    BY <1>1, <1>2

LEMMA BaseNat == ASSUME RegionsInv PROVE Base \in Nat
<1>1. CASE shells = <<>>
    BY <1>1 DEF Base
<1>2. CASE shells # <<>>
  <2>1. shells[Len(shells)] \in Region
    BY <1>2, Innermost DEF RegionsInv
  <2> QED
    BY <1>2, <2>1 DEF Base, Region
<1> QED
    BY <1>1, <1>2

\* The regions around the innermost one stay as they are when it ends.
LEMMA OuterRegions ==
    ASSUME shells \in Seq(Region), shells # <<>>, shells' = SubSeq(shells, 1, Len(shells) - 1)
    PROVE  /\ shells' \in Seq(Region) /\ Len(shells') = Len(shells) - 1
           /\ \A i \in 1..Len(shells') : i \in 1..Len(shells) /\ shells'[i] = shells[i]
<1> DEFINE k == Len(shells) - 1
<1>1. k \in Nat /\ 1 \in Int /\ k \in Int
    BY Innermost
<1>2. \A i \in 1..k : i \in 1..Len(shells) /\ shells[i] \in Region
    BY Innermost
<1>3. shells' = SubSeq(shells, 1, k)
    OBVIOUS
<1>4. /\ SubSeq(shells, 1, k) \in Seq(Region)
      /\ Len(SubSeq(shells, 1, k)) = IF 1 <= k THEN k - 1 + 1 ELSE 0
      /\ \A i \in 1..(k - 1 + 1) : SubSeq(shells, 1, k)[i] = shells[1 + i - 1]
  <2>1. ASSUME NEW r, r = k
        PROVE  /\ SubSeq(shells, 1, r) \in Seq(Region)
               /\ Len(SubSeq(shells, 1, r)) = IF 1 <= r THEN r - 1 + 1 ELSE 0
               /\ \A i \in 1..(r - 1 + 1) : SubSeq(shells, 1, r)[i] = shells[1 + i - 1]
    <3>1. r \in Int /\ 1 \in Int /\ \A i \in 1..r : shells[i] \in Region
      BY <1>1, <1>2, <2>1
    <3> HIDE DEF k
    <3> QED
      BY <3>1, SubSeqProperties
  <2> QED
    BY <2>1
<1>5. Len(shells') = k /\ \A i \in 1..k : shells'[i] = shells[i]
  <2> HIDE DEF k
  <2>1. Len(shells') = k
    BY <1>1, <1>3, <1>4
  <2>2. ASSUME NEW i \in 1..k PROVE shells'[i] = shells[i]
    <3>1. i \in 1..(k - 1 + 1) /\ 1 + i - 1 = i
      BY <1>1
    <3> QED
      BY <1>3, <1>4, <3>1
  <2> QED
    BY <2>1, <2>2
<1> QED
    BY <1>1, <1>2, <1>3, <1>4, <1>5

\* Steps that leave the stack alone.
LEMMA FramesAlone ==
    ASSUME FrameInv, UNCHANGED <<depth, frames, shells>>, InCall' => InCall, SeamPlaced'
    PROVE  FrameInv'
    BY DEF FrameInv, RegionsInv, Base

\* A frame that is taken down, or left by an error at its stop.
LEMMA FramesPopped ==
    ASSUME FrameInv, Base < frames, frames' = frames - 1, depth' = depth \/ depth' = depth - 1,
           shells' = shells, pc' \in Ways, seam' = NoSeam
    PROVE  FrameInv'
<1>1. RegionsInv' /\ Base' = Base /\ Base \in Nat
    BY BaseNat DEF FrameInv, RegionsInv, Base
<1>2. SeamPlaced' /\ ~InCall'
    BY DEF SeamPlaced, InCall, NoSeam, Ways
<1> QED
    BY <1>1, <1>2 DEF FrameInv

LEMMA FramesLeft ==
    ASSUME FrameInv, ServeInv, pc = "parked"
    PROVE  /\ GoOn => FrameInv'
           /\ \A as \in Ways : Unwind(as) => FrameInv'
<1> USE DEF regions
<1>1. ASSUME GoOn PROVE FrameInv'
  <2>1. InCall' => InCall
    BY <1>1 DEF GoOn, InCall, NoSeam
  <2>2. SeamPlaced'
    BY <1>1 DEF GoOn, SeamPlaced, FrameInv, ServeInv
  <2> QED
    BY <1>1, <2>1, <2>2, FramesAlone DEF GoOn
<1>2. ASSUME NEW as \in Ways, Unwind(as) PROVE FrameInv'
  <2>1. pc' \in Ways /\ seam' = NoSeam /\ depth' = depth /\ shells' = shells
    BY <1>2 DEF Unwind, Ways
  <2>2. CASE Abandons(as)
    <3>1. InCall
      BY <2>2 DEF Abandons, AtEntry, InCall
    <3>2. Base < frames /\ frames' = frames - 1
      BY <1>2, <2>1, <2>2, <3>1 DEF Unwind, FrameInv
    <3> QED
      BY <2>1, <3>2, FramesPopped
  <2>3. CASE ~Abandons(as)
    <3>1. SeamPlaced' /\ ~InCall'
      BY <2>1 DEF SeamPlaced, InCall, NoSeam, Ways
    <3>2. frames' = frames
      BY <1>2, <2>3 DEF Unwind
    <3> QED
      BY <2>1, <3>1, <3>2, FramesAlone
  <2> QED
    BY <2>2, <2>3
<1> QED
    BY <1>1, <1>2

\* A region begins: what it will restore is the stack as it is.
LEMMA RegionBegins == ASSUME FrameInv, EnterSubshell PROVE FrameInv'
<1> DEFINE top == [depth |-> depth, frames |-> frames]
<1>1. /\ shells' = Append(shells, top) /\ UNCHANGED <<depth, frames, seam, pc>>
      /\ pc = "running" /\ top \in Region /\ shells \in Seq(Region)
    BY DEF EnterSubshell, FrameInv, RegionsInv, Region
<1>2. /\ Len(shells) \in Nat /\ Len(shells') = Len(shells) + 1 /\ shells' \in Seq(Region)
      /\ \A i \in 1..Len(shells) : shells'[i] = shells[i]
      /\ shells'[Len(shells) + 1] = top
    BY <1>1, Innermost
<1>3. \A i \in 1..Len(shells) : shells[i].frames <= frames
  <2>1. SUFFICES ASSUME NEW i \in 1..Len(shells) PROVE shells[i].frames <= frames
    OBVIOUS
  <2>2. i <= Len(shells) /\ Len(shells) \in 1..Len(shells)
    BY <1>2
  <2>3. shells # <<>>
    BY <1>2, <2>1, EmptySeq
  <2>4. shells[i].frames <= Base
    BY <2>2, <2>3 DEF FrameInv, RegionsInv, Base
  <2>5. shells[i].frames \in Nat
    BY <1>1, <2>1, Innermost DEF Region
  <2> QED
    BY <2>4, <2>5, BaseNat DEF FrameInv
<1>4. RegionsInv'
  <2>1. \A i \in 1..Len(shells') : shells'[i].frames <= shells'[i].depth
    BY <1>1, <1>2 DEF FrameInv, RegionsInv
  <2>2. \A i, j \in 1..Len(shells') : i <= j => shells'[i].frames <= shells'[j].frames
    BY <1>1, <1>2, <1>3 DEF FrameInv, RegionsInv
  <2> QED
    BY <1>2, <2>1, <2>2 DEF RegionsInv
<1>5. Base' = frames
    BY <1>1, <1>2 DEF Base
<1>6. SeamPlaced' /\ ~InCall'
    BY <1>1 DEF SeamPlaced, InCall, FrameInv, NoSeam
<1> QED
    BY <1>1, <1>4, <1>5, <1>6 DEF FrameInv

\* A region ends: it had begun with the frames of the region around it.
LEMMA RegionEnds == ASSUME FrameInv, LeaveSubshell PROVE FrameInv'
<1> DEFINE n == Len(shells)
<1>1. /\ shells # <<>> /\ shells \in Seq(Region)
      /\ n \in 1..n /\ n \in Nat /\ shells[n] \in Region
      /\ depth' = shells[n].depth /\ frames' = shells[n].frames
    BY Innermost DEF LeaveSubshell, FrameInv, RegionsInv, Base
<1>2. /\ shells' \in Seq(Region) /\ Len(shells') = n - 1
      /\ \A i \in 1..Len(shells') : i \in 1..n /\ shells'[i] = shells[i]
    BY <1>1, OuterRegions DEF LeaveSubshell
<1>3. RegionsInv'
    BY <1>2 DEF FrameInv, RegionsInv
<1>4. depth' \in Nat /\ frames' \in Nat /\ frames' <= depth'
    BY <1>1 DEF FrameInv, RegionsInv, Region
<1>5. Base' <= frames'
  <2>1. CASE shells' = <<>>
    BY <1>4, <2>1 DEF Base
  <2>2. CASE shells' # <<>>
    <3>1. n - 1 \in 1..n /\ n - 1 <= n /\ shells'[n - 1] = shells[n - 1]
      BY <1>1, <1>2, <2>2, EmptySeq
    <3>2. Base' = shells[n - 1].frames
      BY <1>2, <2>2, <3>1 DEF Base
    <3> QED
      BY <1>1, <3>1, <3>2 DEF FrameInv, RegionsInv
  <2> QED
    BY <2>1, <2>2
<1>6. SeamPlaced' /\ ~InCall'
    BY DEF LeaveSubshell, SeamPlaced, InCall, FrameInv, NoSeam
<1> QED
    BY <1>3, <1>4, <1>5, <1>6 DEF FrameInv

LEMMA StepKeepsFrames == ASSUME ServeInv, FrameInv, [Next]_vars PROVE FrameInv'
<1>0. SeamPlaced
    BY DEF FrameInv
<1> USE DEF SeamPlaced, InCall, NoSeam
<1>1. CASE UNCHANGED vars
    BY <1>0, <1>1, FramesAlone DEF vars
<1>2. CASE Command
  <2>1. PICK l \in Lines : Arrive([line |-> l, function |-> None])
    BY <1>2 DEF Command
  <2> QED
    BY <1>2, <2>1, FramesAlone DEF Command, Arrive
<1>3. CASE Call
  <2>1. PICK l \in Lines, f \in Functions : Arrive([line |-> l, function |-> f])
    BY <1>3 DEF Call
  <2>2. SeamPlaced' /\ shells' = shells /\ depth' = depth + 1 /\ frames' = frames + 1
    BY <1>3, <2>1 DEF Call, Arrive
  <2>3. RegionsInv' /\ Base' = Base /\ Base \in Nat
    BY <2>2, BaseNat DEF FrameInv, RegionsInv, Base
  <2> QED
    BY <2>2, <2>3 DEF FrameInv
<1>4. CASE PassSeam \/ Veto \/ EvaluateCondition \/ ConditionFalse
    BY <1>4, FramesAlone DEF PassSeam, Veto, EvaluateCondition, ConditionFalse, Proceed
<1>5. CASE StopAtBreakpoint
    BY <1>5, FramesAlone DEF StopAtBreakpoint, ParkAt
<1>6. CASE StopAtStep
    BY <1>6, FramesAlone DEF StopAtStep, ParkAt
<1>7. CASE ConditionTrue
    BY <1>7, FramesAlone DEF ConditionTrue, ParkAt, Proceed
<1>8. CASE ConditionExits
    BY <1>8, FramesAlone DEF ConditionExits, Proceed
<1>9. CASE SubshellExits
    BY <1>0, <1>9, FramesAlone DEF SubshellExits
<1>10. CASE ExceptionSite
    BY <1>10, FramesAlone DEF ExceptionSite, ParkAt, Executing
<1>11. CASE BoundaryPoll
    BY <1>0, <1>11, FramesAlone DEF BoundaryPoll, ParkAt
<1>12. CASE FrameReturned
  <2>1. CASE Here /\ st = "Running" /\ ArmingStopsAtFrameReturn
    <3>1. SeamPlaced' /\ UNCHANGED <<depth, frames, shells>> /\ Base < frames
      BY <1>0, <1>12, <2>1, BaseNat DEF FrameReturned, ParkAt, FrameInv
    <3> QED
      BY <3>1 DEF FrameInv, RegionsInv, Base
  <2>2. CASE ~(Here /\ st = "Running" /\ ArmingStopsAtFrameReturn)
    <3>1. Base < frames
      BY <1>12, BaseNat DEF FrameReturned, FrameInv
    <3> QED
      BY <1>0, <1>12, <2>2, <3>1, FramesPopped DEF FrameReturned, Pop, Ways
  <2> QED
    BY <2>1, <2>2
<1>13. CASE PopAfterStop
    BY <1>0, <1>13, FramesPopped DEF PopAfterStop, Pop, FrameInv, Ways
<1>14. CASE Exits \/ Finish
    BY <1>14, FramesAlone DEF Exits, Finish
<1>15. CASE Resume
    BY <1>15, FramesLeft DEF Resume, Ways
<1>16. CASE ForceReturn
    BY <1>16, FramesLeft DEF ForceReturn, Ways
<1>17. CASE EvaluateReturn \/ EvaluateBreak
    BY <1>17, FramesLeft DEF EvaluateReturn, EvaluateBreak, Ways
<1>18. CASE EvaluateExit
    BY <1>18, FramesLeft DEF EvaluateExit, Ways
<1>19. CASE Quit
    BY <1>19, FramesLeft DEF Quit, Ways
<1>20. CASE Detach
    BY <1>20, FramesLeft DEF Detach
<1>21. CASE SetBreakpoint \/ Delete \/ ClearAt \/ SetExceptionFilters \/ RequestAsyncStop
    BY <1>0, <1>21, FramesAlone DEF SetBreakpoint, Delete, ClearAt, SetExceptionFilters, RequestAsyncStop
<1>22. CASE Edit
    BY <1>0, <1>22, FramesAlone DEF Edit
<1> QED
    BY <1>1, <1>2, <1>3, <1>4, <1>5, <1>6, <1>7, <1>8, <1>9, <1>10, <1>11, <1>12, <1>13,
       <1>14, <1>15, <1>16, <1>17, <1>18, <1>19, <1>20, <1>21, <1>22, RegionBegins, RegionEnds
       DEF Next, Debuggee, User

-----------------------------------------------------------------------------
(* Types. *)

Rules == {"Continue", "StepInto", "StepOver", "Finish", "StepOutOfFrame", "StepInFile"}
Places == {"running", "consult", "condition", "parked", "popping", "returning", "exiting", "over"}

\* The parts of the type invariant that a step changes one at a time.
ArmingTyped == arming.rule \in Rules /\ arming.depth \in Nat /\ stop.depth \in Nat
ExceptionTyped == exc \in Kinds \cup {None} /\ filters \subseteq Kinds
FlagsTyped ==
    /\ async \in BOOLEAN /\ driver \in BOOLEAN /\ gate \in BOOLEAN /\ entryPending \in BOOLEAN
    /\ held \in BOOLEAN
PlaceTyped == pc \in Places /\ seam.line \in Lines \cup {None}
NumbersTyped == nextId \in Nat \ {0} /\ DOMAIN bps \subseteq 1..MaxId

\* Breakpoint numbers stay within the bound that guards the insertion.
LEMMA StepKeepsBounds ==
    ASSUME NumbersInv, NumbersTyped, [Next]_vars PROVE NumbersTyped'
<1>1. nextId' = nextId \/ SetBreakpoint
    BY DEF Next, Debuggee, User, vars, Command, Call, Arrive, PassSeam, Veto, StopAtBreakpoint,
           EvaluateCondition, StopAtStep, ConditionTrue, ConditionFalse, ConditionExits,
           ExceptionSite, BoundaryPoll, FrameReturned, PopAfterStop, EnterSubshell,
           LeaveSubshell, SubshellExits, Exits, Finish,
           Resume, ForceReturn, EvaluateReturn, EvaluateBreak, EvaluateExit, Quit,
           Detach, Delete, ClearAt, Edit, SetExceptionFilters, RequestAsyncStop
<1>2. \/ nextId' = nextId
      \/ nextId <= MaxId /\ nextId' = nextId + 1
    BY <1>1 DEF SetBreakpoint
<1>3. MaxId \in Nat
    BY DebugAssumption
<1>4. CASE \E f, i : DOMAIN f = DOMAIN bps /\ bps' = Consumed(f, i) /\ nextId' = nextId
  <2>1. PICK f, i : DOMAIN f = DOMAIN bps /\ bps' = Consumed(f, i) /\ nextId' = nextId
    BY <1>4
  <2>2. DOMAIN bps' \subseteq DOMAIN bps
    BY <2>1 DEF Consumed
  <2> QED
    BY <2>1, <2>2 DEF NumbersTyped
<1>5. CASE DOMAIN bps' \subseteq DOMAIN bps /\ nextId' = nextId
    BY <1>5 DEF NumbersTyped
<1>6. CASE DOMAIN bps' = DOMAIN bps \cup {nextId} /\ nextId' = nextId + 1
    BY <1>2, <1>3, <1>6 DEF NumbersTyped
<1> QED
    BY <1>4, <1>5, <1>6, StepOnTable DEF TableStep

EntriesTyped == \A i \in DOMAIN bps : bps[i] \in Breakpoint

\* The candidate without credit that is asked first decides the seam.
LEMMA FirstUncreditedHits ==
    ASSUME NumbersInv, EntriesTyped, NEW i \in Candidates, bps[i].ignore = 0
    PROVE  \E h \in Hits : ~AskedBefore(i, h)
<1> DEFINE zero == {j \in Candidates : bps[j].ignore = 0}
           lines == zero \cap LineEntries
<1>1. Candidates \subseteq DOMAIN bps /\ DOMAIN bps \subseteq Nat
    BY DEF Candidates, LineEntries, FunctionEntries, NumbersInv
<1>2. \A j \in Candidates : bps[j].ignore \in Nat /\ (j \notin zero => bps[j].ignore > 0)
    BY <1>1 DEF EntriesTyped, Breakpoint
<1>3. i \in zero /\ zero \subseteq Nat /\ lines \subseteq Nat
    BY <1>1
<1>4. CASE lines # {}
  <2>1. PICK m \in lines : \A y \in lines : m <= y
    <3> HIDE DEF lines
    <3> QED
      BY <1>3, <1>4, LeastNat
  <2>2. \A j \in Candidates : AskedBefore(j, m) => j \notin zero
    BY <1>1, <2>1 DEF AskedBefore
  <2>3. m \in Hits
    BY <1>2, <2>1, <2>2 DEF Hits
  <2> QED
    BY <1>1, <1>3, <2>1, <2>3 DEF AskedBefore
<1>5. CASE lines = {}
  <2>1. PICK m \in zero : \A y \in zero : m <= y
    <3> HIDE DEF zero
    <3> QED
      BY <1>3, LeastNat
  <2>2. \A j \in Candidates : AskedBefore(j, m) => j \notin zero
    BY <1>1, <1>5, <2>1 DEF AskedBefore
  <2>3. m \in Hits
    BY <1>2, <2>1, <2>2 DEF Hits
  <2> QED
    BY <1>1, <1>3, <1>5, <2>1, <2>3 DEF AskedBefore
<1> QED
    BY <1>4, <1>5

\* Credit is taken only from entries that have some: the count of ignored
\* hits, unsigned in the code, never wraps.
LEMMA CreditIsThere ==
    ASSUME NumbersInv, EntriesTyped, NEW i \in DOMAIN bps
    PROVE  /\ i \in Asked => bps[i].ignore > 0
           /\ CreditSpent[i] \in Breakpoint /\ CreditSpent[i].condition = bps[i].condition
<1>1. bps[i] \in Breakpoint
    BY DEF EntriesTyped
<1>2. i \in Asked => bps[i].ignore > 0
    BY <1>1, FirstUncreditedHits DEF Asked, Breakpoint
<1>3. CreditSpent[i] = IF i \in Asked THEN [bps[i] EXCEPT !.ignore = @ - 1] ELSE bps[i]
    BY DEF CreditSpent
<1> QED
    BY <1>1, <1>2, <1>3 DEF Breakpoint

\* What a step may do to an entry: its condition stays or is one the user gave.
Inherits(i) ==
    /\ bps'[i] \in Breakpoint
    /\ \/ i \in DOMAIN bps /\ bps'[i].condition = bps[i].condition
       \/ \E b \in NewBreakpoints : bps'[i].condition = b.condition

LEMMA StepOnEntries ==
    ASSUME NumbersInv, EntriesTyped, [Next]_vars, NEW i \in DOMAIN bps'
    PROVE  Inherits(i)
<1> USE DEF Inherits
<1>0. NewBreakpoints \subseteq Breakpoint
    BY DebugAssumption
<1>1. CASE bps' = bps
    BY <1>1 DEF EntriesTyped
<1>2. CASE bps' = CreditSpent
  <2>1. i \in DOMAIN bps
    BY <1>2 DEF CreditSpent
  <2> QED
    BY <1>2, <2>1, CreditIsThere
<1>3. ASSUME NEW f, NEW k, DOMAIN f = DOMAIN bps, bps' = Consumed(f, k)
      PROVE  i \in DOMAIN bps /\ bps'[i] = f[i]
    BY <1>3 DEF Consumed
<1>4. CASE PassSeam
    BY <1>1, <1>2, <1>4 DEF PassSeam
<1>5. CASE StopAtBreakpoint
  <2>1. PICK k : bps' = Consumed(CreditSpent, k)
    BY <1>5 DEF StopAtBreakpoint
  <2>2. DOMAIN CreditSpent = DOMAIN bps
    BY DEF CreditSpent
  <2>3. i \in DOMAIN bps /\ bps'[i] = CreditSpent[i]
    BY <1>3, <2>1, <2>2
  <2> QED
    BY <2>3, CreditIsThere
<1>6. CASE EvaluateCondition \/ StopAtStep
    BY <1>2, <1>6 DEF EvaluateCondition, StopAtStep
<1>7. CASE ConditionTrue
  <2>1. bps' = Consumed(bps, cond)
    BY <1>7 DEF ConditionTrue
  <2>2. i \in DOMAIN bps /\ bps'[i] = bps[i]
    BY <1>3, <2>1
  <2> QED
    BY <2>2 DEF EntriesTyped
<1>8. CASE SetBreakpoint
  <2>1. PICK b \in NewBreakpoints :
            bps' = [j \in DOMAIN bps \cup {nextId} |-> IF j = nextId THEN b ELSE bps[j]]
    BY <1>8 DEF SetBreakpoint
  <2>2. i \in DOMAIN bps \cup {nextId} /\ bps'[i] = IF i = nextId THEN b ELSE bps[i]
    BY <2>1
  <2> QED
    BY <1>0, <2>2 DEF EntriesTyped
<1>9. CASE Delete \/ ClearAt
  <2>1. PICK ids : bps' = Without(ids)
    BY <1>9 DEF Delete, ClearAt
  <2>2. i \in DOMAIN bps /\ bps'[i] = bps[i]
    BY <2>1 DEF Without
  <2> QED
    BY <2>2 DEF EntriesTyped
<1>10. CASE Edit
  <2>1. PICK k \in DOMAIN bps, b \in NewBreakpoints, on \in BOOLEAN :
            \E e \in {[bps[k] EXCEPT !.enabled = on], [bps[k] EXCEPT !.ignore = b.ignore],
                      [bps[k] EXCEPT !.condition = b.condition]} :
                bps' = [bps EXCEPT ![k] = e]
    BY <1>10 DEF Edit
  <2>2. PICK e \in {[bps[k] EXCEPT !.enabled = on], [bps[k] EXCEPT !.ignore = b.ignore],
                    [bps[k] EXCEPT !.condition = b.condition]} :
            bps' = [bps EXCEPT ![k] = e]
    BY <2>1
  <2>3. bps[k] \in Breakpoint /\ b \in Breakpoint
    BY <1>0 DEF EntriesTyped
  <2>4. e \in Breakpoint /\ e.condition \in {bps[k].condition, b.condition}
    BY <2>2, <2>3 DEF Breakpoint
  <2>5. i \in DOMAIN bps /\ bps'[i] = IF i = k THEN e ELSE bps[i]
    BY <2>2
  <2> QED
    BY <2>4, <2>5 DEF EntriesTyped
<1>11. CASE UNCHANGED vars
    BY <1>1, <1>11 DEF vars
<1>12. CASE Command \/ Call \/ Veto \/ ConditionFalse \/ ConditionExits \/ ExceptionSite
    BY <1>1, <1>12 DEF Command, Call, Arrive, Veto, ConditionFalse, ConditionExits, ExceptionSite
<1>13. CASE BoundaryPoll \/ FrameReturned \/ PopAfterStop \/ EnterSubshell \/ LeaveSubshell
    BY <1>1, <1>13 DEF BoundaryPoll, FrameReturned, PopAfterStop, EnterSubshell, LeaveSubshell
<1>14. CASE Resume \/ ForceReturn \/ EvaluateReturn \/ EvaluateBreak \/ EvaluateExit
    BY <1>1, <1>14 DEF Resume, ForceReturn, EvaluateReturn, EvaluateBreak, EvaluateExit
<1>15. CASE SubshellExits \/ Exits \/ Finish \/ Quit \/ Detach \/ SetExceptionFilters
            \/ RequestAsyncStop
    BY <1>1, <1>15 DEF SubshellExits, Exits, Finish, Quit, Detach, SetExceptionFilters,
                       RequestAsyncStop
<1> QED
    BY <1>4, <1>5, <1>6, <1>7, <1>8, <1>9, <1>10, <1>11, <1>12, <1>13, <1>14, <1>15
       DEF Next, Debuggee, User

\* Every stop the executor reports has a depth; exceptions are of a kind that
\* was asked for.
LEMMA ParkTyped ==
    ASSUME ArmingTyped, ExceptionTyped, NEW info, NEW then, ParkAt(info, then),
           info.depth \in Nat, info.reason = "exception" => info.of \in Kinds
    PROVE  ArmingTyped' /\ ExceptionTyped'
    BY DEF ParkAt, ArmingTyped, ExceptionTyped, Continue, Arm, Rules

LEMMA ArmingUntouched ==
    ASSUME ArmingTyped, ExceptionTyped, UNCHANGED <<arming, stop, exc, filters>>
    PROVE  ArmingTyped' /\ ExceptionTyped'
    BY DEF ArmingTyped, ExceptionTyped

LEMMA StepTypesSession ==
    ASSUME FrameInv, ArmingTyped, ExceptionTyped, [Next]_vars
    PROVE  ArmingTyped' /\ ExceptionTyped'
<1>0. depth \in Nat
    BY DEF FrameInv
<1>1. CASE UNCHANGED vars
    BY <1>1, ArmingUntouched DEF vars
<1>2. CASE Command \/ Call
    BY <1>2, ArmingUntouched DEF Command, Call, Arrive
<1>3. CASE PassSeam \/ Veto \/ EvaluateCondition \/ ConditionFalse
    BY <1>3, ArmingUntouched DEF PassSeam, Veto, EvaluateCondition, ConditionFalse
<1>4. CASE StopAtBreakpoint
    BY <1>0, <1>4, ParkTyped DEF StopAtBreakpoint, Stop
<1>5. CASE StopAtStep
    BY <1>0, <1>5, ParkTyped DEF StopAtStep, Stop
<1>6. CASE ConditionTrue
    BY <1>0, <1>6, ParkTyped, ArmingUntouched DEF ConditionTrue, Stop
<1>7. CASE ConditionExits \/ SubshellExits \/ Exits \/ EvaluateExit
    BY <1>7, ArmingUntouched DEF ConditionExits, SubshellExits, Exits, EvaluateExit
<1>8. CASE ExceptionSite
  <2>1. PICK k \in filters, l \in Lines : ParkAt(Stop("exception", k, l, depth), pc)
    BY <1>8 DEF ExceptionSite
  <2>2. k \in Kinds
    BY DEF ExceptionTyped
  <2> QED
    BY <1>0, <2>1, <2>2, ParkTyped DEF Stop
<1>9. CASE BoundaryPoll
    BY <1>0, <1>9, ParkTyped, ArmingUntouched DEF BoundaryPoll, Stop
<1>10. CASE FrameReturned
  <2>1. depth - 1 \in Nat
    BY <1>10, BaseNat DEF FrameReturned, FrameInv
  <2> QED
    BY <1>10, <2>1, ParkTyped, ArmingUntouched DEF FrameReturned, Stop
<1>11. CASE PopAfterStop \/ EnterSubshell \/ LeaveSubshell \/ Finish
    BY <1>11, ArmingUntouched DEF PopAfterStop, EnterSubshell, LeaveSubshell, Finish
<1>12. CASE Resume
  <2>1. PICK a \in Armings : arming' = a \/ arming' = arming
    BY <1>12 DEF Resume
  <2>2. a.rule \in Rules /\ a.depth \in Nat
    BY DEF Armings, Arm, Continue, Rules, ArmingTyped
  <2> QED
    BY <1>12, <2>1, <2>2 DEF Resume, ArmingTyped, ExceptionTyped
<1>13. CASE ForceReturn
    BY <1>0, <1>13 DEF ForceReturn, Arm, Rules, ArmingTyped, ExceptionTyped
<1>14. CASE EvaluateReturn \/ EvaluateBreak
    BY <1>14 DEF EvaluateReturn, EvaluateBreak, Continue, Arm, Rules, ArmingTyped, ExceptionTyped
<1>15. CASE Quit \/ Detach
    BY <1>15, ArmingUntouched DEF Quit, Detach
<1>16. CASE SetBreakpoint \/ Delete \/ ClearAt \/ RequestAsyncStop
    BY <1>16, ArmingUntouched DEF SetBreakpoint, Delete, ClearAt, RequestAsyncStop
<1>17. CASE Edit
    BY <1>17, ArmingUntouched DEF Edit
<1>18. CASE SetExceptionFilters
    BY <1>18 DEF SetExceptionFilters, ArmingTyped, ExceptionTyped
<1> QED
    BY <1>1, <1>2, <1>3, <1>4, <1>5, <1>6, <1>7, <1>8, <1>9, <1>10, <1>11, <1>12, <1>13,
       <1>14, <1>15, <1>16, <1>17, <1>18 DEF Next, Debuggee, User

\* Flags and places.  A stop parks the executor where it is.
LEMMA StepTypesExecutor ==
    ASSUME ServeInv, FlagsTyped, PlaceTyped, [Next]_vars
    PROVE  FlagsTyped' /\ PlaceTyped'
<1>0. NoSeam.line = None
    BY DEF NoSeam
<1> USE DEF FlagsTyped, PlaceTyped, Places, HoldsExit
<1>1. CASE UNCHANGED vars
    BY <1>1 DEF vars
<1>2. CASE Command
  <2>1. PICK l \in Lines : Arrive([line |-> l, function |-> None])
    BY <1>2 DEF Command
  <2> QED
    BY <2>1 DEF Arrive
<1>3. CASE Call
  <2>1. PICK l \in Lines, f \in Functions : Arrive([line |-> l, function |-> f])
    BY <1>3 DEF Call
  <2> QED
    BY <2>1 DEF Arrive
<1>4. CASE PassSeam \/ Veto \/ EvaluateCondition \/ ConditionFalse
    BY <1>0, <1>4 DEF PassSeam, Veto, EvaluateCondition, ConditionFalse, Proceed
<1>5. CASE StopAtBreakpoint
    BY <1>5 DEF StopAtBreakpoint, ParkAt
<1>6. CASE StopAtStep
    BY <1>6 DEF StopAtStep, ParkAt
<1>7. CASE ConditionTrue
    BY <1>0, <1>7 DEF ConditionTrue, ParkAt, Proceed
<1>8. CASE ConditionExits
    BY <1>0, <1>8 DEF ConditionExits, NoteExit, Proceed
<1>9. CASE SubshellExits \/ Exits \/ EnterSubshell \/ LeaveSubshell
    BY <1>0, <1>9 DEF SubshellExits, Exits, EnterSubshell, LeaveSubshell, NoteExit
<1>10. CASE ExceptionSite
    BY <1>10 DEF ExceptionSite, ParkAt
<1>11. CASE BoundaryPoll
    BY <1>11 DEF BoundaryPoll, ParkAt
<1>12. CASE FrameReturned
    BY <1>12 DEF FrameReturned, ParkAt, Pop
<1>13. CASE PopAfterStop \/ Finish
    BY <1>13 DEF PopAfterStop, Pop, Finish
<1>14. ASSUME GoOn PROVE PlaceTyped' /\ held' \in BOOLEAN
    BY <1>0, <1>14 DEF GoOn, ServeInv
<1>15. ASSUME NEW as \in Ways, Unwind(as) PROVE PlaceTyped' /\ held' \in BOOLEAN
    BY <1>0, <1>15 DEF Unwind, Ways
<1>16. CASE Resume
    BY <1>14, <1>15, <1>16 DEF Resume, Ways
<1>17. CASE ForceReturn
    BY <1>15, <1>17 DEF ForceReturn, Ways
<1>18. CASE EvaluateReturn \/ EvaluateBreak
    BY <1>15, <1>18 DEF EvaluateReturn, EvaluateBreak, Ways
<1>19. CASE EvaluateExit
    BY <1>15, <1>19 DEF EvaluateExit, NoteExit, Ways
<1>20. CASE Quit
    BY <1>15, <1>20 DEF Quit, Ways
<1>21. CASE Detach
    BY <1>14, <1>21 DEF Detach
<1>22. CASE SetBreakpoint \/ Delete \/ ClearAt \/ SetExceptionFilters \/ RequestAsyncStop
    BY <1>22 DEF SetBreakpoint, Delete, ClearAt, SetExceptionFilters, RequestAsyncStop
<1>23. CASE Edit
    BY <1>23 DEF Edit
<1> QED
    BY <1>1, <1>2, <1>3, <1>4, <1>5, <1>6, <1>7, <1>8, <1>9, <1>10, <1>11, <1>12, <1>13,
       <1>16, <1>17, <1>18, <1>19, <1>20, <1>21, <1>22, <1>23 DEF Next, Debuggee, User

\* The inductive invariant behind the types and the three theorems below.
SessionInv ==
    /\ ServeInv /\ EntryInv /\ NumbersInv /\ FrameInv
    /\ ArmingTyped /\ ExceptionTyped /\ FlagsTyped /\ PlaceTyped /\ NumbersTyped
    /\ EntriesTyped

LEMMA InitSession == Init => SessionInv
<1> SUFFICES ASSUME Init PROVE SessionInv
    OBVIOUS
<1>1. ServeInv /\ EntryInv /\ FrameInv
    BY DEF Init, ServeInv, StoppedIsServed, EntryInv, FrameInv, RegionsInv, SeamPlaced, InCall,
           Base, NoSeam
<1>2. DOMAIN bps = {} /\ nextId = 1 /\ spent = {}
    BY DEF Init
<1>3. NumbersInv /\ NumbersTyped /\ EntriesTyped
    BY <1>2 DEF NumbersInv, OneShotStopsOnce, NumbersTyped, EntriesTyped
<1>4. ArmingTyped /\ PlaceTyped
    BY DEF Init, ArmingTyped, PlaceTyped, Rules, Places, Continue, Arm, Stop, NoSeam
<1>5. ExceptionTyped /\ FlagsTyped
    BY DEF Init, ExceptionTyped, FlagsTyped
<1> QED
    BY <1>1, <1>3, <1>4, <1>5 DEF SessionInv

LEMMA StepSession == SessionInv /\ [Next]_vars => SessionInv'
    BY StepServes, StepKeepsEntry, StepKeepsNumbers, StepKeepsFrames, StepKeepsBounds,
       StepTypesSession, StepTypesExecutor, StepOnEntries DEF SessionInv, EntriesTyped, Inherits

\* The session, its table and the executor keep their types for any program
\* and any use of the debugger.  That depth stays a natural number is the
\* part with an argument, the executor never takes down a frame it does not
\* count; so is that an entry's ignore count does.
THEOREM SessionTyped == Spec => []SessionTypeOK
<1>1. SessionInv => SessionTypeOK
    BY DEF SessionInv, ServeInv, EntryInv, NumbersInv, FrameInv, RegionsInv, ArmingTyped,
           ExceptionTyped, FlagsTyped, PlaceTyped, NumbersTyped, EntriesTyped, SessionTypeOK, Rules, Places,
           Region
<1> QED
    BY <1>1, InitSession, StepSession, PTL DEF Spec

-----------------------------------------------------------------------------
(* The count of frames. *)

\* The user forces no return at the stop a finish makes as its frame returns,
\* and breaks out of no loop of the caller from the edge of a function.
FramesArePopped == {"returnAtFrameReturn", "breakAtFrameEdge"} \cap Does = {}

\* The inductive invariant: the count is the stack until an exit unwinds, and
\* every region restores a count that was.
Counted ==
    /\ pc \notin {"exiting", "over"} => depth = frames
    /\ \A i \in 1..Len(shells) : shells[i].depth = shells[i].frames

LEMMA CountedAlone ==
    ASSUME Counted, pc \notin {"exiting", "over"}, UNCHANGED <<depth, frames, shells>>
    PROVE  Counted'
    BY DEF Counted

\* A return that leaves a stop leaves none at the end of a frame, and a break
\* none at its entry either.
LEMMA CountedReturn ==
    ASSUME FramesArePopped, Counted, pc = "parked",
           (CanUnwindHere /\ Unwind("returning")) \/ (CanBreakHere /\ Unwind("running"))
    PROVE  Counted'
    BY DEF FramesArePopped, Counted, CanUnwindHere, CanBreakHere, Unwind, Abandons

\* An exit may leave one there: then no command of its region follows.
LEMMA CountedExit ==
    ASSUME Counted, pc = "parked", Unwind("exiting")
    PROVE  Counted'
    BY DEF Counted, Unwind, Abandons, AtEntry

\* The end of a region restores a count that was, whatever unwound its body.
LEMMA CountedRegion ==
    ASSUME FrameInv, Counted, EnterSubshell \/ LeaveSubshell PROVE Counted'
<1>0. shells \in Seq(Region) /\ depth \in Nat /\ frames \in Nat
    BY DEF FrameInv, RegionsInv
<1>1. CASE EnterSubshell
  <2> DEFINE top == [depth |-> depth, frames |-> frames]
  <2>1. /\ shells' = Append(shells, top) /\ UNCHANGED <<depth, frames, pc>> /\ pc = "running"
        /\ top \in Region
    BY <1>0, <1>1 DEF EnterSubshell, Region
  <2>2. /\ Len(shells) \in Nat /\ Len(shells') = Len(shells) + 1
        /\ \A i \in 1..Len(shells) : shells'[i] = shells[i]
        /\ shells'[Len(shells) + 1] = top
    BY <1>0, <2>1, Innermost
  <2>3. \A i \in 1..Len(shells') : i \in 1..Len(shells) \/ i = Len(shells) + 1
    BY <2>2
  <2> QED
    BY <2>1, <2>2, <2>3 DEF Counted
<1>2. CASE LeaveSubshell
  <2>1. /\ Len(shells) \in 1..Len(shells)
        /\ depth' = shells[Len(shells)].depth /\ frames' = shells[Len(shells)].frames
    BY <1>0, <1>2, Innermost DEF LeaveSubshell, Base
  <2>2. \A i \in 1..Len(shells') : i \in 1..Len(shells) /\ shells'[i] = shells[i]
    BY <1>0, <1>2, OuterRegions DEF LeaveSubshell
  <2> QED
    BY <2>1, <2>2 DEF Counted
<1> QED
    BY <1>1, <1>2

LEMMA StepKeepsCount ==
    ASSUME FramesArePopped, FrameInv, Counted, [Next]_vars PROVE Counted'
<1>1. CASE UNCHANGED vars
    BY <1>1 DEF vars, Counted
<1>2. CASE Command
    BY <1>2, CountedAlone DEF Command, Arrive
<1>3. CASE Call
    BY <1>3 DEF Call, Arrive, Counted
<1>4. CASE PassSeam \/ Veto \/ EvaluateCondition \/ ConditionFalse \/ ConditionTrue
    BY <1>4, CountedAlone DEF PassSeam, Veto, EvaluateCondition, ConditionFalse, ConditionTrue
<1>5. CASE StopAtBreakpoint \/ StopAtStep
    BY <1>5, CountedAlone DEF StopAtBreakpoint, StopAtStep
<1>6. CASE ConditionExits \/ SubshellExits
    BY <1>6, CountedAlone DEF ConditionExits, SubshellExits
<1>7. CASE ExceptionSite \/ BoundaryPoll
    BY <1>7, CountedAlone DEF ExceptionSite, Executing, BoundaryPoll
<1>8. CASE FrameReturned
    BY <1>8 DEF FrameReturned, Pop, Counted
<1>9. CASE PopAfterStop
    BY <1>9 DEF PopAfterStop, Pop, Counted
<1>10. CASE Exits \/ Finish
    BY <1>10 DEF Exits, Finish, Counted
<1>11. CASE Resume
  <2>1. CASE st = "Stopped"
    BY <1>11, <2>1, CountedAlone DEF Resume, GoOn, regions
  <2>2. CASE st # "Stopped"
    BY <1>11, <2>2, CountedExit DEF Resume
  <2> QED
    BY <2>1, <2>2
<1>12. CASE ForceReturn
    BY <1>12, CountedReturn, CountedExit DEF ForceReturn
<1>13. CASE EvaluateReturn \/ EvaluateBreak
    BY <1>13, CountedReturn DEF EvaluateReturn, EvaluateBreak
<1>14. CASE EvaluateExit
    BY <1>14, CountedExit DEF EvaluateExit
<1>15. CASE Quit
    BY <1>15, CountedExit DEF Quit
<1>16. CASE Detach
    BY <1>16, CountedAlone DEF Detach, GoOn, regions
<1>17. CASE SetBreakpoint \/ Delete \/ ClearAt \/ SetExceptionFilters
    BY <1>17, CountedAlone DEF SetBreakpoint, Delete, ClearAt, SetExceptionFilters
<1>18. CASE Edit
    BY <1>18, CountedAlone DEF Edit
<1>19. CASE RequestAsyncStop
    BY <1>19 DEF RequestAsyncStop, Counted
<1> QED
    BY <1>1, <1>2, <1>3, <1>4, <1>5, <1>6, <1>7, <1>8, <1>9, <1>10, <1>11, <1>12, <1>13,
       <1>14, <1>15, <1>16, <1>17, <1>18, <1>19, CountedRegion DEF Next, Debuggee, User

\* Wherever commands run, the depth the step rules compare is the number of
\* function frames on the stack: through calls, returns and breaks that
\* unwind, exits that a region catches, stops at the end of a frame and
\* exceptions inside conditions, unless an error leaves a stop at the edge of
\* a function past what takes its frame off the count.
THEOREM DepthCountsFrames ==
    ASSUME FramesArePopped PROVE Spec => []DepthIsFrames
<1>1. Init => Counted
    BY DEF Init, Counted
<1>2. SessionInv /\ Counted /\ [Next]_vars => Counted'
    BY StepKeepsCount DEF SessionInv
<1>3. Counted => DepthIsFrames
    BY DEF Counted, DepthIsFrames
<1> QED
    BY <1>1, <1>2, <1>3, InitSession, StepSession, PTL DEF Spec

-----------------------------------------------------------------------------
(* The end of the session. *)

\* A session that goes on, and one whose exit something inside caught.
LEMMA EndKept ==
    ASSUME TerminatedMeansGone, pc \notin {"exiting", "over"}, held => held',
           st' = "Terminated" => st = "Terminated" \/ held'
    PROVE  TerminatedMeansGone'
    BY DEF TerminatedMeansGone

\* Whatever way a stop is left, only a condition stops an exit.
LEMMA EndsAtStop ==
    ASSUME TerminatedMeansGone, pc = "parked", NEW as \in Ways, Unwind(as),
           as = "exiting" \/ (st' = "Terminated" => st = "Terminated")
    PROVE  TerminatedMeansGone'
    BY DEF TerminatedMeansGone, Unwind, HoldsExit, Ways

LEMMA StepKeepsEnd ==
    ASSUME TerminatedMeansGone, [Next]_vars PROVE TerminatedMeansGone'
<1>1. CASE UNCHANGED vars
    BY <1>1 DEF vars, TerminatedMeansGone
<1>2. CASE Command \/ Call
    BY <1>2, EndKept DEF Command, Call, Arrive
<1>3. CASE PassSeam \/ Veto \/ EvaluateCondition \/ ConditionFalse
    BY <1>3, EndKept DEF PassSeam, Veto, EvaluateCondition, ConditionFalse
<1>4. CASE StopAtBreakpoint
    BY <1>4, EndKept DEF StopAtBreakpoint, ParkAt
<1>5. CASE StopAtStep
    BY <1>5, EndKept DEF StopAtStep, ParkAt
<1>6. CASE ConditionTrue
    BY <1>6, EndKept DEF ConditionTrue, ParkAt
<1>7. CASE ConditionExits \/ SubshellExits
    BY <1>7, EndKept DEF ConditionExits, SubshellExits, HoldsExit
<1>8. CASE ExceptionSite
    BY <1>8, EndKept DEF ExceptionSite, Executing, ParkAt
<1>9. CASE BoundaryPoll
    BY <1>9, EndKept DEF BoundaryPoll, ParkAt
<1>10. CASE FrameReturned
    BY <1>10, EndKept DEF FrameReturned, ParkAt
<1>11. CASE PopAfterStop \/ EnterSubshell
    BY <1>11, EndKept DEF PopAfterStop, EnterSubshell
<1>12. CASE LeaveSubshell
    BY <1>12 DEF LeaveSubshell, HoldsExit, TerminatedMeansGone
<1>13. CASE Exits \/ Finish
    BY <1>13 DEF Exits, Finish, TerminatedMeansGone
<1>14. CASE Resume
  <2>1. CASE st = "Stopped"
    BY <1>14, <2>1, EndKept DEF Resume, GoOn
  <2>2. CASE st # "Stopped"
    BY <1>14, <2>2, EndsAtStop DEF Resume, Ways
  <2> QED
    BY <2>1, <2>2
<1>15. CASE ForceReturn
    BY <1>15, EndsAtStop DEF ForceReturn, Ways
<1>16. CASE EvaluateReturn \/ EvaluateBreak
    BY <1>16, EndsAtStop DEF EvaluateReturn, EvaluateBreak, Ways
<1>17. CASE EvaluateExit \/ Quit
    BY <1>17, EndsAtStop DEF EvaluateExit, Quit, Ways
<1>18. CASE Detach
    BY <1>18, EndKept DEF Detach, GoOn
<1>19. CASE SetBreakpoint \/ Delete \/ ClearAt \/ SetExceptionFilters
    BY <1>19, EndKept DEF SetBreakpoint, Delete, ClearAt, SetExceptionFilters
<1>20. CASE Edit
    BY <1>20, EndKept DEF Edit
<1>21. CASE RequestAsyncStop
    BY <1>21 DEF RequestAsyncStop, TerminatedMeansGone
<1> QED
    BY <1>1, <1>2, <1>3, <1>4, <1>5, <1>6, <1>7, <1>8, <1>9, <1>10, <1>11, <1>12, <1>13,
       <1>14, <1>15, <1>16, <1>17, <1>18, <1>19, <1>20, <1>21 DEF Next, Debuggee, User

\* A session that ended has no debuggee that goes on, whatever the program and
\* the user do: from quit, kill, a typed exit or a resume of a session that is
\* over, what follows is the exit that unwinds the program, unless a
\* condition, a region or what runs at a stop catches that exit on its way.
THEOREM EndedMeansGone == Spec => []TerminatedMeansGone
<1>1. Init => TerminatedMeansGone
    BY DEF Init, TerminatedMeansGone
<1> QED
    BY <1>1, StepKeepsEnd, PTL DEF Spec

-----------------------------------------------------------------------------
(* Steps. *)

\* No breakpoint has a condition.  A false condition lets its command run
\* without asking the arming.
NoConditions == \A b \in NewBreakpoints : ~b.condition

\* Then no condition is ever evaluated, or gone back to after a stop.
Unconditional ==
    /\ \A i \in DOMAIN bps : ~bps[i].condition
    /\ pc # "condition" /\ back # "condition"

LEMMA StepUnconditional ==
    ASSUME NoConditions, SessionInv, Unconditional, [Next]_vars PROVE Unconditional'
<1>1. \A i \in DOMAIN bps' : ~bps'[i].condition
    BY StepOnEntries DEF SessionInv, Inherits, NoConditions, Unconditional
<1>2. ~EvaluateCondition
    BY DEF EvaluateCondition, Hits, Candidates, LineEntries, FunctionEntries, Unconditional
<1>3. back' = back \/ back' = "consult" \/ back' = "running" \/ back' = "popping" \/ back' = pc
    BY DEF Next, Debuggee, User, vars, Command, Call, Arrive, PassSeam, Veto, StopAtBreakpoint,
           EvaluateCondition, StopAtStep, ConditionTrue, ConditionFalse, ConditionExits,
           ExceptionSite, BoundaryPoll, FrameReturned, PopAfterStop, EnterSubshell,
           LeaveSubshell, SubshellExits, Exits, Finish,
           Resume, ForceReturn, EvaluateReturn, EvaluateBreak, EvaluateExit, Quit,
           Detach, SetBreakpoint, Delete, ClearAt, Edit, SetExceptionFilters, RequestAsyncStop,
           ParkAt, GoOn, Unwind
<1>4. pc' # "condition"
    BY <1>2
       DEF Next, Debuggee, User, vars, Command, Call, Arrive, PassSeam, Veto, StopAtBreakpoint,
           StopAtStep, ConditionTrue, ConditionFalse, ConditionExits, Proceed, Pop,
           ExceptionSite, BoundaryPoll, FrameReturned, PopAfterStop, EnterSubshell,
           LeaveSubshell, SubshellExits, Exits, Finish,
           Resume, ForceReturn, EvaluateReturn, EvaluateBreak, EvaluateExit, Quit,
           Detach, SetBreakpoint, Delete, ClearAt, Edit, SetExceptionFilters, RequestAsyncStop,
           ParkAt, GoOn, Unwind, Unconditional
<1> QED
    BY <1>1, <1>3, <1>4 DEF Unconditional

\* What an arming allows to have run.
Allows(a, f, p) ==
    /\ a.rule # "StepInto"
    /\ a.rule = "StepOver" => p.frames > a.depth
    /\ a.rule \in {"Finish", "StepOutOfFrame"} => p.frames >= a.depth
    /\ a.rule = "StepInFile" => p.file # f

\* A command that the consult let pass is one the arming allows: the rule is
\* compared with the depth, which is the number of frames.
LEMMA PassIsAllowed ==
    ASSUME SessionInv, Counted, PassSeam, Here, st = "Running"
    PROVE  Allows(arming, scope, [frames |-> frames, file |-> FileOf[seam.line]])
<1>1. depth = frames /\ depth \in Nat /\ arming.depth \in Nat
    BY DEF PassSeam, Counted, SessionInv, FrameInv, ArmingTyped
<1>2. CASE arming = Continue
    BY <1>2 DEF Continue, Arm, Allows
<1>3. CASE ~ArmingStopsAtSeam
    BY <1>1, <1>3 DEF ArmingStopsAtSeam, Allows
<1> QED
    BY <1>2, <1>3 DEF PassSeam, CanStopAtSeam

\* Steps that let no command run and change neither arming nor scope.
LEMMA StepsUntouched ==
    ASSUME StepsLand, UNCHANGED <<arming, scope, passed>>,
           driver' => driver, gate' => gate, st' = "Running" => st = "Running"
    PROVE  StepsLand'
    BY DEF StepsLand, Here

\* Steps after which nothing has run since the resume, or no session runs.
LEMMA StepsReset ==
    ASSUME passed' = {} \/ ~driver' \/ ~gate' \/ st' # "Running"
    PROVE  StepsLand'
    BY DEF StepsLand, Here

LEMMA StepKeepsSteps ==
    ASSUME SessionInv, Counted, Unconditional, StepsLand, [Next]_vars PROVE StepsLand'
<1>1. CASE UNCHANGED vars
    BY <1>1, StepsUntouched DEF vars
<1>2. CASE Command \/ Call
    BY <1>2, StepsUntouched DEF Command, Call, Arrive
<1>3. CASE PassSeam
  <2>1. SUFFICES ASSUME Here, st = "Running", NEW p \in passed' PROVE Allows(arming, scope, p)
    BY <1>3 DEF StepsLand, Here, PassSeam, Allows
  <2>2. CASE p \in passed
    BY <2>1, <2>2 DEF StepsLand, Allows
  <2>3. CASE p = [frames |-> frames, file |-> FileOf[seam.line]]
    BY <1>3, <2>1, <2>3, PassIsAllowed
  <2> QED
    BY <1>3, <2>2, <2>3 DEF PassSeam, Proceed
<1>4. CASE Veto
    BY <1>4, StepsUntouched DEF Veto
<1>5. CASE StopAtBreakpoint
    BY <1>5, StepsReset DEF StopAtBreakpoint, ParkAt
<1>6. CASE StopAtStep
    BY <1>6, StepsReset DEF StopAtStep, ParkAt
<1>7. ~(EvaluateCondition \/ ConditionTrue \/ ConditionFalse \/ ConditionExits)
    BY DEF EvaluateCondition, ConditionTrue, ConditionFalse, ConditionExits, Hits, Candidates,
           LineEntries, FunctionEntries, Unconditional
<1>8. CASE ExceptionSite
    BY <1>8, StepsReset DEF ExceptionSite, ParkAt
<1>9. CASE BoundaryPoll
    BY <1>9, StepsReset, StepsUntouched DEF BoundaryPoll, ParkAt
<1>10. CASE FrameReturned
    BY <1>10, StepsReset, StepsUntouched DEF FrameReturned, ParkAt
<1>11. CASE PopAfterStop
    BY <1>11, StepsUntouched DEF PopAfterStop
<1>12. CASE SubshellExits \/ Exits \/ EnterSubshell \/ LeaveSubshell
  <2>1. CASE SubshellExits \/ Exits
    <3>1. UNCHANGED <<arming, scope, passed, driver>>
        BY <2>1 DEF SubshellExits, Exits
    <3>2. (gate' = FALSE \/ gate' = gate) /\ (st' = "Terminated" \/ st' = st)
        BY <2>1 DEF SubshellExits, Exits, NoteExit
    <3> QED
        BY <3>1, <3>2, StepsUntouched
  <2>2. CASE EnterSubshell \/ LeaveSubshell
    BY <2>2, StepsUntouched DEF EnterSubshell, LeaveSubshell
  <2> QED
    BY <1>12, <2>1, <2>2
<1>13. CASE Finish
    BY <1>13, StepsReset DEF Finish
<1>14. ASSUME pc = "parked", st # "Stopped" PROVE ~driver \/ st # "Running"
    BY <1>14, ParkedOrGone DEF SessionInv
<1>15. CASE Resume
    BY <1>14, <1>15, StepsReset DEF Resume
<1>16. CASE ForceReturn
    BY <1>14, <1>16, StepsReset DEF ForceReturn
<1>17. CASE EvaluateReturn \/ EvaluateBreak
    BY <1>14, <1>17, StepsReset DEF EvaluateReturn, EvaluateBreak
<1>18. CASE EvaluateExit
    BY <1>18, StepsUntouched DEF EvaluateExit, NoteExit
<1>19. CASE Quit \/ Detach
    BY <1>19, StepsReset DEF Quit, Detach
<1>20. CASE SetBreakpoint \/ Delete \/ ClearAt \/ SetExceptionFilters \/ RequestAsyncStop
    BY <1>20, StepsUntouched DEF SetBreakpoint, Delete, ClearAt, SetExceptionFilters, RequestAsyncStop
<1>21. CASE Edit
    BY <1>21, StepsUntouched DEF Edit
<1> QED
    BY <1>1, <1>2, <1>3, <1>4, <1>5, <1>6, <1>7, <1>8, <1>9, <1>10, <1>11, <1>12, <1>13,
       <1>15, <1>16, <1>17, <1>18, <1>19, <1>20, <1>21 DEF Next, Debuggee, User

\* A step never runs past the place it should stop at: while the session runs
\* under a step, next, finish, step out or step within a file, every command
\* that ran since the resume was one the rule let pass, by the frames really
\* on the stack.  The hypotheses exclude the two deviations of the code:
\* conditions that turn out false, and errors that leave the stop of a finish
\* or of a function's entry and are caught by what called it.
THEOREM StepsAlwaysLand ==
    ASSUME NoConditions, FramesArePopped PROVE Spec => []StepsLand
<1>1. Init => Counted /\ Unconditional /\ StepsLand
    BY DEF Init, Counted, Unconditional, StepsLand
<1>2. SessionInv /\ Counted /\ Unconditional /\ StepsLand /\ [Next]_vars
          => Counted' /\ Unconditional' /\ StepsLand'
    BY StepKeepsCount, StepUnconditional, StepKeepsSteps DEF SessionInv
<1> QED
    BY <1>1, <1>2, InitSession, StepSession, PTL DEF Spec
=============================================================================
