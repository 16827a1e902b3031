---------------------------- MODULE TrapsProofs ----------------------------
(***************************************************************************)
(* Traps and dispositions agree, no signal caught for an action is lost,   *)
(* and the shell dies only of signals it has no trap for: for any signals  *)
(* and any queues, in a program without the deviations that Traps names.   *)
(***************************************************************************)
EXTENDS Traps, VectorsProofs

ActionsStayInside == "subshellInAction" \notin Does

\* Past the poll of a boundary, and all through an action, which is not polled
\* for, the dispositions are those of the table.
Settled ==
    ~inside /\ at # "over" /\ (at # "boundary" \/ acting # Nothing) => disp = Reconciled(table)

\* A subshell is entered by a command of the shell and not by an action, and
\* nothing is polled for it.
Alone == inside => acting = Nothing /\ at \notin {"polled", "dispatch"}

Agreed == Settled /\ Alone

\* The dispositions of a table depend on the settings, which a program keeps
\* here.
LEMMA ReconciledStays ==
    ASSUME UNCHANGED <<settings, table>>
    PROVE  Reconciled(table)' = Reconciled(table)
BY DEF settings, Reconciled, Wish

\* One case for each operation of the shell and for the arrival of a signal.
LEMMA AgreedStep ==
    ASSUME ActionsStayInside, Agreed, [TrapsNext]_trapVars
    PROVE  Agreed'
<1> USE DEF Agreed, Settled, Alone
<1>1. CASE UNCHANGED trapVars
  BY <1>1, ReconciledStays DEF trapVars, traps, kernel, settings
<1>2. ASSUME NEW s \in Signals, Arrive(s) PROVE Agreed'
  BY <1>2, ReconciledStays DEF Arrive, traps, settings
<1>3. CASE PassBy
  BY <1>3, ReconciledStays DEF PassBy, Suspended, traps, kernel, settings
<1>4. CASE Poll
  BY <1>4, ReconciledStays DEF Poll, Suspended, traps, settings
<1>5. CASE TakePending
  BY <1>5, ReconciledStays DEF TakePending, traps, settings
<1>6. CASE Skip
  BY <1>6, ReconciledStays DEF Skip, traps, kernel, settings
<1>7. CASE Condemn
  BY <1>7 DEF Condemn, Abort
<1>8. CASE BeginAction
  BY <1>8, ReconciledStays DEF BeginAction, traps, kernel, settings
<1>9. CASE EndAction
  BY <1>9, ReconciledStays DEF EndAction, traps, kernel, settings
<1>10. CASE Dispatched
  BY <1>10, ReconciledStays DEF Dispatched, traps, kernel, settings
<1>11. CASE Command
  BY <1>11, ReconciledStays DEF Command, Completes, traps, kernel, settings
<1>12. CASE EnterSubshell
  BY <1>12 DEF ActionsStayInside, EnterSubshell, Completes
<1>13. CASE LeaveSubshell
  BY <1>13 DEF LeaveSubshell, Completes
<1>14. CASE Block
  BY <1>14, ReconciledStays DEF Block, traps, kernel, settings
<1>15. CASE Observe
  <2>1. CASE Abort(FirstUntrapped(Retain(Taken, {s \in Signals : disp[s] = "handler"})))
    BY <2>1 DEF Abort
  <2>2. CASE UNCHANGED <<traps, acting>> /\ at' \in {at, "boundary"}
    BY <1>15, <2>2, ReconciledStays DEF Observe, traps, settings
  <2> QED
    BY <1>15, <2>1, <2>2 DEF Observe
<1>16. CASE Unblock
  BY <1>16, ReconciledStays DEF Unblock, traps, kernel, settings
<1>17. CASE Wait
  BY <1>17, ReconciledStays DEF Wait, traps, kernel, settings
<1>18. CASE WaitPoll
  <2>1. CASE Abort(Head(Retain(Taken, {s \in Signals : table[s] # "ignore"})))
    BY <2>1 DEF Abort
  <2>2. CASE UNCHANGED <<traps, acting>> /\ at' \in {at, "boundary"}
    BY <1>18, <2>2, ReconciledStays DEF WaitPoll, traps, settings
  <2> QED
    BY <1>18, <2>1, <2>2 DEF WaitPoll
<1>19. ASSUME NEW s \in Signals, Kill(s) PROVE Agreed'
  BY <1>19, ReconciledStays DEF Kill, traps, settings
<1>20. ASSUME NEW s \in Signals, NEW t \in {"none", "ignore", "action"}, Trap(s, t)
       PROVE  Agreed'
  BY <1>20 DEF Trap, Completes, Reconciled, Wish, settings
<1>21. CASE Interrupt
  BY <1>21, ReconciledStays DEF Interrupt, traps, settings
<1> QED
  BY <1>1, <1>2, <1>3, <1>4, <1>5, <1>6, <1>7, <1>8, <1>9, <1>10, <1>11, <1>12, <1>13,
     <1>14, <1>15, <1>16, <1>17, <1>18, <1>19, <1>20, <1>21 DEF TrapsNext, Shell

\* Wherever a command of the shell runs the kernel has the dispositions of the
\* trap table, although subshells set traps in the same process
\* (reconcile_kernel_trap_dispositions at the boundary and in the builtin).
THEOREM DispositionsFollowTraps ==
    ASSUME ActionsStayInside
    PROVE  TrapsSpec => []KernelFollowsTable
<1>1. TrapsInit => Agreed
  BY DEF TrapsInit, Agreed, Settled, Alone
<1>2. Agreed /\ [TrapsNext]_trapVars => Agreed'
  BY AgreedStep
<1>3. Agreed => KernelFollowsTable
  BY DEF Agreed, Settled, KernelFollowsTable
<1> QED
  BY <1>1, <1>2, <1>3, PTL DEF TrapsSpec

-----------------------------------------------------------------------------
(* Sequences of signals and the elements they hold. *)

LEMMA RetainRange ==
    ASSUME NEW V, NEW s \in Seq(V), NEW S
    PROVE  Retain(s, S) \in Seq(V) /\ Range(Retain(s, S)) = Range(s) \cap S
<1>1. PICK r : r = Retain(s, S)
  OBVIOUS
<1>2. Retain(s, S) \in Seq(V) /\ TakesIn(Retain(s, S), s, S)
  BY RetainElements
<1>3. \A x : (\E k \in DOMAIN r : r[k] = x) <=> x \in S /\ \E i \in DOMAIN s : s[i] = x
  BY <1>1, <1>2 DEF TakesIn
<1>4. Range(r) = Range(s) \cap S
  BY <1>3 DEF Range
<1> QED
  BY <1>1, <1>2, <1>4

LEMMA RangeOfTwo ==
    ASSUME NEW V, NEW s \in Seq(V), NEW t \in Seq(V)
    PROVE  s \o t \in Seq(V) /\ Range(s \o t) = Range(s) \cup Range(t)
<1>1. /\ s \o t \in Seq(V) /\ Len(s) \in Nat /\ Len(t) \in Nat
      /\ DOMAIN s = 1..Len(s) /\ DOMAIN t = 1..Len(t) /\ DOMAIN (s \o t) = 1..(Len(s) + Len(t))
      /\ \A i \in 1..(Len(s) + Len(t)) : (s \o t)[i] = IF i <= Len(s) THEN s[i] ELSE t[i - Len(s)]
  OBVIOUS
<1>2. PICK r : r = s \o t
  OBVIOUS
<1>3. /\ DOMAIN r = 1..(Len(s) + Len(t))
      /\ \A i \in 1..(Len(s) + Len(t)) : r[i] = IF i <= Len(s) THEN s[i] ELSE t[i - Len(s)]
  BY <1>1, <1>2
<1>4. ASSUME NEW x \in Range(r) PROVE x \in Range(s) \cup Range(t)
  <2>1. PICK i \in 1..(Len(s) + Len(t)) : x = r[i]
    BY <1>3, <1>4 DEF Range
  <2>2. CASE i <= Len(s)
    <3>1. i \in DOMAIN s /\ x = s[i]
      BY <1>1, <1>3, <2>1, <2>2
    <3> QED
      BY <3>1 DEF Range
  <2>3. CASE ~(i <= Len(s))
    <3>1. i - Len(s) \in DOMAIN t /\ x = t[i - Len(s)]
      BY <1>1, <1>3, <2>1, <2>3
    <3> QED
      BY <3>1 DEF Range
  <2> QED
    BY <2>2, <2>3
<1>5. ASSUME NEW x \in Range(s) PROVE x \in Range(r)
  <2>1. PICK i \in DOMAIN s : x = s[i]
    BY <1>5 DEF Range
  <2>2. i \in DOMAIN r /\ r[i] = x
    BY <1>1, <1>3, <2>1
  <2> QED
    BY <2>2 DEF Range
<1>6. ASSUME NEW x \in Range(t) PROVE x \in Range(r)
  <2>1. PICK i \in DOMAIN t : x = t[i]
    BY <1>6 DEF Range
  <2>2. i + Len(s) \in DOMAIN r /\ r[i + Len(s)] = x
    BY <1>1, <1>3, <2>1
  <2> QED
    BY <2>2 DEF Range
<1>7. Range(r) = Range(s) \cup Range(t)
  BY <1>4, <1>5, <1>6
<1> QED
  BY <1>1, <1>2, <1>7

LEMMA RangeOfEmpty == Range(<< >>) = {}
BY DEF Range

LEMMA RangeOfAppend ==
    ASSUME NEW V, NEW s \in Seq(V), NEW e \in V
    PROVE  Append(s, e) \in Seq(V) /\ Range(Append(s, e)) = Range(s) \cup {e}
<1>1. PICK r : r = Append(s, e)
  OBVIOUS
<1>2. /\ r \in Seq(V) /\ Len(s) \in Nat /\ DOMAIN s = 1..Len(s) /\ DOMAIN r = 1..(Len(s) + 1)
      /\ \A i \in 1..Len(s) : r[i] = s[i]
      /\ r[Len(s) + 1] = e
  BY <1>1
<1>3. DOMAIN r = DOMAIN s \cup {Len(s) + 1}
  BY <1>2
<1>4. Range(r) = Range(s) \cup {e}
  BY <1>2, <1>3 DEF Range
<1> QED
  BY <1>1, <1>2, <1>4

LEMMA RangeOfTail ==
    ASSUME NEW V, NEW s \in Seq(V), s # << >>
    PROVE  /\ Head(s) \in V /\ Head(s) \in Range(s) /\ Tail(s) \in Seq(V)
           /\ Range(s) = {Head(s)} \cup Range(Tail(s))
<1>1. PICK r : r = Tail(s)
  OBVIOUS
<1>2. /\ r \in Seq(V) /\ Len(s) \in Nat /\ Len(s) # 0 /\ DOMAIN s = 1..Len(s) /\ Head(s) = s[1]
      /\ Len(r) = Len(s) - 1 /\ DOMAIN r = 1..(Len(s) - 1)
      /\ \A i \in 1..(Len(s) - 1) : r[i] = s[i + 1]
  BY <1>1
<1>3. ASSUME NEW x \in Range(s), x # Head(s) PROVE x \in Range(r)
  <2>1. PICK i \in DOMAIN s : x = s[i]
    BY <1>3 DEF Range
  <2>2. i - 1 \in DOMAIN r /\ r[i - 1] = x
    BY <1>2, <1>3, <2>1
  <2> QED
    BY <2>2 DEF Range
<1>4. ASSUME NEW x \in Range(r) PROVE x \in Range(s)
  <2>1. PICK i \in DOMAIN r : x = r[i]
    BY <1>4 DEF Range
  <2>2. i + 1 \in DOMAIN s /\ s[i + 1] = x
    BY <1>2, <2>1
  <2> QED
    BY <2>2 DEF Range
<1>5. 1 \in DOMAIN s /\ s[1] \in V /\ s[1] \in Range(s)
  BY <1>2 DEF Range
<1>6. Range(s) = {Head(s)} \cup Range(r)
  BY <1>2, <1>3, <1>4, <1>5
<1> QED
  BY <1>1, <1>2, <1>5, <1>6

-----------------------------------------------------------------------------
(* Types. *)

Delivery == [sig : Signals, routed : BOOLEAN]

TableTypes ==
    /\ table \in [Signals -> Traps] /\ top \in [Signals -> Traps \ {"reset"}]
    /\ inside \in BOOLEAN
    /\ \A s \in Signals : table[s] = "reset" => inside

KernelTypes ==
    /\ disp \in [Signals -> {"default", "ignore", "handler"}]
    /\ slots \subseteq Signals /\ owed \subseteq Signals
    /\ exitTrap \in BOOLEAN /\ interactive \in BOOLEAN

QueueTypes ==
    /\ selfq \in Seq(Signals) /\ ancestor \in Seq(Signals) /\ queue \in Seq(Delivery)
    /\ anyPending \in BOOLEAN

PlaceTypes ==
    /\ acting \in Signals \cup {Nothing}
    /\ at \in {"polled", "dispatch"} => acting = Nothing /\ ~inside

TrapTypes == TableTypes /\ KernelTypes /\ QueueTypes /\ PlaceTypes

\* What take_all_signals returns: the signals of both sources.
LEMMA TakenFacts ==
    ASSUME TrapTypes
    PROVE  /\ Taken \in Seq(Signals)
           /\ Range(Taken) = (IF anyPending THEN Range(selfq) ELSE {})
                                 \cup (IF HandlerAny THEN slots ELSE {})
<1> DEFINE a == IF anyPending THEN selfq ELSE << >>
           b == IF HandlerAny THEN Retain(Numbered, slots) ELSE << >>
<1>1. selfq \in Seq(Signals) /\ slots \subseteq Signals
  BY DEF TrapTypes, QueueTypes, KernelTypes
<1>0. << >> \in Seq(Signals)
  OBVIOUS
<1>2. a \in Seq(Signals) /\ Range(a) = IF anyPending THEN Range(selfq) ELSE {}
  <2>1. CASE anyPending
    BY <1>1, <2>1
  <2>2. CASE ~anyPending
    BY <1>0, <2>2, RangeOfEmpty
  <2> QED
    BY <2>1, <2>2
<1>3. Numbered \in Seq(Signals) /\ Range(Numbered) = Signals
  BY TrapsAssumption DEF Signals
<1>4. Retain(Numbered, slots) \in Seq(Signals) /\ Range(Retain(Numbered, slots)) = slots
  <2>1. Retain(Numbered, slots) \in Seq(Signals) /\ Range(Retain(Numbered, slots)) = Range(Numbered) \cap slots
    BY <1>3, RetainRange
  <2> QED
    BY <1>1, <1>3, <2>1
<1>5. b \in Seq(Signals) /\ Range(b) = IF HandlerAny THEN slots ELSE {}
  <2>1. CASE HandlerAny
    BY <1>4, <2>1
  <2>2. CASE ~HandlerAny
    BY <1>0, <2>2, RangeOfEmpty
  <2> QED
    BY <2>1, <2>2
<1>6. Taken = a \o b
  BY DEF Taken
<1> HIDE DEF a, b
<1> QED
  BY <1>2, <1>5, <1>6, RangeOfTwo

LEMMA DrainTypes ==
    ASSUME TrapTypes, NEW back \in Seq(Signals), Drain(back)
    PROVE  selfq' \in Seq(Signals) /\ slots' \subseteq Signals /\ anyPending' \in BOOLEAN
BY DEF TrapTypes, QueueTypes, KernelTypes, Drain

LEMMA ReconciledTypes ==
    ASSUME NEW t
    PROVE  Reconciled(t) \in [Signals -> {"default", "ignore", "handler"}]
<1>1. ASSUME NEW s \in Signals PROVE Wish(t, s) \in {"default", "ignore", "handler"}
  BY DEF Wish
<1> QED
  BY <1>1 DEF Reconciled

LEMMA KernelKeepsTypes ==
    ASSUME TrapTypes, NEW s \in Signals, Kernel(s)
    PROVE  slots' \subseteq Signals /\ owed' \subseteq Signals
<1>1. slots \subseteq Signals /\ owed \subseteq Signals /\ disp[s] \in {"default", "ignore", "handler"}
  BY DEF TrapTypes, KernelTypes
<1>2. CASE disp[s] = "handler"
  BY <1>1, <1>2 DEF Kernel
<1>3. CASE disp[s] = "ignore"
  BY <1>1, <1>3 DEF Kernel
<1>4. CASE disp[s] = "default"
  BY <1>1, <1>4 DEF Kernel
<1> QED
  BY <1>1, <1>2, <1>3, <1>4

\* The shell gets its own traps back when a line is given up.
LEMMA AbortTypes ==
    ASSUME TrapTypes, NEW s, Abort(s), UNCHANGED <<disp, ancestor, exitTrap, interactive>>,
           selfq' \in Seq(Signals), slots' \subseteq Signals, anyPending' \in BOOLEAN
    PROVE  TrapTypes'
<1>1. TableTypes'
  <2>1. Owned \in [Signals -> Traps \ {"reset"}]
    BY DEF TrapTypes, TableTypes, Owned
  <2>2. NoTraps \in [Signals -> Traps \ {"reset"}]
    BY DEF NoTraps, Traps
  <2> QED
    BY <2>1, <2>2 DEF Abort, TableTypes
<1>2. KernelTypes'
  <2>1. owed' \subseteq owed
    BY DEF Abort, Dropped
  <2> QED
    BY <2>1 DEF TrapTypes, KernelTypes
<1>3. QueueTypes'
  BY DEF Abort, TrapTypes, QueueTypes
<1>4. PlaceTypes'
  BY DEF Abort, PlaceTypes
<1> QED
  BY <1>1, <1>2, <1>3, <1>4 DEF TrapTypes

LEMMA TaggedTypes ==
    ASSUME NEW q \in Seq(Signals), NEW b \in BOOLEAN
    PROVE  /\ [i \in DOMAIN q |-> [sig |-> q[i], routed |-> b]] \in Seq(Delivery)
           /\ {m.sig : m \in Range([i \in DOMAIN q |-> [sig |-> q[i], routed |-> b]])} = Range(q)
<1>1. PICK f : f = [i \in DOMAIN q |-> [sig |-> q[i], routed |-> b]]
  OBVIOUS
<1>2. DOMAIN q = 1..Len(q) /\ Len(q) \in Nat /\ \A i \in DOMAIN q : q[i] \in Signals
  OBVIOUS
<1>3. /\ DOMAIN f = DOMAIN q
      /\ \A i \in DOMAIN q : f[i] = [sig |-> q[i], routed |-> b]
  BY <1>1
<1>4. \A i \in DOMAIN q : f[i] \in Delivery /\ f[i].sig = q[i]
  BY <1>2, <1>3 DEF Delivery
<1>5. f \in [1..Len(q) -> Delivery]
  BY <1>1, <1>2, <1>4
<1>6. f \in Seq(Delivery)
  BY <1>2, <1>5
<1>7. {m.sig : m \in Range(f)} = Range(q)
  <2>1. ASSUME NEW x \in Range(q) PROVE x \in {m.sig : m \in Range(f)}
    <3>1. PICK i \in DOMAIN q : x = q[i]
      BY <2>1 DEF Range
    <3>2. f[i] \in Range(f) /\ f[i].sig = x
      BY <1>3, <1>4, <3>1 DEF Range
    <3> QED
      BY <3>2
  <2>2. ASSUME NEW m \in Range(f) PROVE m.sig \in Range(q)
    <3>1. PICK i \in DOMAIN q : m = f[i]
      BY <1>3, <2>2 DEF Range
    <3> QED
      BY <1>4, <3>1 DEF Range
  <2> QED
    BY <2>1, <2>2
<1> QED
  BY <1>1, <1>6, <1>7

\* The steps that leave traps, queues and signals alone.
LEMMA MovesTypes ==
    ASSUME TrapTypes, UNCHANGED <<traps, mailbox, queue, slots, settings, owed>>,
           disp' \in [Signals -> {"default", "ignore", "handler"}],
           acting' \in Signals \cup {Nothing},
           at' \in {"polled", "dispatch"} => acting' = Nothing /\ ~inside
    PROVE  TrapTypes'
<1>1. TableTypes' /\ QueueTypes'
  BY DEF TrapTypes, TableTypes, QueueTypes, traps, mailbox
<1>2. KernelTypes' /\ PlaceTypes'
  BY DEF TrapTypes, KernelTypes, PlaceTypes, traps, settings
<1> QED
  BY <1>1, <1>2 DEF TrapTypes

LEMMA TakePendingTypes ==
    ASSUME TrapTypes, TakePending
    PROVE  TrapTypes'
<1>1. PICK q : q = Taken
  OBVIOUS
<1>2. q \in Seq(Signals) /\ ancestor \in Seq(Signals)
  BY <1>1, TakenFacts DEF TrapTypes, QueueTypes
<1>3. PICK x : x = [i \in DOMAIN ancestor |-> [sig |-> ancestor[i], routed |-> TRUE]]
  OBVIOUS
<1>4. PICK y : y = [i \in DOMAIN q |-> [sig |-> q[i], routed |-> FALSE]]
  OBVIOUS
<1>5. x \in Seq(Delivery) /\ y \in Seq(Delivery)
  BY <1>2, <1>3, <1>4, TaggedTypes
<1>6. queue' = x \o y
  BY <1>1, <1>3, <1>4 DEF TakePending
<1>7. queue' \in Seq(Delivery)
  BY <1>5, <1>6, RangeOfTwo
<1>8. selfq' \in Seq(Signals) /\ slots' \subseteq Signals /\ anyPending' \in BOOLEAN
  <2>1. PICK e : e = << >>
    OBVIOUS
  <2>2. e \in Seq(Signals) /\ Drain(e)
    BY <2>1 DEF TakePending
  <2> QED
    BY <2>2, DrainTypes
<1>9. ancestor' \in Seq(Signals)
  BY DEF TakePending
<1>10. QueueTypes'
  BY <1>7, <1>8, <1>9 DEF QueueTypes
<1>11. TableTypes' /\ KernelTypes' /\ PlaceTypes'
  BY <1>8 DEF TakePending, TrapTypes, TableTypes, KernelTypes, PlaceTypes, traps, settings, history
<1> QED
  BY <1>10, <1>11 DEF TrapTypes

LEMMA DispatchTypes ==
    ASSUME TrapTypes, Skip \/ Condemn \/ BeginAction
    PROVE  TrapTypes'
<1>1. queue \in Seq(Delivery) /\ queue # << >>
  BY DEF TrapTypes, QueueTypes, Skip, Condemn, BeginAction
<1>2. Head(queue) \in Delivery /\ Tail(queue) \in Seq(Delivery)
  BY <1>1, RangeOfTail
<1>3. Head(queue).sig \in Signals
  BY <1>2 DEF Delivery
<1>4. CASE Skip
  <2>1. queue' \in Seq(Delivery)
    BY <1>2, <1>4 DEF Skip
  <2> QED
    BY <1>4, <2>1 DEF Skip, TrapTypes, TableTypes, KernelTypes, QueueTypes, PlaceTypes,
                      traps, kernel, mailbox, settings, history
<1>5. CASE Condemn
  <2>1. PICK s : s = Head(queue).sig
    OBVIOUS
  <2>2. Abort(s)
    BY <1>5, <2>1 DEF Condemn
  <2>3. /\ UNCHANGED <<disp, ancestor, exitTrap, interactive>>
        /\ selfq' \in Seq(Signals) /\ slots' \subseteq Signals /\ anyPending' \in BOOLEAN
    BY <1>5 DEF Condemn, kernel, mailbox, settings, TrapTypes, QueueTypes, KernelTypes
  <2> QED
    BY <2>2, <2>3, AbortTypes
<1>6. CASE BeginAction
  <2>1. queue' \in Seq(Delivery) /\ acting' \in Signals
    BY <1>2, <1>3, <1>6 DEF BeginAction
  <2>2. owed' \subseteq Signals
    BY <1>6 DEF BeginAction, TrapTypes, KernelTypes
  <2> QED
    BY <1>6, <2>1, <2>2 DEF BeginAction, TrapTypes, TableTypes, KernelTypes, QueueTypes, PlaceTypes,
                            traps, kernel, mailbox, settings
<1> QED
  BY <1>4, <1>5, <1>6

LEMMA SignalTypes ==
    ASSUME TrapTypes, NEW s \in Signals, Arrive(s) \/ Kill(s)
    PROVE  TrapTypes'
<1>1. CASE Arrive(s)
  <2>1. slots' \subseteq Signals /\ owed' \subseteq Signals
    BY <1>1, KernelKeepsTypes DEF Arrive
  <2>2. at' \in {at, "over"}
    BY <1>1 DEF Arrive
  <2> QED
    BY <1>1, <2>1, <2>2 DEF Arrive, TrapTypes, TableTypes, KernelTypes, QueueTypes, PlaceTypes,
                            traps, mailbox, settings
<1>2. CASE Kill(s)
  <2>1. at' \in {"over", "boundary"} /\ UNCHANGED <<traps, disp, selfq, queue, acting, settings>>
    BY <1>2 DEF Kill
  <2>2. CASE inside
    <3>1. ancestor' \in Seq(Signals)
      <4>1. ancestor' = Append(ancestor, s)
        BY <1>2, <2>2 DEF Kill
      <4>2. ancestor \in Seq(Signals)
        BY DEF TrapTypes, QueueTypes
      <4> QED
        BY <4>1, <4>2, RangeOfAppend
    <3>2. /\ anyPending' \in BOOLEAN /\ slots' = slots /\ owed' \subseteq Signals
      BY <1>2, <2>2 DEF Kill, TrapTypes, KernelTypes
    <3> QED
      BY <2>1, <3>1, <3>2 DEF TrapTypes, TableTypes, KernelTypes, QueueTypes, PlaceTypes, traps, settings
  <2>3. CASE ~inside
    <3>1. Kernel(s) /\ UNCHANGED <<ancestor, anyPending>>
      BY <1>2, <2>3 DEF Kill
    <3>2. slots' \subseteq Signals /\ owed' \subseteq Signals
      BY <3>1, KernelKeepsTypes
    <3> QED
      BY <2>1, <3>1, <3>2 DEF TrapTypes, TableTypes, KernelTypes, QueueTypes, PlaceTypes, traps, settings
  <2> QED
    BY <2>2, <2>3
<1> QED
  BY <1>1, <1>2

\* The steps of a command that blocks or waits.
LEMMA ListenTypes ==
    ASSUME TrapTypes, Interrupt \/ Observe \/ WaitPoll
    PROVE  TrapTypes'
<1>0. Taken \in Seq(Signals)
  BY TakenFacts
<1>1. UNCHANGED <<disp, ancestor, exitTrap, interactive>>
  BY DEF Interrupt, Observe, WaitPoll, settings
<1>2. selfq' \in Seq(Signals) /\ slots' \subseteq Signals /\ anyPending' \in BOOLEAN
  <2>1. PICK b \in Seq(Signals) : Drain(b)
    <3>1. << >> \in Seq(Signals)
      OBVIOUS
    <3>2. \A S : Retain(Taken, S) \in Seq(Signals)
      BY <1>0, RetainRange
    <3>3. \A S, U : Retain(Retain(Taken, S), U) \in Seq(Signals)
      BY <3>2, RetainRange
    <3> QED
      BY <1>0, <3>1, <3>2, <3>3 DEF Interrupt, Observe, WaitPoll
  <2> QED
    BY <2>1, DrainTypes
<1>3. CASE \E s : Abort(s)
  BY <1>1, <1>2, <1>3, AbortTypes
<1>4. CASE /\ UNCHANGED <<traps, queue, acting>> /\ owed' \subseteq owed
           /\ at' \in {at, "boundary"}
  BY <1>1, <1>2, <1>4 DEF TrapTypes, TableTypes, KernelTypes, QueueTypes, PlaceTypes, traps
<1> QED
  BY <1>3, <1>4 DEF Interrupt, Observe, WaitPoll, Dropped, history

LEMMA TypesStep ==
    ASSUME TrapTypes, [TrapsNext]_trapVars
    PROVE  TrapTypes'
<1>0. /\ disp \in [Signals -> {"default", "ignore", "handler"}] /\ acting \in Signals \cup {Nothing}
      /\ at \in {"polled", "dispatch"} => acting = Nothing /\ ~inside
  BY DEF TrapTypes, KernelTypes, PlaceTypes
<1>1. CASE UNCHANGED trapVars
  BY <1>0, <1>1, MovesTypes DEF trapVars, kernel, history
<1>2. CASE PassBy \/ Dispatched \/ Command \/ Block \/ Unblock \/ Wait
  BY <1>0, <1>2, MovesTypes DEF PassBy, Dispatched, Command, Completes, Block, Unblock, Wait, kernel, history
<1>3. CASE Poll
  <2>1. /\ UNCHANGED <<traps, mailbox, queue, slots, settings, owed, acting>>
        /\ disp' = Reconciled(table) /\ at' = "polled" /\ acting = Nothing /\ ~inside
    BY <1>3 DEF Poll, Suspended, history
  <2>2. disp' \in [Signals -> {"default", "ignore", "handler"}]
    <3>1. PICK t : t = table
      OBVIOUS
    <3>2. Reconciled(t) \in [Signals -> {"default", "ignore", "handler"}]
      BY ReconciledTypes
    <3> QED
      BY <2>1, <3>1, <3>2
  <2> QED
    BY <1>0, <2>1, <2>2, MovesTypes
<1>4. CASE EndAction
  <2>1. queue' \in Seq(Delivery) /\ acting' = Nothing /\ ~inside
    <3>1. << >> \in Seq(Delivery) /\ queue \in Seq(Delivery)
      BY DEF TrapTypes, QueueTypes
    <3>2. queue' = << >> \/ queue' = queue
      BY <1>4 DEF EndAction
    <3>3. acting' = Nothing /\ ~inside
      BY <1>4 DEF EndAction
    <3> QED
      BY <3>1, <3>2, <3>3
  <2> QED
    BY <1>4, <2>1 DEF EndAction, TrapTypes, TableTypes, KernelTypes, QueueTypes, PlaceTypes,
                      traps, kernel, mailbox, settings, history
<1>5. CASE TakePending
  BY <1>5, TakePendingTypes
<1>6. CASE Skip \/ Condemn \/ BeginAction
  BY <1>6, DispatchTypes
<1>7. CASE Interrupt \/ Observe \/ WaitPoll
  BY <1>7, ListenTypes
<1>8. ASSUME NEW s \in Signals, Arrive(s) \/ Kill(s) PROVE TrapTypes'
  BY <1>8, SignalTypes
<1>9. ASSUME NEW s \in Signals, NEW t \in {"none", "ignore", "action"}, Trap(s, t)
      PROVE  TrapTypes'
  <2>1. table' \in [Signals -> Traps] /\ \A x \in Signals : table'[x] = "reset" => inside
    BY <1>9 DEF Trap, TrapTypes, TableTypes, Traps
  <2>2. disp' \in [Signals -> {"default", "ignore", "handler"}]
    <3>1. disp' = [x \in Signals |-> Wish(table', x)]
      BY <1>9 DEF Trap, Reconciled
    <3>2. \A x \in Signals : Wish(table', x) \in {"default", "ignore", "handler"}
      BY DEF Wish
    <3> QED
      BY <3>1, <3>2
  <2>3. owed' \subseteq Signals
    BY <1>9 DEF Trap, TrapTypes, KernelTypes
  <2> QED
    BY <1>9, <2>1, <2>2, <2>3 DEF Trap, Completes, TrapTypes, TableTypes, KernelTypes, QueueTypes,
                                  PlaceTypes, mailbox, settings
<1>10. CASE EnterSubshell
  <2>1. /\ top' = table /\ table' = [s \in Signals |-> IF table[s] = "action" THEN "reset" ELSE table[s]]
        /\ inside' = TRUE /\ ~inside /\ at' = "boundary"
    BY <1>10 DEF EnterSubshell, Completes
  <2>2. TableTypes'
    BY <2>1 DEF TrapTypes, TableTypes, Traps
  <2> QED
    BY <1>10, <2>1, <2>2 DEF EnterSubshell, TrapTypes, KernelTypes, QueueTypes, PlaceTypes,
                             kernel, mailbox, settings, history
<1>11. CASE LeaveSubshell
  <2>1. top' = NoTraps /\ table' = top /\ inside' = FALSE /\ at' = "boundary"
    BY <1>11 DEF LeaveSubshell, Completes
  <2>2. TableTypes'
    BY <2>1 DEF TrapTypes, TableTypes, Traps, NoTraps
  <2> QED
    BY <1>11, <2>1, <2>2 DEF LeaveSubshell, TrapTypes, KernelTypes, QueueTypes, PlaceTypes,
                             kernel, mailbox, settings, history
<1> QED
  BY <1>1, <1>2, <1>3, <1>4, <1>5, <1>6, <1>7, <1>8, <1>9, <1>10, <1>11 DEF TrapsNext, Shell

LEMMA TypesBegin ==
    ASSUME TrapsInit
    PROVE  TrapTypes
<1>1. TableTypes
  BY DEF TrapsInit, TableTypes, NoTraps, Traps
<1>2. KernelTypes
  <2>1. PICK t : t = table
    OBVIOUS
  <2>2. Reconciled(t) \in [Signals -> {"default", "ignore", "handler"}]
    BY ReconciledTypes
  <2>3. disp \in [Signals -> {"default", "ignore", "handler"}]
    BY <2>1, <2>2 DEF TrapsInit
  <2>4. exitTrap \in BOOLEAN /\ interactive \in BOOLEAN
    BY TrapsAssumption DEF TrapsInit
  <2> QED
    BY <2>3, <2>4 DEF TrapsInit, KernelTypes
<1>3. QueueTypes
  <2>1. << >> \in Seq(Signals) /\ << >> \in Seq(Delivery)
    OBVIOUS
  <2>2. selfq = << >> /\ ancestor = << >> /\ queue = << >>
    BY DEF TrapsInit
  <2>3. anyPending \in BOOLEAN
    BY DEF TrapsInit
  <2> QED
    BY <2>1, <2>2, <2>3 DEF QueueTypes
<1>4. PlaceTypes
  BY DEF TrapsInit, PlaceTypes
<1> QED
  BY <1>1, <1>2, <1>3, <1>4 DEF TrapTypes

LEMMA TypesFollow == TrapTypes => TrapsTypeOK
BY DEF TrapTypes, TableTypes, KernelTypes, QueueTypes, PlaceTypes, TrapsTypeOK, Suspended

\* Types, with the rules of the code that go with them: a reset trap is one of
\* a subshell, and no dispatch is begun while an action or a subshell runs.
THEOREM TrapsTyped == TrapsSpec => []TrapsTypeOK
<1>1. TrapsInit => TrapTypes
  BY TypesBegin
<1>2. TrapTypes /\ [TrapsNext]_trapVars => TrapTypes'
  BY TypesStep
<1> QED
  BY <1>1, <1>2, TypesFollow, PTL DEF TrapsSpec

-----------------------------------------------------------------------------
(* No caught signal is lost. *)

\* Actions end by running out, and the wait of a subshell does not judge the
\* signals of the shell (the finding about stolen signals).
ActionsRunOut == "return" \notin Does
SubshellsDoNotWait == "waitInSubshell" \notin Does

OwedActions == \A s \in owed : Owned[s] = "action"

\* PENDING_ANY says when SELF_SIGNALS holds something.
Flagged == selfq # << >> => anyPending

\* What a drain took is dispatched before the next one, unless an action runs.
Dispatching == queue # << >> => at \in {"dispatch", "over"} \/ acting # Nothing

Listening == at = "waiting" => ~inside

Kept == OwedActions /\ Flagged /\ Dispatching /\ Listening /\ CaughtAreKept

\* A signal owed to an action is still handled when the shell gets to it.
LEMMA OwedAreHandled ==
    ASSUME TrapTypes, Agreed, Kept, ~inside, at # "over", at # "boundary"
    PROVE  \A s \in owed : s \in Signals /\ table[s] = "action" /\ disp[s] = "handler"
<1>1. ASSUME NEW s \in owed PROVE s \in Signals /\ table[s] = "action"
  BY DEF Kept, OwedActions, Owned, TrapTypes, KernelTypes
<1>2. disp = Reconciled(table)
  BY DEF Agreed, Settled
<1>3. ASSUME NEW s \in owed PROVE disp[s] = "handler"
  BY <1>1, <1>2 DEF Reconciled, Wish
<1> QED
  BY <1>1, <1>3

\* A drain leaves nothing behind: a signal is in what it took or still in its slot.
LEMMA DrainKeeps ==
    ASSUME TrapTypes, Kept, NEW back \in Seq(Signals), Range(back) \subseteq Range(Taken), Drain(back)
    PROVE  /\ Flagged'
           /\ slots \cup Range(selfq) \subseteq slots' \cup Range(Taken)
           /\ Range(back) \subseteq Range(selfq')
<1>1. Range(Taken) = (IF anyPending THEN Range(selfq) ELSE {}) \cup (IF HandlerAny THEN slots ELSE {})
  BY TakenFacts
<1>2. ~anyPending => selfq = << >> /\ Range(selfq) = {}
  BY RangeOfEmpty DEF Kept, Flagged
<1>3. CASE anyPending \/ HandlerAny
  <2>1. selfq' = back /\ slots' = IF HandlerAny THEN {} ELSE slots
    BY <1>3 DEF Drain
  <2>2. selfq' # << >> => anyPending'
    BY <1>3 DEF Drain
  <2> QED
    BY <1>1, <1>2, <2>1, <2>2 DEF Flagged
<1>4. CASE ~(anyPending \/ HandlerAny)
  <2>1. UNCHANGED <<selfq, anyPending, slots>>
    BY <1>4 DEF Drain
  <2> QED
    BY <1>1, <1>2, <1>4, <2>1 DEF Kept, Flagged
<1> QED
  BY <1>3, <1>4

\* The steps that leave the signals and the traps where they are.
LEMMA MovesKeep ==
    ASSUME TrapTypes, Kept, UNCHANGED <<traps, mailbox, queue, slots, owed>>, at # "over",
           queue # << >> => at' \in {"dispatch", "over"} \/ acting' # Nothing,
           at' = "waiting" => ~inside
    PROVE  Kept'
<1>1. Owned' = Owned
  BY DEF Owned, traps
<1>2. OwedActions' /\ Flagged'
  BY <1>1 DEF Kept, OwedActions, Flagged, mailbox
<1>3. Dispatching' /\ Listening'
  BY DEF Kept, Dispatching, Listening, traps
<1>4. Pending' = Pending
  BY DEF Pending, mailbox
<1>5. CaughtAreKept'
  BY <1>4 DEF Kept, CaughtAreKept
<1> QED
  BY <1>2, <1>3, <1>5 DEF Kept

\* A line that is given up: a session counts what was dropped with it, a script
\* is over.
LEMMA AbortKeeps ==
    ASSUME TrapTypes, Kept, ~inside, NEW s, Abort(s), Flagged', UNCHANGED interactive
    PROVE  Kept'
<1>1. Owned' = Owned
  BY DEF Owned, Abort
<1>2. owed' \subseteq owed
  BY DEF Abort, Dropped
<1>3. OwedActions'
  BY <1>1, <1>2 DEF Kept, OwedActions
<1>4. Dispatching' /\ Listening'
  BY DEF Abort, Dispatching, Listening
<1>5. CaughtAreKept'
  <2>1. CASE interactive
    <3>1. owed' \subseteq slots' \cup Range(selfq') \cup Range(ancestor')
      BY <2>1 DEF Abort, Dropped
    <3> QED
      BY <3>1 DEF CaughtAreKept, Pending
  <2>2. CASE ~interactive
    <3>1. at' = "over"
      BY <2>2 DEF Abort
    <3> QED
      BY <3>1 DEF CaughtAreKept
  <2> QED
    BY <2>1, <2>2
<1> QED
  BY <1>3, <1>4, <1>5 DEF Kept

LEMMA TakePendingKeeps ==
    ASSUME TrapTypes, Kept, TakePending
    PROVE  Kept'
<1>1. PICK q : q = Taken
  OBVIOUS
<1>2. q \in Seq(Signals) /\ ancestor \in Seq(Signals)
  BY <1>1, TakenFacts DEF TrapTypes, QueueTypes
<1>3. PICK x : x = [i \in DOMAIN ancestor |-> [sig |-> ancestor[i], routed |-> TRUE]]
  OBVIOUS
<1>4. PICK y : y = [i \in DOMAIN q |-> [sig |-> q[i], routed |-> FALSE]]
  OBVIOUS
<1>5. PICK n : n = ancestor
  OBVIOUS
<1>6. /\ x \in Seq(Delivery) /\ {m.sig : m \in Range(x)} = Range(n)
  BY <1>2, <1>3, <1>5, TaggedTypes
<1>7. /\ y \in Seq(Delivery) /\ {m.sig : m \in Range(y)} = Range(q)
  BY <1>2, <1>4, TaggedTypes
<1>8. queue' = x \o y
  BY <1>1, <1>3, <1>4 DEF TakePending
<1>9. Range(queue') = Range(x) \cup Range(y)
  BY <1>6, <1>7, <1>8, RangeOfTwo
<1>10. Range(ancestor) \cup Range(Taken) \subseteq Pending'
  BY <1>1, <1>5, <1>6, <1>7, <1>9 DEF Pending
<1>11. /\ Flagged' /\ slots \cup Range(selfq) \subseteq slots' \cup Range(Taken)
  <2>1. PICK e : e = << >>
    OBVIOUS
  <2>2. e \in Seq(Signals) /\ Drain(e) /\ Range(e) = {}
    BY <2>1, RangeOfEmpty DEF TakePending
  <2> QED
    BY <2>2, DrainKeeps
<1>12. queue = << >>
  BY DEF TakePending, Kept, Dispatching, TrapTypes, PlaceTypes
<1>13. owed \subseteq slots \cup Range(selfq) \cup Range(ancestor)
  <2>1. owed \subseteq slots \cup Range(selfq) \cup Range(ancestor) \cup {m.sig : m \in Range(queue)}
    BY DEF TakePending, Kept, CaughtAreKept, Pending
  <2>2. Range(queue) = {}
    BY <1>12, RangeOfEmpty
  <2> QED
    BY <2>1, <2>2
<1>14. slots' \subseteq Pending' /\ owed' = owed
  BY DEF Pending, TakePending, history
<1>15. CaughtAreKept'
  BY <1>10, <1>11, <1>13, <1>14 DEF CaughtAreKept
<1>16. Owned' = Owned
  BY DEF TakePending, Owned, traps
<1>17. OwedActions' /\ Dispatching' /\ Listening'
  BY <1>14, <1>16 DEF Kept, OwedActions, TakePending, Dispatching, Listening
<1> QED
  BY <1>11, <1>15, <1>17 DEF Kept

LEMMA DispatchKeeps ==
    ASSUME TrapTypes, Agreed, Kept, Skip \/ Condemn \/ BeginAction
    PROVE  Kept'
<1>1. /\ at = "dispatch" /\ queue # << >> /\ queue \in Seq(Delivery) /\ ~inside
  BY DEF TrapTypes, QueueTypes, PlaceTypes, Skip, Condemn, BeginAction
<1>2. PICK h : h = Head(queue)
  OBVIOUS
<1>3. PICK r : r = Tail(queue)
  OBVIOUS
<1>4. h \in Delivery /\ Range(queue) = {h} \cup Range(r)
  BY <1>1, <1>2, <1>3, RangeOfTail
<1>5. \A s \in owed : s \in Signals /\ table[s] = "action" /\ disp[s] = "handler"
  BY <1>1, OwedAreHandled
<1>6. owed \subseteq slots \cup Range(selfq) \cup Range(ancestor) \cup {h.sig} \cup {m.sig : m \in Range(r)}
  <2>1. owed \subseteq slots \cup Range(selfq) \cup Range(ancestor) \cup {m.sig : m \in Range(queue)}
    BY <1>1 DEF Kept, CaughtAreKept, Pending
  <2> QED
    BY <1>4, <2>1
<1>7. CASE Skip
  <2>1. h.sig \notin owed
    BY <1>2, <1>5, <1>7 DEF Skip, Stale, Untrapped
  <2>2. queue' = r /\ at' = "dispatch" /\ UNCHANGED <<traps, kernel, mailbox, history>>
    BY <1>1, <1>3, <1>7 DEF Skip
  <2>3. CaughtAreKept'
    BY <1>6, <2>1, <2>2 DEF CaughtAreKept, Pending, kernel, mailbox, history
  <2>4. Owned' = Owned
    BY <2>2 DEF Owned, traps
  <2>5. OwedActions' /\ Flagged' /\ Dispatching' /\ Listening'
    BY <2>2, <2>4 DEF Kept, OwedActions, Flagged, Dispatching, Listening, mailbox, history
  <2> QED
    BY <2>3, <2>5 DEF Kept
<1>8. CASE Condemn
  <2>1. PICK s : s = Head(queue).sig
    OBVIOUS
  <2>2. Abort(s) /\ UNCHANGED interactive
    BY <1>8, <2>1 DEF Condemn, settings
  <2>3. Flagged'
    BY <1>8 DEF Condemn, mailbox, Kept, Flagged
  <2> QED
    BY <1>1, <2>2, <2>3, AbortKeeps
<1>9. CASE BeginAction
  <2>1. /\ queue' = r /\ at' = "boundary" /\ UNCHANGED <<traps, kernel, mailbox>>
        /\ acting' = h.sig /\ owed' = (owed \ {h.sig}) \cup ({h.sig} \cap slots)
        /\ table[h.sig] = "action"
    BY <1>2, <1>3, <1>9 DEF BeginAction
  <2>2. CaughtAreKept'
    BY <1>6, <2>1 DEF CaughtAreKept, Pending, kernel, mailbox
  <2>3. Owned' = Owned /\ Owned = table
    BY <1>1, <2>1 DEF Owned, traps
  <2>4. OwedActions'
    BY <2>1, <2>3 DEF Kept, OwedActions
  <2>5. h.sig # Nothing
    BY <1>4, TrapsAssumption DEF Delivery
  <2>6. Flagged' /\ Dispatching' /\ Listening'
    BY <2>1, <2>5 DEF Kept, Flagged, Dispatching, Listening, mailbox
  <2> QED
    BY <2>2, <2>4, <2>6 DEF Kept
<1> QED
  BY <1>7, <1>8, <1>9

\* A signal that comes in waits in its slot, or as one a subshell sent.
LEMMA SignalKeeps ==
    ASSUME TrapTypes, Kept, NEW s \in Signals, Arrive(s) \/ Kill(s)
    PROVE  Kept'
<1>1. at # "over" /\ UNCHANGED <<traps, selfq, queue, acting>>
  BY DEF Arrive, Kill, mailbox
<1>2. Owned' = Owned
  BY <1>1 DEF Owned, traps
<1>3. owed \subseteq Pending
  BY <1>1 DEF Kept, CaughtAreKept
<1>4. CASE Kernel(s) /\ UNCHANGED <<anyPending, ancestor>>
  <2>1. /\ \/ slots' = slots /\ owed' = owed
           \/ slots' = slots \cup {s} /\ owed' = owed
           \/ slots' = slots \cup {s} /\ owed' = owed \cup {s} /\ Owner(s) = "action"
    <3>1. disp[s] \in {"default", "ignore", "handler"}
      BY DEF TrapTypes, KernelTypes
    <3>2. CASE disp[s] = "handler"
      BY <1>4, <3>2 DEF Kernel
    <3>3. CASE disp[s] = "ignore"
      BY <1>4, <3>3 DEF Kernel
    <3>4. CASE disp[s] = "default"
      BY <1>4, <3>4 DEF Kernel
    <3> QED
      BY <3>1, <3>2, <3>3, <3>4
  <2>2. owed' \subseteq Pending'
    BY <1>1, <1>3, <1>4, <2>1 DEF Pending
  <2>3. OwedActions'
    BY <1>2, <2>1 DEF Kept, OwedActions, Owner
  <2>4. Flagged'
    BY <1>1, <1>4 DEF Kept, Flagged
  <2> QED
    BY <1>1, <2>2, <2>3, <2>4 DEF Kept, CaughtAreKept, Dispatching, Listening, Arrive, Kill, traps
<1>5. CASE Kill(s) /\ inside
  <2>1. /\ ancestor' = Append(ancestor, s) /\ anyPending' = TRUE /\ slots' = slots
        /\ owed' = IF Owner(s) = "action" THEN owed \cup {s} ELSE owed
        /\ at = "command" /\ at' \in {"over", "boundary"}
    BY <1>5 DEF Kill
  <2>2. Range(ancestor') = Range(ancestor) \cup {s}
    <3>1. ancestor \in Seq(Signals)
      BY DEF TrapTypes, QueueTypes
    <3> QED
      BY <2>1, <3>1, RangeOfAppend
  <2>3. owed' \subseteq Pending'
    BY <1>1, <1>3, <2>1, <2>2 DEF Pending
  <2>4. OwedActions'
    BY <1>2, <2>1 DEF Kept, OwedActions, Owner
  <2> QED
    BY <1>1, <2>1, <2>3, <2>4 DEF Kept, CaughtAreKept, Flagged, Dispatching, Listening
<1> QED
  BY <1>4, <1>5 DEF Arrive, Kill, mailbox

\* A poll that puts back the signals of actions gives none of them away.
LEMMA PutBackKeeps ==
    ASSUME TrapTypes, Kept, at # "over", NEW back \in Seq(Signals), Range(back) \subseteq Range(Taken),
           Drain(back), owed \cap Range(Taken) \subseteq Range(back),
           UNCHANGED <<traps, ancestor, queue, acting, owed>>,
           at \in {"blocked", "waiting"}, at' \in {at, "boundary"}
    PROVE  Kept'
<1>1. /\ Flagged'
      /\ slots \cup Range(selfq) \subseteq slots' \cup Range(Taken)
      /\ Range(back) \subseteq Range(selfq')
  BY DrainKeeps
<1>2. owed \subseteq slots \cup Range(selfq) \cup Range(ancestor) \cup {m.sig : m \in Range(queue)}
  BY DEF Kept, CaughtAreKept, Pending
<1>3. owed' \subseteq Pending'
  BY <1>1, <1>2 DEF Pending
<1>4. Owned' = Owned
  BY DEF Owned, traps
<1>5. OwedActions' /\ Dispatching' /\ Listening'
  BY <1>4 DEF Kept, OwedActions, Dispatching, Listening, traps
<1> QED
  BY <1>1, <1>3, <1>5 DEF Kept, CaughtAreKept

LEMMA InterruptKeeps ==
    ASSUME SubshellsDoNotWait, TrapTypes, Agreed, Kept, Interrupt
    PROVE  Kept'
<1>1. /\ at = "blocked" /\ ~inside /\ table["INT"] \in {"none", "reset"} /\ at' = "boundary"
      /\ UNCHANGED <<traps, ancestor, queue, acting, owed>>
  BY DEF Interrupt, SubshellsDoNotWait, Untrapped, history
<1>2. Taken \in Seq(Signals)
  BY TakenFacts
<1>3. PICK b : b = Retain(Taken, Signals \ {"INT"})
  OBVIOUS
<1>4. b \in Seq(Signals) /\ Range(b) = Range(Taken) \cap (Signals \ {"INT"})
  BY <1>2, <1>3, RetainRange
<1>5. Drain(b)
  BY <1>3 DEF Interrupt
<1>6. \A s \in owed : s \in Signals /\ table[s] = "action"
  BY <1>1, OwedAreHandled
<1>7. owed \cap Range(Taken) \subseteq Range(b) /\ Range(b) \subseteq Range(Taken)
  BY <1>1, <1>4, <1>6
<1> QED
  BY <1>1, <1>4, <1>5, <1>7, PutBackKeeps

LEMMA ObserveKeeps ==
    ASSUME TrapTypes, Agreed, Kept, Observe
    PROVE  Kept'
<1>1. /\ at = "blocked" /\ ~inside /\ UNCHANGED <<ancestor, interactive>>
  BY DEF Observe, Suspended, settings
<1>2. Taken \in Seq(Signals)
  BY TakenFacts
<1>3. PICK live : live = Retain(Taken, {s \in Signals : disp[s] = "handler"})
  OBVIOUS
<1>4. live \in Seq(Signals) /\ Range(live) = Range(Taken) \cap {s \in Signals : disp[s] = "handler"}
  BY <1>2, <1>3, RetainRange
<1>5. \A s \in owed : s \in Signals /\ table[s] = "action" /\ disp[s] = "handler"
  BY <1>1, OwedAreHandled
<1>6. CASE /\ Drain(Retain(live, {s \in Signals : table[s] = "action"}))
           /\ UNCHANGED <<traps, queue, at, acting, history>>
  <2>1. PICK b : b = Retain(live, {s \in Signals : table[s] = "action"})
    OBVIOUS
  <2>2. b \in Seq(Signals) /\ Range(b) = Range(live) \cap {s \in Signals : table[s] = "action"}
    BY <1>4, <2>1, RetainRange
  <2>3. Drain(b)
    BY <1>6, <2>1
  <2>4. owed \cap Range(Taken) \subseteq Range(b) /\ Range(b) \subseteq Range(Taken)
    BY <1>4, <1>5, <2>2
  <2>5. UNCHANGED <<traps, ancestor, queue, acting, owed>> /\ at' = at
    BY <1>1, <1>6 DEF history
  <2> QED
    BY <1>1, <2>2, <2>3, <2>4, <2>5, PutBackKeeps
<1>7. ASSUME Drain(<< >>) PROVE Flagged'
  <2>1. PICK e : e = << >>
    OBVIOUS
  <2>2. e \in Seq(Signals) /\ Drain(e) /\ Range(e) = {}
    BY <1>7, <2>1, RangeOfEmpty
  <2> QED
    BY <2>2, DrainKeeps
<1>8. CASE /\ Drain(<< >>) /\ at' \in {at, "boundary"} /\ Dropped
           /\ UNCHANGED <<traps, queue, acting, death>>
  <2>1. owed' \subseteq owed /\ owed' \subseteq Pending'
    BY <1>8 DEF Dropped, Pending
  <2>2. Owned' = Owned
    BY <1>8 DEF Owned, traps
  <2>3. OwedActions' /\ Dispatching' /\ Listening'
    BY <1>1, <1>8, <2>1, <2>2 DEF Kept, OwedActions, Dispatching, Listening
  <2> QED
    BY <1>7, <1>8, <2>1, <2>3 DEF Kept, CaughtAreKept
<1>9. CASE Drain(<< >>) /\ Abort(FirstUntrapped(live))
  <2>1. PICK s : s = FirstUntrapped(live)
    OBVIOUS
  <2>2. Abort(s)
    BY <1>9, <2>1
  <2> QED
    BY <1>1, <1>7, <1>9, <2>2, AbortKeeps
<1> QED
  BY <1>3, <1>6, <1>8, <1>9 DEF Observe

LEMMA WaitPollKeeps ==
    ASSUME TrapTypes, Agreed, Kept, WaitPoll
    PROVE  Kept'
<1>1. /\ at = "waiting" /\ ~inside /\ UNCHANGED <<ancestor, interactive>>
  BY DEF WaitPoll, settings, Kept, Listening
<1>2. PICK q : q = Taken
  OBVIOUS
<1>3. q \in Seq(Signals)
  BY <1>2, TakenFacts
<1>4. PICK heard : heard = Retain(Taken, {s \in Signals : table[s] # "ignore"})
  OBVIOUS
<1>5. CASE heard # << >> /\ Untrapped(Head(heard))
  <2>1. PICK s : s = Head(heard)
    OBVIOUS
  <2>2. Abort(s) /\ Drain(<< >>)
    BY <1>4, <1>5, <2>1 DEF WaitPoll
  <2>3. Flagged'
    <3>1. PICK e : e = << >>
      OBVIOUS
    <3>2. e \in Seq(Signals) /\ Drain(e) /\ Range(e) = {}
      BY <2>2, <3>1, RangeOfEmpty
    <3> QED
      BY <3>2, DrainKeeps
  <2> QED
    BY <1>1, <2>2, <2>3, AbortKeeps
<1>6. CASE ~(heard # << >> /\ Untrapped(Head(heard)))
  <2>1. /\ Drain(q) /\ at' \in {at, "boundary"} /\ UNCHANGED <<traps, queue, acting, owed>>
    BY <1>2, <1>4, <1>6 DEF WaitPoll, history
  <2> QED
    BY <1>1, <1>2, <1>3, <2>1, PutBackKeeps
<1> QED
  BY <1>5, <1>6

\* A trap that is taken away owes nothing; those of a subshell are its own.
LEMMA TrapKeeps ==
    ASSUME TrapTypes, Kept, NEW s \in Signals, NEW t \in {"none", "ignore", "action"}, Trap(s, t)
    PROVE  Kept'
<1>1. /\ table' = [table EXCEPT ![s] = t] /\ at = "command" /\ at' = "boundary"
      /\ owed' = IF inside \/ t = "action" THEN owed ELSE owed \ {s}
      /\ UNCHANGED <<top, inside, slots, mailbox, queue, acting>>
  BY DEF Trap, Completes
<1>2. Pending' = Pending
  BY <1>1 DEF Pending, mailbox
<1>3. OwedActions'
  <2>1. CASE inside
    BY <1>1, <2>1 DEF Kept, OwedActions, Owned
  <2>2. CASE ~inside
    <3>1. \A x \in owed' : x \in owed /\ x \in Signals /\ (x = s => t = "action")
      BY <1>1, <2>2 DEF TrapTypes, KernelTypes
    <3>2. \A x \in owed : table[x] = "action"
      BY <2>2 DEF Kept, OwedActions, Owned
    <3>3. \A x \in Signals : table'[x] = IF x = s THEN t ELSE table[x]
      BY <1>1 DEF TrapTypes, TableTypes
    <3> QED
      BY <1>1, <2>2, <3>1, <3>2, <3>3 DEF OwedActions, Owned
  <2> QED
    BY <2>1, <2>2
<1>4. Flagged' /\ Dispatching' /\ Listening'
  BY <1>1 DEF Kept, Flagged, Dispatching, Listening, mailbox
<1>5. CaughtAreKept'
  BY <1>1, <1>2 DEF Kept, CaughtAreKept
<1> QED
  BY <1>3, <1>4, <1>5 DEF Kept

LEMMA SubshellKeeps ==
    ASSUME TrapTypes, Kept, EnterSubshell \/ LeaveSubshell
    PROVE  Kept'
<1>1. at = "command" /\ at' = "boundary" /\ UNCHANGED <<slots, mailbox, queue, acting, owed>>
  BY DEF EnterSubshell, LeaveSubshell, Completes, kernel, history
<1>2. Owned' = Owned
  BY DEF EnterSubshell, LeaveSubshell, Owned
<1>3. Pending' = Pending
  BY <1>1 DEF Pending, mailbox
<1> QED
  BY <1>1, <1>2, <1>3 DEF Kept, OwedActions, Flagged, Dispatching, Listening, CaughtAreKept, mailbox

LEMMA KeptStep ==
    ASSUME ActionsRunOut, SubshellsDoNotWait, TrapTypes, Agreed, Kept, [TrapsNext]_trapVars
    PROVE  Kept'
<1>1. CASE UNCHANGED trapVars
  BY <1>1 DEF trapVars, traps, kernel, mailbox, history, Kept, OwedActions, Owned, Flagged,
              Dispatching, Listening, CaughtAreKept, Pending
<1>2. CASE PassBy \/ Dispatched \/ Command \/ Block \/ Unblock \/ Wait \/ Poll
  <2>1. UNCHANGED <<traps, mailbox, queue, slots, owed, acting>> /\ at # "over"
    BY <1>2 DEF PassBy, Dispatched, Command, Completes, Block, Unblock, Wait, Poll, kernel, history
  <2>2. queue # << >> => at' \in {"dispatch", "over"} \/ acting' # Nothing
    BY <1>2, <2>1 DEF PassBy, Dispatched, Command, Completes, Block, Unblock, Wait, Poll, Kept, Dispatching
  <2>3. at' = "waiting" => ~inside
    BY <1>2 DEF PassBy, Dispatched, Command, Completes, Block, Unblock, Wait, Poll, SubshellsDoNotWait
  <2> QED
    BY <2>1, <2>2, <2>3, MovesKeep
<1>3. CASE EndAction
  <2>1. at = "command" /\ at' = "dispatch" /\ UNCHANGED <<traps, mailbox, queue, slots, owed>>
    BY <1>3 DEF EndAction, ActionsRunOut, kernel, history
  <2> QED
    BY <2>1, MovesKeep
<1>4. CASE TakePending
  BY <1>4, TakePendingKeeps
<1>5. CASE Skip \/ Condemn \/ BeginAction
  BY <1>5, DispatchKeeps
<1>6. CASE Interrupt
  BY <1>6, InterruptKeeps
<1>7. CASE Observe
  BY <1>7, ObserveKeeps
<1>8. CASE WaitPoll
  BY <1>8, WaitPollKeeps
<1>9. ASSUME NEW s \in Signals, Arrive(s) \/ Kill(s) PROVE Kept'
  BY <1>9, SignalKeeps
<1>10. ASSUME NEW s \in Signals, NEW t \in {"none", "ignore", "action"}, Trap(s, t)
       PROVE  Kept'
  BY <1>10, TrapKeeps
<1>11. CASE EnterSubshell \/ LeaveSubshell
  BY <1>11, SubshellKeeps
<1> QED
  BY <1>1, <1>2, <1>3, <1>4, <1>5, <1>6, <1>7, <1>8, <1>9, <1>10, <1>11 DEF TrapsNext, Shell

LEMMA TrapsBegin ==
    ASSUME TrapsInit
    PROVE  Agreed /\ Kept /\ OnlyUntrappedKill
BY DEF TrapsInit, Agreed, Settled, Alone, Kept, OwedActions, Flagged, Dispatching, Listening,
       CaughtAreKept, OnlyUntrappedKill

\* A signal caught for an action stays in a slot or a queue until its action
\* begins, whoever drains the mailbox meanwhile: the poll of a boundary, sleep,
\* wait, or the dispatch itself.
THEOREM CaughtSignalsAreKept ==
    ASSUME ActionsStayInside, ActionsRunOut, SubshellsDoNotWait
    PROVE  TrapsSpec => []CaughtAreKept
<1> DEFINE Inv == TrapTypes /\ Agreed /\ Kept
<1>1. TrapsInit => Inv
  BY TypesBegin, TrapsBegin
<1>2. Inv /\ [TrapsNext]_trapVars => Inv'
  BY TypesStep, AgreedStep, KeptStep
<1>3. Inv => CaughtAreKept
  BY DEF Kept
<1> QED
  BY <1>1, <1>2, <1>3, PTL DEF TrapsSpec

-----------------------------------------------------------------------------
(* Deaths. *)

\* No signal comes in while a subshell's own dispositions are in the process.
SubshellsAreCalm == "signalsInSubshell" \notin Does

LEMMA ListeningStep ==
    ASSUME SubshellsDoNotWait, Listening, [TrapsNext]_trapVars PROVE Listening'
<1>1. CASE at' # "waiting"
  BY <1>1 DEF Listening
<1>2. CASE at' = "waiting" /\ UNCHANGED <<at, inside>>
  BY <1>2 DEF Listening
<1>3. CASE Wait
  BY <1>3 DEF Wait, SubshellsDoNotWait, Listening, traps
<1>4. CASE WaitPoll
  BY <1>1, <1>2, <1>4 DEF WaitPoll, Abort, traps
<1>5. CASE Observe
  BY <1>1, <1>5 DEF Observe, Abort
<1>6. ASSUME NEW s \in Signals, Arrive(s) PROVE Listening'
  BY <1>1, <1>2, <1>6 DEF Arrive, traps
<1>7. CASE \/ PassBy \/ Poll \/ TakePending \/ Skip \/ BeginAction \/ EndAction \/ Dispatched
           \/ Command \/ EnterSubshell \/ LeaveSubshell \/ Block \/ Interrupt \/ Unblock
  BY <1>1, <1>2, <1>7
     DEF PassBy, Poll, TakePending, Skip, BeginAction, EndAction, Dispatched, Command,
         EnterSubshell, LeaveSubshell, Block, Interrupt, Unblock, Completes, traps
<1>8. CASE Condemn
  BY <1>1, <1>8 DEF Condemn, Abort
<1>9. ASSUME NEW s \in Signals, Kill(s) PROVE Listening'
  BY <1>1, <1>9 DEF Kill
<1>10. ASSUME NEW s \in Signals, NEW t, Trap(s, t) PROVE Listening'
  BY <1>1, <1>10 DEF Trap, Completes
<1>11. CASE UNCHANGED trapVars
  BY <1>2, <1>11 DEF trapVars, traps, Listening
<1> QED
  BY <1>3, <1>4, <1>5, <1>6, <1>7, <1>8, <1>9, <1>10, <1>11 DEF TrapsNext, Shell

LEMMA DeathStep ==
    ASSUME SubshellsDoNotWait, SubshellsAreCalm, TrapTypes, Agreed, Listening, OnlyUntrappedKill,
           [TrapsNext]_trapVars
    PROVE  OnlyUntrappedKill'
<1>1. ASSUME UNCHANGED death PROVE OnlyUntrappedKill'
  BY <1>1 DEF OnlyUntrappedKill
<1>2. ASSUME NEW s \in Signals, death' = Over(s), Owner(s) = "none" PROVE OnlyUntrappedKill'
  BY <1>2 DEF OnlyUntrappedKill, Over
<1>3. ASSUME NEW s \in Signals, Kernel(s), disp = Reconciled(Owned) PROVE OnlyUntrappedKill'
  <2>1. disp[s] \in {"default", "ignore", "handler"}
    BY DEF TrapTypes, KernelTypes
  <2>2. CASE disp[s] \in {"ignore", "handler"}
    BY <1>1, <1>3, <2>2 DEF Kernel
  <2>3. CASE disp[s] = "default"
    <3>1. death' = Over(s)
      BY <1>3, <2>3 DEF Kernel
    <3>2. Owned[s] \in Traps \ {"reset"}
      BY DEF TrapTypes, TableTypes, Owned
    <3>3. Wish(Owned, s) = "default"
      BY <1>3, <2>3 DEF Reconciled
    <3>4. Owner(s) = "none"
      BY <3>2, <3>3 DEF Owner, Wish, Traps
    <3> QED
      BY <1>2, <3>1, <3>4
  <2> QED
    BY <2>1, <2>2, <2>3
<1>4. ASSUME NEW s \in Signals, Abort(s), ~inside, Untrapped(s) PROVE OnlyUntrappedKill'
  <2>1. Owner(s) = "none"
    BY <1>4 DEF Owner, Owned, Untrapped, TrapTypes, TableTypes
  <2>2. death' \in {death, Over(s)}
    BY <1>4 DEF Abort
  <2> QED
    BY <1>1, <1>2, <2>1, <2>2
<1>5. ASSUME NEW s \in Signals, Arrive(s) PROVE OnlyUntrappedKill'
  BY <1>3, <1>5 DEF Arrive, SubshellsAreCalm
<1>6. ASSUME NEW s \in Signals, Kill(s) PROVE OnlyUntrappedKill'
  <2>1. CASE inside
    BY <1>1, <1>6, <2>1 DEF Kill
  <2>2. CASE ~inside
    <3>1. Kernel(s) /\ at = "command"
      BY <1>6, <2>2 DEF Kill
    <3>2. disp = Reconciled(table)
      BY <2>2, <3>1 DEF Agreed, Settled
    <3>3. Owned = table
      BY <2>2 DEF Owned
    <3> QED
      BY <1>3, <3>1, <3>2, <3>3
  <2> QED
    BY <2>1, <2>2
<1>7. CASE Condemn
  <2>1. queue \in Seq(Delivery) /\ queue # << >> /\ ~inside
    BY <1>7 DEF Condemn, TrapTypes, QueueTypes, PlaceTypes
  <2>2. PICK h : h = Head(queue)
    OBVIOUS
  <2>3. h \in Delivery
    BY <2>1, <2>2, RangeOfTail
  <2>4. h.sig \in Signals /\ Abort(h.sig) /\ Untrapped(h.sig)
    BY <1>7, <2>2, <2>3 DEF Condemn, Delivery
  <2> QED
    BY <1>4, <2>1, <2>4
<1>8. CASE Observe
  <2>1. ~inside /\ Taken \in Seq(Signals)
    BY <1>8, TakenFacts DEF Observe, Suspended
  <2>2. PICK live : live = Retain(Taken, {s \in Signals : disp[s] = "handler"})
    OBVIOUS
  <2>3. live \in Seq(Signals)
    BY <2>1, <2>2, RetainRange
  <2>4. CASE UNCHANGED death
    BY <1>1, <2>4
  <2>5. CASE (\E s \in Range(live) : Untrapped(s)) /\ Abort(FirstUntrapped(live))
    <3>1. PICK r : r = Retain(live, {s \in Signals : Untrapped(s)})
      OBVIOUS
    <3>2. r \in Seq(Signals) /\ Range(r) = Range(live) \cap {s \in Signals : Untrapped(s)}
      BY <2>3, <3>1, RetainRange
    <3>3. Range(r) # {}
      <4>1. Range(live) \subseteq Signals
        BY <2>3 DEF Range
      <4> QED
        BY <2>5, <3>2, <4>1
    <3>4. r # << >>
      BY <3>3, RangeOfEmpty
    <3>5. PICK s : s = Head(r)
      OBVIOUS
    <3>6. s \in Range(r)
      BY <3>2, <3>4, <3>5, RangeOfTail
    <3>7. s \in Signals /\ Untrapped(s) /\ Abort(s)
      BY <2>5, <3>1, <3>2, <3>5, <3>6 DEF FirstUntrapped
    <3> QED
      BY <1>4, <2>1, <3>7
  <2> QED
    BY <1>8, <2>2, <2>4, <2>5 DEF Observe, history
<1>9. CASE WaitPoll
  <2>1. ~inside /\ Taken \in Seq(Signals)
    BY <1>9, TakenFacts DEF WaitPoll, Listening
  <2>2. PICK heard : heard = Retain(Taken, {s \in Signals : table[s] # "ignore"})
    OBVIOUS
  <2>3. heard \in Seq(Signals)
    BY <2>1, <2>2, RetainRange
  <2>4. CASE heard # << >> /\ Untrapped(Head(heard))
    <3>1. PICK s : s = Head(heard)
      OBVIOUS
    <3>2. s \in Signals
      BY <2>3, <2>4, <3>1, RangeOfTail
    <3>3. Abort(s) /\ Untrapped(s)
      BY <1>9, <2>2, <2>4, <3>1 DEF WaitPoll
    <3> QED
      BY <1>4, <2>1, <3>2, <3>3
  <2>5. CASE ~(heard # << >> /\ Untrapped(Head(heard)))
    BY <1>1, <1>9, <2>2, <2>5 DEF WaitPoll, history
  <2> QED
    BY <2>4, <2>5
<1>10. CASE \/ UNCHANGED trapVars
            \/ PassBy \/ Poll \/ TakePending \/ Skip \/ BeginAction \/ EndAction \/ Dispatched
            \/ Command \/ EnterSubshell \/ LeaveSubshell \/ Block \/ Interrupt \/ Unblock \/ Wait
            \/ \E s \in Signals : \E t \in {"none", "ignore", "action"} : Trap(s, t)
  <2>1. UNCHANGED death
    BY <1>10 DEF trapVars, PassBy, Poll, TakePending, Skip, BeginAction, EndAction, Dispatched, Command,
                 EnterSubshell, LeaveSubshell, Block, Interrupt, Unblock, Wait, Trap, history
  <2> QED
    BY <1>1, <2>1
<1> QED
  BY <1>5, <1>6, <1>7, <1>8, <1>9, <1>10 DEF TrapsNext, Shell

\* The shell dies only of signals it has no trap for: neither the traps its
\* subshells set and reset in the same process, nor the end of a line that is
\* given up, make it die of a trapped one.
THEOREM TrappedSignalsNeverKill ==
    ASSUME ActionsStayInside, SubshellsDoNotWait, SubshellsAreCalm
    PROVE  TrapsSpec => []OnlyUntrappedKill
<1> DEFINE Inv == TrapTypes /\ Agreed /\ Listening /\ OnlyUntrappedKill
<1>1. TrapsInit => Inv
  BY TypesBegin, TrapsBegin DEF Kept
<1>2. Inv /\ [TrapsNext]_trapVars => Inv'
  BY TypesStep, AgreedStep, ListeningStep, DeathStep
<1> QED
  BY <1>1, <1>2, PTL DEF TrapsSpec
=============================================================================
