----------------------------- MODULE ShellProofs -----------------------------
(***************************************************************************)
(* Proofs about the whole shell of JobBuiltins, for any set of processes   *)
(* and statuses, any commands and every kind of shell (script or           *)
(* interactive, with or without job control): no death is lost, no job     *)
(* leaves the table unannounced, and wait answers the truth.               *)
(*                                                                         *)
(* A handler is a chain of operators on one value, the world W (Now and    *)
(* Becomes of JobControl).  Sound(W, ...) is the inductive invariant as a  *)
(* predicate of that value, so each link of a chain is one lemma; its last *)
(* argument is the set of deaths in hand: collected from the system in     *)
(* this handler, neither stashed nor published yet.                        *)
(***************************************************************************)
EXTENDS JobBuiltins, JobEffectsProofs, VectorsProofs, FiniteSetTheorems

OsStates == {"unborn", "run", "stop", "dying", "zombie", "reaped"}

\* Nothing records a stop or a continue of a process that may be dead: there
\* is no job control, or neither kill nor bg is used.
NoStaleMarks == Monitor => {"kill", "bg"} \cap Commands = {}

WorldOK(W, re) ==
    /\ W = [tab |-> W.tab, sig |-> W.sig, os |-> W.os, kids |-> W.kids, pend |-> W.pend,
            notices |-> W.notices]
    /\ Single(W.tab)
    /\ W.sig = [marks |-> W.sig.marks, fatal |-> W.sig.fatal] /\ W.sig.marks \in Seq(Mark)
    /\ W.os \in [Pids -> OsStates]
    /\ W.kids \subseteq Pids /\ W.pend \subseteq Pids
    /\ DOMAIN re = Pids
    /\ \A p \in Pids : W.os[p] \in {"zombie", "reaped"} => re[p] \in Statuses

\* A child whose handle is held still exists, and is in the table.
KidsLive(W) == \A p \in W.kids : Exists(W.os[p]) /\ p \in DOMAIN W.tab.p2j

\* Only collected deaths are stashed; only processes that exist are listed.
PendReaped(W) == \A p \in W.pend : W.os[p] = "reaped"
EntriesBorn(W) == \A p \in DOMAIN W.tab.p2j : W.os[p] # "unborn"

\* A saved status is the real one of a published death, or disown's 0.
StatusTrue(W, re, asm) ==
    \A p \in DOMAIN W.tab.done :
        \/ W.os[p] = "reaped" /\ p \notin W.pend /\ W.tab.done[p] = re[p]
        \/ p \in asm /\ W.tab.done[p] = 0

\* An entry says Completed only of a published death.
DeadEntries(W) ==
    \A p \in DOMAIN W.tab.p2j :
        St(W.tab, p) = "Completed" => W.os[p] = "reaped" /\ p \notin W.pend

\* Every process that was started is held, stashed, saved or let go.
Accounted(W, rel) ==
    \A p \in Pids : W.os[p] # "unborn" => p \in W.kids \cup W.pend \cup DOMAIN W.tab.done \cup rel

\* disown makes up the status of processes that leave the table.
AssumedGone(W, asm) ==
    \A p \in asm : p \in Pids /\ W.os[p] # "unborn" /\ p \notin DOMAIN W.tab.p2j

\* The user was told of every death that is not in the table any more, and
\* of every published one whose entry is notified.
DeadListed(W, tol) == \A p \in Pids : W.os[p] = "reaped" => p \in DOMAIN W.tab.p2j \cup tol
NotedTold(W, tol) ==
    \A p \in DOMAIN W.tab.p2j :
        Noted(W.tab, p) /\ W.os[p] = "reaped" /\ p \notin W.pend => p \in tol

\* Without stale marks, a process shown alive is held or stashed.
Watched(W, X) ==
    NoStaleMarks => /\ W.sig.marks = << >>
                    /\ \A p \in DOMAIN W.tab.p2j :
                          St(W.tab, p) # "Completed" => p \in W.kids \cup W.pend \cup X

Sound(W, re, rel, asm, tol, X) ==
    /\ WorldOK(W, re)
    /\ KidsLive(W)
    /\ PendReaped(W)
    /\ EntriesBorn(W)
    /\ StatusTrue(W, re, asm)
    /\ DeadEntries(W)
    /\ Accounted(W, rel \cup X)
    /\ AssumedGone(W, asm)
    /\ DeadListed(W, tol)
    /\ NotedTold(W, tol \cup X)
    /\ Watched(W, X)

\* No process is born, dies or is collected between two states of the system.
SameLife(O, P) ==
    \A p \in Pids : \A st \in {"unborn", "zombie", "reaped"} : O[p] = st <=> P[p] = st

\* Processes are not unborn, and the collected stay collected.
Onward(O, P) ==
    \A p \in Pids : (O[p] # "unborn" => P[p] # "unborn") /\ (O[p] = "reaped" => P[p] = "reaped")

\* Entries may be shown alive again, and lose the notified flag.
Relaxed(T, U) ==
    /\ Single(U) /\ U.done = T.done /\ U.p2j = T.p2j
    /\ \A q \in DOMAIN T.p2j : /\ St(U, q) = St(T, q) \/ St(U, q) \in {"Running", "Stopped"}
                               /\ Noted(U, q) => Noted(T, q)

-----------------------------------------------------------------------------
(* Changes of a world. *)

\* A step that starts, ends and collects no process, publishes nothing and
\* keeps the handles.
LEMMA RelaxSound ==
    ASSUME NEW W, NEW V, NEW re, NEW rel, NEW asm, NEW tol, NEW X,
           Sound(W, re, rel, asm, tol, X), WorldOK(V, re),
           Relaxed(W.tab, V.tab), SameLife(W.os, V.os), V.kids = W.kids, V.pend = W.pend,
           Watched(V, X)
    PROVE  Sound(V, re, rel, asm, tol, X)
<1>1. DOMAIN W.tab.p2j \subseteq Pids /\ DOMAIN W.tab.done \subseteq Pids
  BY DEF Sound, WorldOK, Single, TableInv, Core, TypeCorrect, IsMap
<1>2. W.os \in [Pids -> OsStates] /\ V.os \in [Pids -> OsStates] /\ W.kids \subseteq Pids
      /\ W.pend \subseteq Pids
  BY DEF Sound, WorldOK
<1>3. V.tab.p2j = W.tab.p2j /\ V.tab.done = W.tab.done
  BY DEF Relaxed
<1>4. \A p \in Pids : /\ W.os[p] = "unborn" <=> V.os[p] = "unborn"
                      /\ W.os[p] = "zombie" <=> V.os[p] = "zombie"
                      /\ W.os[p] = "reaped" <=> V.os[p] = "reaped"
  BY DEF SameLife
<1>5. KidsLive(V)
  <2>1. ASSUME NEW p \in V.kids PROVE Exists(V.os[p])
    <3>1. p \in Pids /\ Exists(W.os[p])
      BY <1>2 DEF Sound, KidsLive
    <3>2. V.os[p] \in OsStates
      BY <1>2, <3>1
    <3> QED
      BY <1>4, <3>1, <3>2 DEF Exists, OsStates
  <2> QED
    BY <1>3, <2>1 DEF Sound, KidsLive
<1>6. PendReaped(V)
  BY <1>2, <1>4 DEF Sound, PendReaped
<1>7. EntriesBorn(V)
  BY <1>1, <1>3, <1>4 DEF Sound, EntriesBorn
<1>8. StatusTrue(V, re, asm)
  BY <1>1, <1>3, <1>4 DEF Sound, StatusTrue
<1>9. DeadEntries(V)
  BY <1>1, <1>3, <1>4 DEF Sound, DeadEntries, Relaxed
<1>10. Accounted(V, rel \cup X)
  BY <1>3, <1>4 DEF Sound, Accounted
<1>11. AssumedGone(V, asm)
  BY <1>3, <1>4 DEF Sound, AssumedGone
<1>12. DeadListed(V, tol)
  BY <1>3, <1>4 DEF Sound, DeadListed
<1>13. NotedTold(V, tol \cup X)
  BY <1>1, <1>3, <1>4 DEF Sound, NotedTold, Relaxed
<1> QED
  BY <1>5, <1>6, <1>7, <1>8, <1>9, <1>10, <1>11, <1>12, <1>13 DEF Sound

\* The user may be told more, and let go of more.
LEMMA MoreTold ==
    ASSUME NEW W, NEW re, NEW rel, NEW asm, NEW tol, NEW X, NEW more, NEW gone,
           Sound(W, re, rel, asm, tol, X), tol \subseteq more, rel \subseteq gone
    PROVE  Sound(W, re, gone, asm, more, X)
<1>1. Accounted(W, gone \cup X)
  BY DEF Sound, Accounted
<1>2. DeadListed(W, more)
  BY DEF Sound, DeadListed
<1>3. NotedTold(W, more \cup X)
  BY DEF Sound, NotedTold
<1> QED
  BY <1>1, <1>2, <1>3 DEF Sound

\* A world with another table.
LEMMA ExceptTab ==
    ASSUME NEW W, NEW re, WorldOK(W, re), NEW U, Single(U)
    PROVE  LET V == [W EXCEPT !.tab = U]
           IN  /\ WorldOK(V, re) /\ V.tab = U /\ V.sig = W.sig /\ V.os = W.os
               /\ V.kids = W.kids /\ V.pend = W.pend /\ V.notices = W.notices
<1> DEFINE V == [W EXCEPT !.tab = U]
<1>1. W = [tab |-> W.tab, sig |-> W.sig, os |-> W.os, kids |-> W.kids, pend |-> W.pend,
           notices |-> W.notices]
  BY DEF WorldOK
<1>2. V = [tab |-> U, sig |-> W.sig, os |-> W.os, kids |-> W.kids, pend |-> W.pend,
           notices |-> W.notices]
  BY <1>1
<1>3. /\ V.tab = U /\ V.sig = W.sig /\ V.os = W.os
      /\ V.kids = W.kids /\ V.pend = W.pend /\ V.notices = W.notices
      /\ V = [tab |-> V.tab, sig |-> V.sig, os |-> V.os, kids |-> V.kids, pend |-> V.pend,
              notices |-> V.notices]
  BY <1>2
<1> HIDE DEF V
<1>4. WorldOK(V, re)
  BY <1>3 DEF WorldOK
<1> QED
  BY <1>3, <1>4 DEF V

\* The keys of the table's maps are processes.
LEMMA TableKeys ==
    ASSUME NEW T, Single(T)
    PROVE  /\ DOMAIN T.p2j \subseteq Pids /\ DOMAIN T.done \subseteq Pids
           /\ IsMap(T.done, Pids, Statuses)
BY DEF Single, TableInv, Core, TypeCorrect, IsMap

\* cleanup_dead_jobs removes only jobs the user was told of.
LEMMA CleanupSound ==
    ASSUME NEW W, NEW V, NEW re, NEW rel, NEW asm, NEW tol,
           Sound(W, re, rel, asm, tol, {}), WorldOK(V, re),
           V.tab = CleanupDeadJobs(W.tab), V.sig = W.sig, V.os = W.os,
           V.kids = W.kids, V.pend = W.pend
    PROVE  Sound(V, re, rel, asm, tol, {})
<1>1. Single(W.tab)
  BY DEF Sound, WorldOK
<1>2. /\ V.tab.done = W.tab.done
      /\ DOMAIN V.tab.p2j = {p \in DOMAIN W.tab.p2j :
                                ~(St(W.tab, p) = "Completed" /\ Noted(W.tab, p))}
      /\ \A p \in DOMAIN V.tab.p2j : St(V.tab, p) = St(W.tab, p) /\ Noted(V.tab, p) = Noted(W.tab, p)
  BY <1>1, CleanupEffect DEF SameEntry
<1>3. DOMAIN W.tab.p2j \subseteq Pids /\ DOMAIN W.tab.done \subseteq Pids
  BY <1>1, TableKeys
<1>4. \A p \in DOMAIN W.tab.p2j : p \notin DOMAIN V.tab.p2j =>
          W.os[p] = "reaped" /\ p \notin W.pend /\ p \in tol
  BY <1>2 DEF Sound, DeadEntries, NotedTold
<1>5. KidsLive(V)
  BY <1>4 DEF Sound, KidsLive, Exists
<1>6. PendReaped(V) /\ Accounted(V, rel \cup {})
  BY <1>2 DEF Sound, PendReaped, Accounted
<1>7. EntriesBorn(V) /\ DeadEntries(V)
  BY <1>2 DEF Sound, EntriesBorn, DeadEntries
<1>8. StatusTrue(V, re, asm) /\ AssumedGone(V, asm)
  BY <1>2 DEF Sound, StatusTrue, AssumedGone
<1>9. DeadListed(V, tol)
  BY <1>4 DEF Sound, DeadListed
<1>10. NotedTold(V, tol \cup {})
  BY <1>2 DEF Sound, NotedTold
<1>11. Watched(V, {})
  BY <1>2 DEF Sound, Watched
<1> QED
  BY <1>5, <1>6, <1>7, <1>8, <1>9, <1>10, <1>11 DEF Sound

\* Jobs are notified when the user was told of their published deaths.
LEMMA FlagSound ==
    ASSUME NEW W, NEW V, NEW re, NEW rel, NEW asm, NEW tol,
           Sound(W, re, rel, asm, tol, {}), WorldOK(V, re),
           V.tab.done = W.tab.done, V.tab.p2j = W.tab.p2j,
           \A p \in DOMAIN W.tab.p2j : /\ St(V.tab, p) = St(W.tab, p)
                                       /\ Noted(V.tab, p) /\ W.os[p] = "reaped" /\ p \notin W.pend =>
                                             Noted(W.tab, p) \/ p \in tol,
           V.sig = W.sig, V.os = W.os, V.kids = W.kids, V.pend = W.pend
    PROVE  Sound(V, re, rel, asm, tol, {})
<1>1. KidsLive(V) /\ PendReaped(V) /\ EntriesBorn(V)
  BY DEF Sound, KidsLive, PendReaped, EntriesBorn
<1>2. StatusTrue(V, re, asm) /\ DeadEntries(V)
  BY DEF Sound, StatusTrue, DeadEntries
<1>3. Accounted(V, rel \cup {}) /\ AssumedGone(V, asm) /\ DeadListed(V, tol)
  BY DEF Sound, Accounted, AssumedGone, DeadListed
<1>4. NotedTold(V, tol \cup {})
  BY DEF Sound, NotedTold
<1>5. Watched(V, {})
  BY DEF Sound, Watched
<1> QED
  BY <1>1, <1>2, <1>3, <1>4, <1>5 DEF Sound

\* apply_job_completion publishes the deaths in hand.
LEMMA ApplyCompletionsSound ==
    ASSUME NEW W, NEW rel, NEW asm, NEW tol, NEW S \in SUBSET Pids,
           Sound(W, real, rel, asm, tol, S),
           \A p \in S : W.os[p] = "reaped" /\ p \notin W.pend
    PROVE  LET V == ApplyCompletions(W, S)
           IN  /\ Sound(V, real, rel, asm, tol, {})
               /\ V.sig = W.sig /\ V.os = W.os /\ V.kids = W.kids /\ V.pend = W.pend
               /\ V.tab = ReapFinished(W.tab, [p \in S |-> real[p]])
<1> DEFINE died == [p \in S |-> real[p]]
           U == ReapFinished(W.tab, died)
           V == ApplyCompletions(W, S)
<1>1. Single(W.tab) /\ WorldOK(W, real)
  BY DEF Sound, WorldOK
<1>2. \A p \in S : real[p] \in Statuses
  BY DEF Sound, WorldOK
<1>3. IsMap(died, Pids, Statuses) /\ DOMAIN died = S /\ \A p \in S : died[p] = real[p]
  BY <1>2 DEF IsMap
<1> HIDE DEF died
<1>4. /\ Single(U) /\ U.done = Override(W.tab.done, died) /\ U.p2j = W.tab.p2j
      /\ \A p \in DOMAIN W.tab.p2j :
             IF p \in S THEN St(U, p) = "Completed" /\ ~Noted(U, p)
             ELSE SameEntry(W.tab, U, p)
  BY <1>1, <1>3, ReapEffect
<1>5. /\ DOMAIN U.done = DOMAIN W.tab.done \cup S
      /\ \A p \in S : U.done[p] = real[p]
      /\ \A p \in DOMAIN W.tab.done : p \notin S => U.done[p] = W.tab.done[p]
  BY <1>3, <1>4 DEF Override
<1> HIDE DEF U
<1>6. /\ V.tab = U /\ V.sig = W.sig /\ V.os = W.os /\ V.kids = W.kids /\ V.pend = W.pend
      /\ V = [tab |-> V.tab, sig |-> V.sig, os |-> V.os, kids |-> V.kids, pend |-> V.pend,
              notices |-> V.notices]
  <2>1. W = [tab |-> W.tab, sig |-> W.sig, os |-> W.os, kids |-> W.kids, pend |-> W.pend,
             notices |-> W.notices]
    BY <1>1 DEF WorldOK
  <2>2. \E n : V = [W EXCEPT !.tab = U, !.notices = n]
    BY DEF ApplyCompletions, U, died
  <2> HIDE DEF V
  <2> QED
    BY <2>1, <2>2
<1>7. V.tab = ReapFinished(W.tab, [p \in S |-> real[p]])
  BY <1>6 DEF U, died
<1> HIDE DEF V
<1>8. WorldOK(V, real)
  BY <1>1, <1>4, <1>6 DEF WorldOK
<1>9. KidsLive(V) /\ PendReaped(V) /\ EntriesBorn(V)
  BY <1>4, <1>6 DEF Sound, KidsLive, PendReaped, EntriesBorn
<1>10. StatusTrue(V, real, asm)
  BY <1>5, <1>6 DEF Sound, StatusTrue
<1>11. DeadEntries(V)
  BY <1>4, <1>6 DEF Sound, DeadEntries, SameEntry
<1>12. Accounted(V, rel \cup {})
  BY <1>5, <1>6 DEF Sound, Accounted
<1>13. AssumedGone(V, asm) /\ DeadListed(V, tol)
  BY <1>4, <1>6 DEF Sound, AssumedGone, DeadListed
<1>14. NotedTold(V, tol \cup {})
  BY <1>4, <1>6 DEF Sound, NotedTold, SameEntry
<1>15. Watched(V, {})
  BY <1>4, <1>6 DEF Sound, Watched, SameEntry
<1> QED
  BY <1>6, <1>7, <1>8, <1>9, <1>10, <1>11, <1>12, <1>13, <1>14, <1>15 DEF Sound, V

-----------------------------------------------------------------------------
(* The refresh. *)

\* f is the table of what is published up to each mark, until m.
PublishedTo(T, marks, ready, m, f) ==
    f = [k \in 0..m |-> IF k = 0 THEN T
                        ELSE IF k \in ready THEN Publish(f[k - 1], marks[k]) ELSE f[k - 1]]

LEMMA PublishedOneMore ==
    ASSUME NEW T, NEW marks, NEW ready, NEW m \in Nat, m # 0, NEW f,
           PublishedTo(T, marks, ready, m - 1, f)
    PROVE  \E g : PublishedTo(T, marks, ready, m, g)
<1> DEFINE last == IF m \in ready THEN Publish(f[m - 1], marks[m]) ELSE f[m - 1]
           g == [k \in 0..m |-> IF k = m THEN last ELSE f[k]]
           h == [k \in 0..m |-> IF k = 0 THEN T
                                ELSE IF k \in ready THEN Publish(g[k - 1], marks[k]) ELSE g[k - 1]]
<1>1. ASSUME NEW k \in 0..(m - 1)
      PROVE  f[k] = IF k = 0 THEN T
                    ELSE IF k \in ready THEN Publish(f[k - 1], marks[k]) ELSE f[k - 1]
  <2>1. f = [i \in 0..(m - 1) |-> IF i = 0 THEN T
                ELSE IF i \in ready THEN Publish(f[i - 1], marks[i]) ELSE f[i - 1]]
    BY DEF PublishedTo
  <2> QED
    BY <2>1
<1>2. ASSUME NEW k \in 0..m PROVE g[k] = h[k]
  <2>1. CASE k = m
    <3>1. g[m - 1] = f[m - 1]
      OBVIOUS
    <3> QED
      BY <2>1, <3>1
  <2>2. CASE k # m
    <3>1. k \in 0..(m - 1)
      BY <2>2
    <3>2. k # 0 => k - 1 \in 0..m /\ k - 1 # m
      BY <3>1
    <3>3. k # 0 => g[k - 1] = f[k - 1]
      BY <3>2
    <3> QED
      BY <1>1, <2>2, <3>1, <3>3
  <2> QED
    BY <2>1, <2>2
<1>3. g = h
  <2> HIDE DEF last
  <2>1. g = [k \in 0..m |-> g[k]] /\ h = [k \in 0..m |-> h[k]]
    OBVIOUS
  <2> HIDE DEF g, h
  <2> QED
    BY <1>2, <2>1
<1>4. PublishedTo(T, marks, ready, m, g)
  BY <1>3 DEF PublishedTo
<1> QED
  BY <1>4

\* The recursive function of PublishAll exists, and PublishAll is its last
\* value.
LEMMA PublishAllDefined ==
    ASSUME NEW T, NEW marks, NEW ready, Len(marks) \in Nat
    PROVE  \E f : /\ PublishAll(T, marks, ready) = f[Len(marks)]
                  /\ \A k \in 0..Len(marks) :
                        f[k] = IF k = 0 THEN T
                               ELSE IF k \in ready THEN Publish(f[k - 1], marks[k]) ELSE f[k - 1]
<1> DEFINE bad == {m \in 0..Len(marks) : ~\E f : PublishedTo(T, marks, ready, m, f)}
<1>1. bad = {}
  <2> SUFFICES ASSUME bad # {} PROVE FALSE
    OBVIOUS
  <2>0. bad \subseteq Nat
    OBVIOUS
  <2>1. PICK m \in bad : \A y \in bad : m <= y
    <3> HIDE DEF bad
    <3> QED
      BY <2>0, LeastNat
  <2>2. m \in 0..Len(marks) /\ ~\E f : PublishedTo(T, marks, ready, m, f)
    BY <2>1
  <2>3. CASE m = 0
    <3>1. PublishedTo(T, marks, ready, 0, [k \in 0..0 |-> T])
      BY DEF PublishedTo
    <3> QED
      BY <3>1, <2>2, <2>3
  <2>4. CASE m # 0
    <3>1. m - 1 \in 0..Len(marks) /\ m \in Nat /\ ~(m <= m - 1)
      BY <2>2, <2>4
    <3>2. m - 1 \notin bad
      BY <2>1, <3>1
    <3>3. PICK f : PublishedTo(T, marks, ready, m - 1, f)
      BY <3>1, <3>2
    <3>4. \E g : PublishedTo(T, marks, ready, m, g)
      BY <2>4, <3>1, <3>3, PublishedOneMore
    <3> QED
      BY <2>2, <3>4
  <2> QED
    BY <2>3, <2>4
<1>2. PICK f : PublishedTo(T, marks, ready, Len(marks), f)
  BY <1>1
<1> DEFINE g == CHOOSE f0 : PublishedTo(T, marks, ready, Len(marks), f0)
<1>3. PublishedTo(T, marks, ready, Len(marks), g)
  BY <1>2
<1>4. PublishAll(T, marks, ready) = g[Len(marks)]
  BY <1>3 DEF PublishAll, PublishedTo
<1> HIDE DEF g
<1>5. g = [k \in 0..Len(marks) |-> IF k = 0 THEN T
              ELSE IF k \in ready THEN Publish(g[k - 1], marks[k]) ELSE g[k - 1]]
  BY <1>3 DEF PublishedTo
<1>6. \A k \in 0..Len(marks) :
          g[k] = IF k = 0 THEN T
                 ELSE IF k \in ready THEN Publish(g[k - 1], marks[k]) ELSE g[k - 1]
  BY <1>5
<1> QED
  BY <1>4, <1>6

LEMMA PublishRelaxes ==
    ASSUME NEW T, NEW V, NEW m, Single(T), Relaxed(T, V)
    PROVE  Relaxed(T, Publish(V, m))
<1> DEFINE U == Publish(V, m)
<1>1. U = MarkStopped(V, m.pid) \/ U = MarkRunning(V, m.pid)
  BY DEF Publish
<1>2. Single(V) /\ V.p2j = T.p2j /\ V.done = T.done
  BY DEF Relaxed
<1> HIDE DEF U
<1>3. /\ Single(U) /\ U.done = V.done /\ U.p2j = V.p2j
      /\ \A q \in DOMAIN V.p2j : q # m.pid => SameEntry(V, U, q)
      /\ m.pid \in DOMAIN V.p2j => /\ St(U, m.pid) \in {"Running", "Stopped"}
                                   /\ Noted(U, m.pid) => Noted(V, m.pid)
  BY <1>1, <1>2, MarkEffect
<1>4. ASSUME NEW q \in DOMAIN T.p2j
      PROVE  /\ St(U, q) = St(T, q) \/ St(U, q) \in {"Running", "Stopped"}
             /\ Noted(U, q) => Noted(T, q)
  BY <1>2, <1>3 DEF Relaxed, SameEntry
<1> QED
  BY <1>2, <1>3, <1>4 DEF Relaxed, U

\* apply_deferred_state_marks: whatever is published, in any number, only
\* shows processes alive again.
LEMMA PublishAllRelaxes ==
    ASSUME NEW T, Single(T), NEW marks, Len(marks) \in Nat, NEW ready
    PROVE  /\ Relaxed(T, PublishAll(T, marks, ready))
           /\ Len(marks) = 0 => PublishAll(T, marks, ready) = T
<1>1. PICK f : /\ PublishAll(T, marks, ready) = f[Len(marks)]
               /\ \A k \in 0..Len(marks) :
                     f[k] = IF k = 0 THEN T
                            ELSE IF k \in ready THEN Publish(f[k - 1], marks[k]) ELSE f[k - 1]
  BY PublishAllDefined
<1> DEFINE bad == {k \in 0..Len(marks) : ~Relaxed(T, f[k])}
<1>2. bad = {}
  <2> SUFFICES ASSUME bad # {} PROVE FALSE
    OBVIOUS
  <2>1. PICK m \in bad : \A y \in bad : m <= y
    <3>1. bad \subseteq Nat
      OBVIOUS
    <3> HIDE DEF bad
    <3> QED
      BY <3>1, LeastNat
  <2>2. m \in 0..Len(marks) /\ ~Relaxed(T, f[m])
    BY <2>1
  <2>3. Relaxed(T, T)
    BY DEF Relaxed
  <2>4. m # 0
    BY <1>1, <2>2, <2>3
  <2>5. m - 1 \in 0..Len(marks) /\ ~(m <= m - 1)
    BY <2>2, <2>4
  <2>6. Relaxed(T, f[m - 1])
    BY <2>1, <2>5
  <2>7. Relaxed(T, Publish(f[m - 1], marks[m]))
    BY <2>6, PublishRelaxes
  <2> QED
    BY <1>1, <2>2, <2>4, <2>6, <2>7
<1>3. Len(marks) \in 0..Len(marks) /\ 0 \in 0..Len(marks)
  OBVIOUS
<1>4. Len(marks) = 0 => f[Len(marks)] = T
  BY <1>1, <1>3
<1> QED
  BY <1>1, <1>2, <1>3, <1>4

\* The marks a refresh publishes and those it keeps.
LEMMA MarksSound ==
    ASSUME NEW W, NEW rel, NEW asm, NEW tol, Sound(W, real, rel, asm, tol, {}),
           NEW observe, NEW hold, NEW ripe
    PROVE  LET M == ApplyDeferredStateMarks(W.tab, W.sig, observe, hold, ripe)
               V == WithMarks(W, M)
           IN  /\ Sound(V, real, rel, asm, tol, {})
               /\ V.os = W.os /\ V.kids = W.kids /\ V.pend = W.pend
<1> DEFINE ready == {i \in DOMAIN W.sig.marks : Publishes(W.tab, W.sig, i, observe, hold, ripe)}
           U == PublishAll(W.tab, W.sig.marks, ready)
           kept == RetainAt(W.sig.marks, DOMAIN W.sig.marks \ ready)
           M == ApplyDeferredStateMarks(W.tab, W.sig, observe, hold, ripe)
           V == WithMarks(W, M)
<1>1. /\ WorldOK(W, real) /\ Single(W.tab) /\ W.sig.marks \in Seq(Mark)
      /\ W.sig = [marks |-> W.sig.marks, fatal |-> W.sig.fatal]
      /\ W = [tab |-> W.tab, sig |-> W.sig, os |-> W.os, kids |-> W.kids, pend |-> W.pend,
              notices |-> W.notices]
  BY DEF Sound, WorldOK
<1>2. Len(W.sig.marks) \in Nat
  BY <1>1
<1>3. Relaxed(W.tab, U) /\ (Len(W.sig.marks) = 0 => U = W.tab)
  BY <1>1, <1>2, PublishAllRelaxes
<1>4. kept \in Seq(Mark)
  BY <1>1, RetainAtType
<1>5. W.sig.marks = << >> => kept = << >> /\ U = W.tab
  BY <1>3, RetainAtNothing
<1>6. M.tab = U /\ M.sig = [W.sig EXCEPT !.marks = kept]
  BY DEF ApplyDeferredStateMarks
<1> HIDE DEF U, kept, ready, M
<1>7. M.sig = [marks |-> kept, fatal |-> W.sig.fatal]
  BY <1>1, <1>6
<1>8. V = [tab |-> U, sig |-> [marks |-> kept, fatal |-> W.sig.fatal], os |-> W.os,
           kids |-> W.kids, pend |-> W.pend, notices |-> W.notices]
  <2> DEFINE s1 == [marks |-> kept, fatal |-> W.sig.fatal]
  <2>1. V = [W EXCEPT !.tab = U, !.sig = s1]
    BY <1>6, <1>7 DEF WithMarks
  <2> HIDE DEF s1, V
  <2>2. V = [tab |-> U, sig |-> s1, os |-> W.os, kids |-> W.kids, pend |-> W.pend,
             notices |-> W.notices]
    BY <1>1, <2>1
  <2> QED
    BY <2>2 DEF s1
<1>9. /\ V.tab = U /\ V.sig = [marks |-> V.sig.marks, fatal |-> V.sig.fatal]
      /\ V.sig.marks = kept /\ V.os = W.os /\ V.kids = W.kids /\ V.pend = W.pend
      /\ V = [tab |-> V.tab, sig |-> V.sig, os |-> V.os, kids |-> V.kids, pend |-> V.pend,
              notices |-> V.notices]
  BY <1>8
<1> HIDE DEF V
<1>10. WorldOK(V, real)
  BY <1>1, <1>3, <1>4, <1>9 DEF WorldOK, Relaxed
<1>11. Watched(V, {})
  BY <1>5, <1>9 DEF Sound, Watched
<1>12. SameLife(W.os, V.os)
  BY <1>9 DEF SameLife
<1>13. Sound(V, real, rel, asm, tol, {})
  BY <1>3, <1>9, <1>10, <1>11, <1>12, RelaxSound
<1> QED
  BY <1>9, <1>13 DEF V, M

\* Every stashed death is of a job recorded stopped.
PendStopped(W) == \A p \in W.pend : p \in DOMAIN W.tab.p2j /\ St(W.tab, p) = "Stopped"

\* apply_pending_job_completions
LEMMA ApplyPendingSound ==
    ASSUME NEW W, NEW rel, NEW asm, NEW tol, Sound(W, real, rel, asm, tol, {}),
           NEW observe, NEW gate
    PROVE  LET V == ApplyPending(W, observe, gate)
           IN  /\ Sound(V, real, rel, asm, tol, {})
               /\ V.os = W.os /\ V.kids = W.kids
               /\ observe => PendStopped(V)
<1> DEFINE S == {p \in W.pend : observe /\ ~(gate /\ JobRecordedStopped(W.tab, p))}
           W1 == [W EXCEPT !.pend = W.pend \ S]
           V == ApplyCompletions(W1, S)
<1>1. /\ WorldOK(W, real) /\ Single(W.tab)
      /\ W = [tab |-> W.tab, sig |-> W.sig, os |-> W.os, kids |-> W.kids, pend |-> W.pend,
              notices |-> W.notices]
  BY DEF Sound, WorldOK
<1>2. /\ S \in SUBSET Pids /\ S \subseteq W.pend
      /\ \A p \in W.pend \ S : observe => JobRecordedStopped(W.tab, p)
  BY DEF Sound, WorldOK
<1> HIDE DEF S
<1>3. W1 = [tab |-> W.tab, sig |-> W.sig, os |-> W.os, kids |-> W.kids, pend |-> W.pend \ S,
            notices |-> W.notices]
  BY <1>1
<1>4. /\ W1.tab = W.tab /\ W1.sig = W.sig /\ W1.os = W.os /\ W1.kids = W.kids
      /\ W1.pend = W.pend \ S
      /\ W1 = [tab |-> W1.tab, sig |-> W1.sig, os |-> W1.os, kids |-> W1.kids,
               pend |-> W1.pend, notices |-> W1.notices]
  BY <1>3
<1> HIDE DEF W1
<1>5. WorldOK(W1, real)
  BY <1>1, <1>4 DEF WorldOK
<1>6. Sound(W1, real, rel, asm, tol, S)
  <2>1. KidsLive(W1) /\ PendReaped(W1) /\ EntriesBorn(W1)
    BY <1>4 DEF Sound, KidsLive, PendReaped, EntriesBorn
  <2>2. StatusTrue(W1, real, asm) /\ DeadEntries(W1)
    BY <1>4 DEF Sound, StatusTrue, DeadEntries
  <2>3. Accounted(W1, rel \cup S) /\ AssumedGone(W1, asm) /\ DeadListed(W1, tol)
    BY <1>4 DEF Sound, Accounted, AssumedGone, DeadListed
  <2>4. NotedTold(W1, tol \cup S) /\ Watched(W1, S)
    BY <1>4 DEF Sound, NotedTold, Watched
  <2> QED
    BY <1>5, <2>1, <2>2, <2>3, <2>4 DEF Sound
<1>7. \A p \in S : W1.os[p] = "reaped" /\ p \notin W1.pend
  BY <1>2, <1>4 DEF Sound, PendReaped
<1>8. /\ Sound(V, real, rel, asm, tol, {})
      /\ V.sig = W1.sig /\ V.os = W1.os /\ V.kids = W1.kids /\ V.pend = W1.pend
      /\ V.tab = ReapFinished(W1.tab, [p \in S |-> real[p]])
  BY <1>2, <1>6, <1>7, ApplyCompletionsSound
<1>9. ASSUME observe PROVE PendStopped(V)
  <2> DEFINE died == [p \in S |-> real[p]]
  <2>1. IsMap(died, Pids, Statuses) /\ DOMAIN died = S
    BY <1>2, <1>4, <1>7 DEF IsMap, Sound, WorldOK
  <2> HIDE DEF died
  <2>2. /\ V.tab.p2j = W.tab.p2j
        /\ \A p \in DOMAIN W.tab.p2j : p \notin S => St(V.tab, p) = St(W.tab, p)
    <3>1. V.tab = ReapFinished(W.tab, died)
      BY <1>4, <1>8 DEF died
    <3> HIDE DEF V
    <3> QED
      BY <1>1, <2>1, <3>1, ReapEffect DEF SameEntry
  <2>3. \A p \in W.pend \ S : p \in DOMAIN W.tab.p2j /\ St(W.tab, p) = "Stopped"
    BY <1>1, <1>2, <1>9, RecordedStopped
  <2> HIDE DEF V
  <2> QED
    BY <1>4, <1>8, <2>2, <2>3 DEF PendStopped
<1>10. V = ApplyPending(W, observe, gate)
  BY DEF ApplyPending, S, W1
<1> HIDE DEF V
<1> QED
  BY <1>4, <1>8, <1>9, <1>10

\* The children that are found dead.
LEMMA ReapChildrenSound ==
    ASSUME NEW W, NEW rel, NEW asm, NEW tol, Sound(W, real, rel, asm, tol, {}),
           NEW force \in BOOLEAN, NEW observe, NEW gate
    PROVE  LET V == ReapChildren(W, force, observe, gate)
           IN  /\ Sound(V, real, rel, asm, tol, {})
               /\ Onward(W.os, V.os)
               /\ force /\ observe /\ PendStopped(W) => PendStopped(V)
<1> DEFINE finished == {p \in W.kids : W.os[p] = "zombie"}
           fresh == {p \in finished : ~force /\ Signalled(p) /\ FreshFatalLive(W.sig, p)}
           shown == {p \in finished \ fresh :
                        observe /\ ~(gate /\ JobRecordedStopped(W.tab, p))}
           W1 == [W EXCEPT !.kids = W.kids \ finished,
                           !.os = Reaped(W.os, finished),
                           !.pend = W.pend \cup (finished \ shown),
                           !.sig.fatal = Drop(W.sig.fatal, fresh)]
           V == ApplyCompletions(W1, shown)
<1>1. /\ WorldOK(W, real) /\ Single(W.tab)
      /\ W.sig = [marks |-> W.sig.marks, fatal |-> W.sig.fatal]
      /\ W = [tab |-> W.tab, sig |-> W.sig, os |-> W.os, kids |-> W.kids, pend |-> W.pend,
              notices |-> W.notices]
  BY DEF Sound, WorldOK
<1>2. /\ finished \in SUBSET Pids /\ finished \subseteq W.kids
      /\ \A p \in finished : W.os[p] = "zombie"
      /\ shown \subseteq finished
  BY DEF Sound, WorldOK
<1>3. force /\ observe => \A p \in finished \ shown : JobRecordedStopped(W.tab, p)
  OBVIOUS
<1> DEFINE fatal == Drop(W.sig.fatal, fresh)
<1>4. W1 = [tab |-> W.tab, sig |-> [marks |-> W.sig.marks, fatal |-> fatal],
            os |-> Reaped(W.os, finished), kids |-> W.kids \ finished,
            pend |-> W.pend \cup (finished \ shown), notices |-> W.notices]
  <2> DEFINE s1 == [marks |-> W.sig.marks, fatal |-> fatal]
             O == Reaped(W.os, finished)
             k1 == W.kids \ finished
             p1 == W.pend \cup (finished \ shown)
  <2>1. [W.sig EXCEPT !.fatal = fatal] = s1
    <3> HIDE DEF fatal
    <3> QED
      BY <1>1
  <2>2. W1 = [W EXCEPT !.kids = k1, !.os = O, !.pend = p1, !.sig = [W.sig EXCEPT !.fatal = fatal]]
    <3> HIDE DEF finished, shown, fresh
    <3> QED
      OBVIOUS
  <2>3. W1 = [W EXCEPT !.kids = k1, !.os = O, !.pend = p1, !.sig = s1]
    <3> HIDE DEF W1, k1, O, p1, s1
    <3> QED
      BY <2>1, <2>2
  <2> HIDE DEF W1, k1, O, p1, s1, finished, shown, fresh, fatal
  <2>4. W1 = [tab |-> W.tab, sig |-> s1, os |-> O, kids |-> k1, pend |-> p1, notices |-> W.notices]
    BY <1>1, <2>3
  <2> QED
    BY <2>4 DEF s1, O, k1, p1
<1> HIDE DEF finished, shown, fresh, fatal, W1
<1>5. /\ W1.tab = W.tab /\ W1.sig.marks = W.sig.marks
      /\ W1.sig = [marks |-> W1.sig.marks, fatal |-> W1.sig.fatal]
      /\ W1.os = Reaped(W.os, finished) /\ W1.kids = W.kids \ finished
      /\ W1.pend = W.pend \cup (finished \ shown)
      /\ W1 = [tab |-> W1.tab, sig |-> W1.sig, os |-> W1.os, kids |-> W1.kids,
               pend |-> W1.pend, notices |-> W1.notices]
  BY <1>4
<1>6. /\ W1.os \in [Pids -> OsStates]
      /\ \A p \in finished : W1.os[p] = "reaped"
      /\ \A p \in Pids : p \notin finished => W1.os[p] = W.os[p]
  BY <1>2, <1>5 DEF Sound, WorldOK, Reaped, OsStates
<1>7. WorldOK(W1, real)
  <2>1. W1.kids \subseteq Pids /\ W1.pend \subseteq Pids
    BY <1>1, <1>2, <1>5 DEF WorldOK
  <2>2. \A p \in Pids : W1.os[p] \in {"zombie", "reaped"} => real[p] \in Statuses
    BY <1>1, <1>2, <1>6 DEF WorldOK
  <2> QED
    BY <1>1, <1>5, <1>6, <2>1, <2>2 DEF WorldOK
<1>8. DOMAIN W.tab.p2j \subseteq Pids /\ DOMAIN W.tab.done \subseteq Pids
  BY <1>1, TableKeys
<1>9. finished \subseteq DOMAIN W.tab.p2j
  BY <1>2 DEF Sound, KidsLive
<1>10. W.kids \subseteq Pids /\ W.pend \subseteq Pids
  BY <1>1 DEF WorldOK
<1>11. Sound(W1, real, rel, asm, tol, shown)
  <2>1. KidsLive(W1)
    BY <1>5, <1>6, <1>10 DEF Sound, KidsLive
  <2>2. PendReaped(W1)
    BY <1>5, <1>6, <1>10 DEF Sound, PendReaped
  <2>3. EntriesBorn(W1)
    BY <1>5, <1>6, <1>8 DEF Sound, EntriesBorn
  <2>4. StatusTrue(W1, real, asm)
    <3>1. ASSUME NEW p \in DOMAIN W.tab.done
          PROVE  \/ W1.os[p] = "reaped" /\ p \notin W1.pend /\ W.tab.done[p] = real[p]
                 \/ p \in asm /\ W.tab.done[p] = 0
      BY <1>2, <1>5, <1>6, <1>8 DEF Sound, StatusTrue
    <3> QED
      BY <1>5, <3>1 DEF StatusTrue
  <2>5. DeadEntries(W1)
    <3>1. ASSUME NEW p \in DOMAIN W.tab.p2j, St(W.tab, p) = "Completed"
          PROVE  W1.os[p] = "reaped" /\ p \notin W1.pend
      BY <1>2, <1>5, <1>6, <1>8, <3>1 DEF Sound, DeadEntries
    <3> QED
      BY <1>5, <3>1 DEF DeadEntries
  <2>6. Accounted(W1, rel \cup shown)
    BY <1>2, <1>5, <1>6 DEF Sound, Accounted
  <2>7. AssumedGone(W1, asm)
    BY <1>2, <1>5, <1>6 DEF Sound, AssumedGone
  <2>8. DeadListed(W1, tol)
    BY <1>5, <1>6, <1>9 DEF Sound, DeadListed
  <2>9. NotedTold(W1, tol \cup shown)
    <3>1. ASSUME NEW p \in DOMAIN W.tab.p2j, Noted(W.tab, p), W1.os[p] = "reaped", p \notin W1.pend
          PROVE  p \in tol \cup shown
      BY <1>2, <1>5, <1>6, <1>8, <3>1 DEF Sound, NotedTold
    <3> QED
      BY <1>5, <3>1 DEF NotedTold
  <2>10. Watched(W1, shown)
    BY <1>2, <1>5 DEF Sound, Watched
  <2> QED
    BY <1>7, <2>1, <2>2, <2>3, <2>4, <2>5, <2>6, <2>7, <2>8, <2>9, <2>10 DEF Sound
<1>12. \A p \in shown : W1.os[p] = "reaped" /\ p \notin W1.pend
  BY <1>2, <1>5, <1>6 DEF Sound, PendReaped
<1>13. /\ Sound(V, real, rel, asm, tol, {})
       /\ V.os = W1.os /\ V.pend = W1.pend
       /\ V.tab = ReapFinished(W.tab, [p \in shown |-> real[p]])
  <2>1. shown \in SUBSET Pids
    BY <1>2
  <2> QED
    BY <1>5, <1>11, <1>12, <2>1, ApplyCompletionsSound
<1>14. Onward(W.os, V.os)
  BY <1>2, <1>6, <1>13 DEF Onward
<1>15. ASSUME force, observe, PendStopped(W) PROVE PendStopped(V)
  <2> DEFINE died == [p \in shown |-> real[p]]
  <2>1. IsMap(died, Pids, Statuses) /\ DOMAIN died = shown
    BY <1>2, <1>7, <1>12 DEF IsMap, WorldOK
  <2>2. V.tab = ReapFinished(W.tab, died)
    BY <1>13
  <2> HIDE DEF died, V
  <2>3. /\ V.tab.p2j = W.tab.p2j
        /\ \A p \in DOMAIN W.tab.p2j : p \notin shown => St(V.tab, p) = St(W.tab, p)
    BY <1>1, <2>1, <2>2, ReapEffect DEF SameEntry
  <2>4. \A p \in finished \ shown : p \in DOMAIN W.tab.p2j /\ St(W.tab, p) = "Stopped"
    BY <1>1, <1>3, <1>15, RecordedStopped
  <2>5. \A p \in W1.pend : p \in DOMAIN W.tab.p2j /\ St(W.tab, p) = "Stopped" /\ p \notin shown
    BY <1>5, <1>12, <1>15, <2>4 DEF PendStopped
  <2> QED
    BY <1>13, <2>3, <2>5 DEF PendStopped
<1>16. V = ReapChildren(W, force, observe, gate)
  BY DEF ReapChildren, W1, finished, shown, fresh
<1> HIDE DEF V
<1> QED
  BY <1>13, <1>14, <1>15, <1>16

LEMMA CleanedUpSound ==
    ASSUME NEW W, NEW re, NEW rel, NEW asm, NEW tol, Sound(W, re, rel, asm, tol, {})
    PROVE  LET V == CleanedUp(W)
           IN  /\ Sound(V, re, rel, asm, tol, {}) /\ V.tab = CleanupDeadJobs(W.tab)
               /\ V.sig = W.sig /\ V.os = W.os /\ V.kids = W.kids /\ V.pend = W.pend
               /\ V.notices = W.notices
<1> DEFINE U == CleanupDeadJobs(W.tab)
           V == CleanedUp(W)
<1>1. WorldOK(W, re) /\ Single(W.tab)
  BY DEF Sound, WorldOK
<1>2. Single(U)
  BY <1>1, CleanupEffect
<1>3. V = [W EXCEPT !.tab = U]
  BY DEF CleanedUp
<1> HIDE DEF V
<1>4. /\ WorldOK(V, re) /\ V.tab = U /\ V.sig = W.sig /\ V.os = W.os
      /\ V.kids = W.kids /\ V.pend = W.pend /\ V.notices = W.notices
  BY <1>1, <1>2, <1>3, ExceptTab
<1>5. Sound(V, re, rel, asm, tol, {})
  BY <1>4, CleanupSound
<1> QED
  BY <1>4, <1>5 DEF V

\* refresh_background_jobs_impl
LEMMA RefreshSound ==
    ASSUME NEW W, NEW rel, NEW asm, NEW tol, Sound(W, real, rel, asm, tol, {}),
           NEW force \in BOOLEAN, NEW gate, NEW newLine \in BOOLEAN, NEW ripe
    PROVE  LET V == Refresh(W, force, gate, newLine, ripe)
           IN  /\ Sound(V, real, rel, asm, tol, {})
               /\ Onward(W.os, V.os)
               /\ force /\ ~newLine => PendStopped(V)
<1> DEFINE observe == force \/ newLine \/ fgMoved
           stateObserve == force \/ fgMoved \/ (Monitor /\ Tty)
           W0 == WithMarks(W, ApplyDeferredStateMarks(W.tab, W.sig, stateObserve, gate, ripe))
           W1 == ApplyPending(W0, observe, gate)
           W2 == ReapChildren(W1, force, observe, gate)
           V == CleanedUpIf(newLine, W2)
<1>1. Sound(W0, real, rel, asm, tol, {}) /\ W0.os = W.os
  <2> HIDE DEF stateObserve
  <2> QED
    BY MarksSound
<1> HIDE DEF W0
<1>2. /\ Sound(W1, real, rel, asm, tol, {}) /\ W1.os = W0.os
      /\ observe => PendStopped(W1)
  <2> HIDE DEF observe
  <2> QED
    BY <1>1, ApplyPendingSound
<1> HIDE DEF W1
<1>3. /\ Sound(W2, real, rel, asm, tol, {}) /\ Onward(W1.os, W2.os)
      /\ force /\ observe /\ PendStopped(W1) => PendStopped(W2)
  <2> HIDE DEF observe
  <2> QED
    BY <1>2, ReapChildrenSound
<1> HIDE DEF W2
<1>4. Sound(V, real, rel, asm, tol, {}) /\ V.os = W2.os /\ (~newLine => V = W2)
  BY <1>3, CleanedUpSound DEF CleanedUpIf
<1>5. V = Refresh(W, force, gate, newLine, ripe)
  BY DEF Refresh, W0, W1, W2
<1> HIDE DEF V
<1> QED
  BY <1>1, <1>2, <1>3, <1>4, <1>5

\* A job of one process has no other members.
LEMMA MembersAre ==
    ASSUME NEW T, Single(T), NEW S
    PROVE  Members(T, S) = S \cap DOMAIN T.p2j
<1>1. \A p \in S \cap DOMAIN T.p2j : PidsOf(T.jobs[T.p2j[p]]) = {p}
  BY SingleIndex
<1> QED
  BY <1>1 DEF Members

\* A world with another table and other notices.
LEMMA ExceptNotices ==
    ASSUME NEW W, NEW re, WorldOK(W, re), NEW U, NEW n
    PROVE  /\ [W EXCEPT !.notices = n, !.tab = U] =
                 [tab |-> U, sig |-> W.sig, os |-> W.os, kids |-> W.kids, pend |-> W.pend,
                  notices |-> n]
           /\ [W EXCEPT !.tab = U, !.notices = n] =
                 [tab |-> U, sig |-> W.sig, os |-> W.os, kids |-> W.kids, pend |-> W.pend,
                  notices |-> n]
<1> DEFINE V == [W EXCEPT !.notices = n, !.tab = U]
           X == [W EXCEPT !.tab = U, !.notices = n]
<1>1. PICK t, g, o, k, pe, no :
          W = [tab |-> t, sig |-> g, os |-> o, kids |-> k, pend |-> pe, notices |-> no]
  BY DEF WorldOK
<1>2. W.sig = g /\ W.os = o /\ W.kids = k /\ W.pend = pe
  BY <1>1
<1>3. V = [W EXCEPT !.notices = n, !.tab = U] /\ X = [W EXCEPT !.tab = U, !.notices = n]
  OBVIOUS
<1> HIDE DEF V, X
<1>4. V = [tab |-> U, sig |-> g, os |-> o, kids |-> k, pend |-> pe, notices |-> n]
  BY <1>1, <1>3
<1>5. X = [tab |-> U, sig |-> g, os |-> o, kids |-> k, pend |-> pe, notices |-> n]
  BY <1>1, <1>3
<1>6. V = [tab |-> U, sig |-> W.sig, os |-> W.os, kids |-> W.kids, pend |-> W.pend,
           notices |-> n]
  BY <1>2, <1>4
<1>7. X = [tab |-> U, sig |-> W.sig, os |-> W.os, kids |-> W.kids, pend |-> W.pend,
           notices |-> n]
  BY <1>2, <1>5
<1> QED
  BY <1>6, <1>7 DEF V, X

\* Notices that are printed mark their jobs notified.
LEMMA NotifySound ==
    ASSUME NEW W, NEW V, NEW re, NEW rel, NEW asm, NEW tol, NEW S, NEW n,
           Sound(W, re, rel, asm, tol, {}),
           V = [tab |-> NotifyByPids(W.tab, S), sig |-> W.sig, os |-> W.os, kids |-> W.kids,
                pend |-> W.pend, notices |-> n],
           \A p \in S \cap DOMAIN W.tab.p2j : W.os[p] = "reaped" /\ p \notin W.pend => p \in tol
    PROVE  /\ Sound(V, re, rel, asm, tol, {})
           /\ V.sig = W.sig /\ V.os = W.os /\ V.kids = W.kids /\ V.pend = W.pend
           /\ V.tab = NotifyByPids(W.tab, S) /\ V.notices = n
<1> DEFINE U == NotifyByPids(W.tab, S)
<1>1. WorldOK(W, re) /\ Single(W.tab)
  BY DEF Sound, WorldOK
<1>2. /\ Single(U) /\ U.done = W.tab.done /\ U.p2j = W.tab.p2j
      /\ \A p \in DOMAIN W.tab.p2j : /\ St(U, p) = St(W.tab, p)
                                     /\ Noted(U, p) <=> Noted(W.tab, p) \/ p \in S
  BY <1>1, NotifyByPidsEffect
<1>4. /\ V.tab = U /\ V.sig = W.sig /\ V.os = W.os /\ V.kids = W.kids /\ V.pend = W.pend
      /\ V.notices = n
      /\ V = [tab |-> V.tab, sig |-> V.sig, os |-> V.os, kids |-> V.kids, pend |-> V.pend,
              notices |-> V.notices]
  OBVIOUS
<1> HIDE DEF U
<1>5. WorldOK(V, re)
  BY <1>1, <1>2, <1>4 DEF WorldOK
<1>6. Sound(V, re, rel, asm, tol, {})
  BY <1>2, <1>4, <1>5, FlagSound
<1> QED
  BY <1>4, <1>6 DEF U

\* emit_signal_notices
LEMMA EmitNoticesSound ==
    ASSUME NEW W, NEW rel, NEW asm, NEW tol, NEW S, Sound(W, real, rel, asm, tol, {}),
           \A p \in S \cap DOMAIN W.tab.p2j :
               Printed(p) /\ W.os[p] = "reaped" /\ p \notin W.pend => p \in tol
    PROVE  LET V == EmitNotices(W, S)
           IN  /\ Sound(V, real, rel, asm, tol, {})
               /\ V.sig = W.sig /\ V.os = W.os /\ V.kids = W.kids /\ V.pend = W.pend
<1> DEFINE shown == {p \in S : Printed(p)}
           n == W.notices \ S
<1>1. \A p \in shown \cap DOMAIN W.tab.p2j : W.os[p] = "reaped" /\ p \notin W.pend => p \in tol
  OBVIOUS
<1>2. CASE shown = {}
  <2> DEFINE V == [W EXCEPT !.notices = n]
  <2>1. EmitNotices(W, S) = V
    BY <1>2 DEF EmitNotices
  <2>2. W = [tab |-> W.tab, sig |-> W.sig, os |-> W.os, kids |-> W.kids, pend |-> W.pend,
             notices |-> W.notices]
    BY DEF Sound, WorldOK
  <2> HIDE DEF n
  <2>3. V = [tab |-> W.tab, sig |-> W.sig, os |-> W.os, kids |-> W.kids, pend |-> W.pend,
             notices |-> n]
    BY <2>2
  <2>4. /\ V.tab = W.tab /\ V.sig = W.sig /\ V.os = W.os /\ V.kids = W.kids /\ V.pend = W.pend
        /\ V = [tab |-> V.tab, sig |-> V.sig, os |-> V.os, kids |-> V.kids, pend |-> V.pend,
                notices |-> V.notices]
    BY <2>3
  <2> HIDE DEF V
  <2>5. WorldOK(V, real)
    BY <2>4 DEF Sound, WorldOK
  <2>6. Sound(V, real, rel, asm, tol, {})
    BY <2>4, <2>5, FlagSound
  <2> QED
    BY <2>1, <2>4, <2>6
<1>3. CASE shown # {}
  <2> HIDE DEF shown, n
  <2>0. WorldOK(W, real)
    BY DEF Sound
  <2> DEFINE W2 == [tab |-> NotifyByPids(W.tab, shown), sig |-> W.sig, os |-> W.os,
                    kids |-> W.kids, pend |-> W.pend, notices |-> n]
             V == CleanedUp(W2)
  <2>1. /\ Sound(W2, real, rel, asm, tol, {})
        /\ W2.sig = W.sig /\ W2.os = W.os /\ W2.kids = W.kids /\ W2.pend = W.pend
    BY <1>1, NotifySound
  <2>2. V = [tab |-> CleanupDeadJobs(NotifyByPids(W.tab, shown)), sig |-> W.sig, os |-> W.os,
             kids |-> W.kids, pend |-> W.pend, notices |-> n]
    BY DEF CleanedUp
  <2>3. EmitNotices(W, S) = [W EXCEPT !.notices = n,
                                      !.tab = CleanupDeadJobs(NotifyByPids(W.tab, shown))]
    BY <1>3 DEF EmitNotices, shown, n
  <2>4. EmitNotices(W, S) = V
    BY <2>0, <2>2, <2>3, ExceptNotices
  <2> HIDE DEF W2
  <2>5. /\ Sound(V, real, rel, asm, tol, {})
        /\ V.sig = W2.sig /\ V.os = W2.os /\ V.kids = W2.kids /\ V.pend = W2.pend
    BY <2>1, CleanedUpSound
  <2> QED
    BY <2>1, <2>4, <2>5
<1> QED
  BY <1>2, <1>3

-----------------------------------------------------------------------------
(* The invariant of the shell. *)

\* What a wait in progress relies on: its operands are processes that were
\* started, those it could not resolve were let go, and what is stashed is
\* of jobs recorded stopped.
PcOK(c, W, rel) ==
    \/ c \in {Reading, Executing}
    \/ /\ c = [at |-> "wait", todo |-> c.todo, bare |-> c.bare, force |-> c.force,
               old |-> c.old, unknown |-> c.unknown]
       /\ c.todo \in Seq(Pids) /\ \A i \in DOMAIN c.todo : W.os[c.todo[i]] # "unborn"
       /\ ~c.force => c.unknown \subseteq rel
       /\ PendStopped(W)
    \/ c = [at |-> "any", candidates |-> c.candidates, old |-> c.old]
    \/ /\ c = [at |-> "fg", pid |-> c.pid]
       /\ c.pid \in Pids /\ c.pid \in W.kids \cup DOMAIN W.tab.done

\* The last answer was right when it was given, and what made it right stays.
AnsOK(a, O, re, rel, asm) ==
    /\ a.kind \in {"status", "any"} =>
          /\ a.pid \in Pids
          /\ \/ O[a.pid] = "reaped" /\ a.status = re[a.pid]
             \/ a.pid \in asm /\ a.status = 0
    /\ a.kind = "notfound" /\ ~a.forced => a.pid \in rel

\* The inductive invariant of the shell.
ShellInv ==
    /\ Sound(Now, real, released, assumed, told, {})
    /\ PcOK(pc, Now, released)
    /\ AnsOK(ans, os, real, released, assumed)

LEMMA OnwardSame ==
    ASSUME NEW O, NEW P, SameLife(O, P)
    PROVE  Onward(O, P)
BY DEF SameLife, Onward

LEMMA AnsStays ==
    ASSUME NEW a, NEW O, NEW P, NEW re, NEW re2, NEW rel, NEW rel2, NEW asm, NEW asm2,
           AnsOK(a, O, re, rel, asm), Onward(O, P), rel \subseteq rel2, asm \subseteq asm2,
           \A p \in Pids : O[p] = "reaped" => re2[p] = re[p]
    PROVE  AnsOK(a, P, re2, rel2, asm2)
BY DEF AnsOK, Onward

\* A world of the right form is where its fields say.
LEMMA Arrives ==
    ASSUME NEW W, NEW re, WorldOK(W, re), Becomes(W)
    PROVE  Now' = W
<1>1. W = [tab |-> W.tab, sig |-> W.sig, os |-> W.os, kids |-> W.kids, pend |-> W.pend,
           notices |-> W.notices]
  BY DEF WorldOK
<1>2. Now' = [tab |-> W.tab, sig |-> W.sig, os |-> W.os, kids |-> W.kids, pend |-> W.pend,
              notices |-> W.notices]
  BY DEF Now, Becomes
<1> QED
  BY <1>1, <1>2

LEMMA NowFields ==
    /\ Now.tab = table /\ Now.sig = sig /\ Now.os = os /\ Now.kids = kids
    /\ Now.pend = pend /\ Now.notices = notices
BY DEF Now

\* A step is sound when the world it leads to is.
LEMMA Lands ==
    ASSUME NEW W, Sound(W, real', released', assumed', told', {}), Now' = W,
           PcOK(pc', W, released'), AnsOK(ans', W.os, real', released', assumed')
    PROVE  ShellInv'
<1>1. W.os = os'
  BY DEF Now
<1> QED
  BY <1>1 DEF ShellInv

-----------------------------------------------------------------------------
(* What the builtins do to a world. *)

\* The end of every wait: its own notices are printed.
LEMMA DrainSound ==
    ASSUME NEW W, NEW rel, NEW asm, NEW tol, NEW old, Sound(W, real, rel, asm, tol, {}),
           \A p \in PrintedSince(W, old) \cap DOMAIN W.tab.p2j :
               W.os[p] = "reaped" /\ p \notin W.pend => p \in tol
    PROVE  LET V == DrainNotices(W, old)
           IN  /\ Sound(V, real, rel, asm, tol, {})
               /\ V.os = W.os /\ V.pend = W.pend
<1> DEFINE S == PrintedSince(W, old)
           n == W.notices \cap old
           V == [tab |-> NotifyByPids(W.tab, S), sig |-> W.sig, os |-> W.os, kids |-> W.kids,
                 pend |-> W.pend, notices |-> n]
<1>1. WorldOK(W, real)
  BY DEF Sound
<1>2. DrainNotices(W, old) = [W EXCEPT !.tab = NotifyByPids(W.tab, S), !.notices = n]
  BY DEF DrainNotices
<1> HIDE DEF n, S
<1>3. DrainNotices(W, old) = V
  BY <1>1, <1>2, ExceptNotices
<1>4. /\ Sound(V, real, rel, asm, tol, {})
      /\ V.os = W.os /\ V.pend = W.pend
  BY NotifySound DEF S
<1> HIDE DEF V
<1> QED
  BY <1>3, <1>4

\* A world in the form of a record, from its fields.
LEMMA WorldFrom ==
    ASSUME NEW re, NEW W, WorldOK(W, re), NEW V, NEW U, NEW k, NEW n, Single(U), k \subseteq Pids,
           V = [tab |-> U, sig |-> W.sig, os |-> W.os, kids |-> k, pend |-> W.pend, notices |-> n]
    PROVE  /\ WorldOK(V, re)
           /\ V.tab = U /\ V.sig = W.sig /\ V.os = W.os /\ V.kids = k /\ V.pend = W.pend
           /\ V.notices = n
<1>1. /\ V.tab = U /\ V.sig = W.sig /\ V.os = W.os /\ V.kids = k /\ V.pend = W.pend
      /\ V.notices = n
      /\ V = [tab |-> V.tab, sig |-> V.sig, os |-> V.os, kids |-> V.kids, pend |-> V.pend,
              notices |-> V.notices]
  OBVIOUS
<1> QED
  BY <1>1 DEF WorldOK

\* A job whose status is saved is taken out of the table.
LEMMA RemoveSound ==
    ASSUME NEW W, NEW V, NEW re, NEW rel, NEW asm, NEW tol, NEW p,
           Sound(W, re, rel, asm, tol, {}), WorldOK(V, re), p \in DOMAIN W.tab.done,
           W.os[p] = "reaped" /\ p \notin W.pend /\ p \in DOMAIN W.tab.p2j => p \in tol,
           V.tab = RemoveJobByPidPreserveStatus(W.tab, p), V.sig = W.sig, V.os = W.os,
           V.kids = W.kids \ {p}, V.pend = W.pend
    PROVE  Sound(V, re, rel, asm, tol, {})
<1>1. Single(W.tab)
  BY DEF Sound, WorldOK
<1>2. /\ V.tab.done = W.tab.done /\ DOMAIN V.tab.p2j = DOMAIN W.tab.p2j \ {p}
      /\ \A q \in DOMAIN V.tab.p2j : St(V.tab, q) = St(W.tab, q) /\ Noted(V.tab, q) = Noted(W.tab, q)
  BY <1>1, RemoveEffect DEF SameEntry
<1>3. p \in DOMAIN W.tab.p2j => W.os[p] = "reaped" /\ p \notin W.pend /\ p \in tol
  BY DEF Sound, StatusTrue, AssumedGone
<1>4. KidsLive(V) /\ PendReaped(V) /\ EntriesBorn(V)
  BY <1>2 DEF Sound, KidsLive, PendReaped, EntriesBorn
<1>5. StatusTrue(V, re, asm) /\ DeadEntries(V) /\ AssumedGone(V, asm)
  BY <1>2 DEF Sound, StatusTrue, DeadEntries, AssumedGone
<1>6. Accounted(V, rel \cup {})
  BY <1>2 DEF Sound, Accounted
<1>7. DeadListed(V, tol)
  BY <1>2, <1>3 DEF Sound, DeadListed
<1>8. NotedTold(V, tol \cup {}) /\ Watched(V, {})
  BY <1>2 DEF Sound, NotedTold, Watched
<1> QED
  BY <1>4, <1>5, <1>6, <1>7, <1>8 DEF Sound

\* The handle of a process whose status is saved is no longer needed.
LEMMA DropHandleSound ==
    ASSUME NEW W, NEW V, NEW re, NEW rel, NEW asm, NEW tol, NEW p,
           Sound(W, re, rel, asm, tol, {}), WorldOK(V, re), p \in DOMAIN W.tab.done,
           V.tab = W.tab, V.sig = W.sig, V.os = W.os, V.kids = W.kids \ {p}, V.pend = W.pend
    PROVE  Sound(V, re, rel, asm, tol, {}) /\ p \notin W.kids
<1>1. p \notin W.kids
  BY DEF Sound, StatusTrue, AssumedGone, KidsLive, Exists
<1>2. V.kids = W.kids
  BY <1>1
<1>3. KidsLive(V) /\ PendReaped(V) /\ EntriesBorn(V)
  BY <1>2 DEF Sound, KidsLive, PendReaped, EntriesBorn
<1>4. StatusTrue(V, re, asm) /\ DeadEntries(V) /\ AssumedGone(V, asm)
  BY <1>2 DEF Sound, StatusTrue, DeadEntries, AssumedGone
<1>5. Accounted(V, rel \cup {}) /\ DeadListed(V, tol)
  BY <1>2 DEF Sound, Accounted, DeadListed
<1>6. NotedTold(V, tol \cup {}) /\ Watched(V, {})
  BY <1>2 DEF Sound, NotedTold, Watched
<1> QED
  BY <1>1, <1>3, <1>4, <1>5, <1>6 DEF Sound

\* Dead jobs are notified and cleaned up at once.
LEMMA DiscardSound ==
    ASSUME NEW W, NEW V, NEW re, NEW rel, NEW asm, NEW tol, NEW D,
           Sound(W, re, rel, asm, tol, {}), WorldOK(V, re), D \subseteq InState(W.tab, "Completed"),
           V.tab = CleanupDeadJobs(NotifyJobs(W.tab, D)),
           DOMAIN W.tab.p2j \ DOMAIN V.tab.p2j \subseteq tol,
           V.sig = W.sig, V.os = W.os, V.kids = W.kids, V.pend = W.pend
    PROVE  Sound(V, re, rel, asm, tol, {}) /\ V.tab.done = W.tab.done
<1> DEFINE N == NotifyJobs(W.tab, D)
           W1 == [tab |-> N, sig |-> W.sig, os |-> W.os, kids |-> W.kids, pend |-> W.pend,
                  notices |-> W.notices]
<1>1. WorldOK(W, re) /\ Single(W.tab) /\ W.kids \subseteq Pids
  BY DEF Sound, WorldOK
<1>2. /\ Single(N) /\ N.done = W.tab.done /\ N.p2j = W.tab.p2j
      /\ \A p \in DOMAIN W.tab.p2j : /\ St(N, p) = St(W.tab, p)
                                     /\ Noted(N, p) <=> Noted(W.tab, p) \/ W.tab.p2j[p] \in D
  BY <1>1, NotifyEffect
<1>3. /\ V.tab.done = N.done
      /\ DOMAIN V.tab.p2j = {p \in DOMAIN N.p2j : ~(St(N, p) = "Completed" /\ Noted(N, p))}
  BY <1>2, CleanupEffect
<1> HIDE DEF N
<1>4. /\ WorldOK(W1, re) /\ W1.tab = N /\ W1.sig = W.sig /\ W1.os = W.os /\ W1.kids = W.kids
      /\ W1.pend = W.pend
  BY <1>1, <1>2, WorldFrom
<1>5. ASSUME NEW p \in DOMAIN W.tab.p2j, W.tab.p2j[p] \in D
      PROVE  p \in tol
  <2>1. St(W.tab, p) = "Completed"
    BY <1>1, <1>5, SingleState DEF InState
  <2> QED
    BY <1>2, <1>3, <1>5, <2>1
<1> HIDE DEF W1
<1>6. \A p \in DOMAIN W.tab.p2j : /\ St(W1.tab, p) = St(W.tab, p)
                                  /\ Noted(W1.tab, p) /\ W.os[p] = "reaped" /\ p \notin W.pend =>
                                        Noted(W.tab, p) \/ p \in tol
  BY <1>2, <1>4, <1>5
<1>7. Sound(W1, re, rel, asm, tol, {})
  BY <1>2, <1>4, <1>6, FlagSound
<1>8. Sound(V, re, rel, asm, tol, {})
  BY <1>4, <1>7, CleanupSound DEF N
<1> QED
  BY <1>2, <1>3, <1>8

\* Saved statuses are given up.
LEMMA ClearStatusSound ==
    ASSUME NEW W, NEW V, NEW re, NEW rel, NEW asm, NEW tol,
           Sound(W, re, rel, asm, tol, {}), WorldOK(V, re),
           V.tab = ClearCompletedStatuses(W.tab), DOMAIN W.tab.done \subseteq rel,
           V.sig = W.sig, V.os = W.os, V.kids = W.kids, V.pend = W.pend
    PROVE  Sound(V, re, rel, asm, tol, {})
<1>1. Single(W.tab) /\ IsMap(EmptyFn, Pids, Statuses)
  BY DEF Sound, WorldOK, IsMap, EmptyFn
<1>2. /\ V.tab.done = EmptyFn /\ V.tab.p2j = W.tab.p2j
      /\ \A q : St(V.tab, q) = St(W.tab, q) /\ Noted(V.tab, q) = Noted(W.tab, q)
  BY <1>1, DoneEffect DEF SameEntry, ClearCompletedStatuses
<1>3. KidsLive(V) /\ PendReaped(V) /\ EntriesBorn(V)
  BY <1>2 DEF Sound, KidsLive, PendReaped, EntriesBorn
<1>4. StatusTrue(V, re, asm)
  BY <1>2 DEF StatusTrue, EmptyFn
<1>5. DeadEntries(V) /\ AssumedGone(V, asm) /\ DeadListed(V, tol)
  BY <1>2 DEF Sound, DeadEntries, AssumedGone, DeadListed
<1>6. Accounted(V, rel \cup {})
  BY <1>2 DEF Sound, Accounted
<1>7. NotedTold(V, tol \cup {}) /\ Watched(V, {})
  BY <1>2 DEF Sound, NotedTold, Watched
<1> QED
  BY <1>3, <1>4, <1>5, <1>6, <1>7 DEF Sound

-----------------------------------------------------------------------------
(* wait_for_background_pid *)

\* A world with another table and other handles.
LEMMA ExceptKids ==
    ASSUME NEW W, NEW re, WorldOK(W, re), NEW U, NEW k
    PROVE  [W EXCEPT !.tab = U, !.kids = k] =
               [tab |-> U, sig |-> W.sig, os |-> W.os, kids |-> k, pend |-> W.pend,
                notices |-> W.notices]
<1> DEFINE V == [W EXCEPT !.tab = U, !.kids = k]
<1>1. PICK t, g, o, h, pe, no :
          W = [tab |-> t, sig |-> g, os |-> o, kids |-> h, pend |-> pe, notices |-> no]
  BY DEF WorldOK
<1>2. W.sig = g /\ W.os = o /\ W.pend = pe /\ W.notices = no
  BY <1>1
<1>3. V = [W EXCEPT !.tab = U, !.kids = k]
  OBVIOUS
<1> HIDE DEF V
<1>4. V = [tab |-> U, sig |-> g, os |-> o, kids |-> k, pend |-> pe, notices |-> no]
  BY <1>1, <1>3
<1>5. V = [tab |-> U, sig |-> W.sig, os |-> W.os, kids |-> k, pend |-> W.pend,
           notices |-> W.notices]
  BY <1>2, <1>4
<1> QED
  BY <1>5 DEF V

\* The saved status of a dead job is taken.
LEMMA TakeSound ==
    ASSUME NEW W, NEW rel, NEW asm, NEW tol, NEW p, NEW explicit \in BOOLEAN,
           Sound(W, real, rel, asm, tol, {}), p \in DOMAIN W.tab.done,
           W.os[p] = "reaped" /\ p \notin W.pend /\ p \in DOMAIN W.tab.p2j => p \in tol
    PROVE  LET V == TakeSavedStatus(W, p, explicit)
           IN  /\ Sound(V, real, rel, asm, tol, {})
               /\ V.os = W.os /\ V.pend = W.pend /\ V.tab.done = W.tab.done
               /\ DOMAIN V.tab.p2j \subseteq DOMAIN W.tab.p2j
               /\ PendStopped(W) => PendStopped(V)
<1> DEFINE C == CleanedUp(W)
           T == CleanupDeadJobs(W.tab)
           X == IF explicit THEN MarkJobNotifiedByPid(T, p) ELSE T
           W2 == [tab |-> NotifyByPids(C.tab, {p}), sig |-> C.sig, os |-> C.os, kids |-> C.kids,
                  pend |-> C.pend, notices |-> W.notices]
           W3 == IF explicit THEN W2 ELSE C
           V == TakeSavedStatus(W, p, explicit)
<1>1. WorldOK(W, real) /\ Single(W.tab) /\ W.kids \subseteq Pids
  BY DEF Sound, WorldOK
<1>2. /\ Sound(C, real, rel, asm, tol, {}) /\ C.tab = T
      /\ C.sig = W.sig /\ C.os = W.os /\ C.kids = W.kids /\ C.pend = W.pend
      /\ C.notices = W.notices
  BY CleanedUpSound
<1>3. /\ Single(T) /\ T.done = W.tab.done
      /\ DOMAIN T.p2j = {q \in DOMAIN W.tab.p2j : ~(St(W.tab, q) = "Completed" /\ Noted(W.tab, q))}
      /\ \A q \in DOMAIN T.p2j : St(T, q) = St(W.tab, q)
  BY <1>1, CleanupEffect DEF SameEntry
<1> HIDE DEF T, C
<1>4. /\ Sound(W2, real, rel, asm, tol, {})
      /\ W2.sig = C.sig /\ W2.os = C.os /\ W2.kids = C.kids /\ W2.pend = C.pend
      /\ W2.tab = NotifyByPids(C.tab, {p})
  <2>1. \A q \in {p} \cap DOMAIN C.tab.p2j : C.os[q] = "reaped" /\ q \notin C.pend => q \in tol
    BY <1>2, <1>3
  <2> QED
    BY <1>2, <2>1, NotifySound
<1> HIDE DEF W2
<1>5. /\ Sound(W3, real, rel, asm, tol, {}) /\ W3.tab = X
      /\ W3.sig = W.sig /\ W3.os = W.os /\ W3.kids = W.kids /\ W3.pend = W.pend
  BY <1>2, <1>4 DEF MarkJobNotifiedByPid
<1>6. /\ Single(X) /\ X.done = W.tab.done /\ X.p2j = T.p2j
      /\ \A q \in DOMAIN T.p2j : St(X, q) = St(T, q)
  BY <1>3, NotifyByPidsEffect DEF MarkJobNotifiedByPid
<1> HIDE DEF W3
<1>7. V = [W EXCEPT !.tab = X, !.kids = W.kids \ {p}]
  BY DEF TakeSavedStatus, T
<1> HIDE DEF X, V
<1>8. V = [tab |-> X, sig |-> W.sig, os |-> W.os, kids |-> W.kids \ {p}, pend |-> W.pend,
           notices |-> W.notices]
  BY <1>1, <1>7, ExceptKids
<1>9. W.kids \ {p} \subseteq Pids
  BY <1>1
<1>10. /\ WorldOK(V, real) /\ V.tab = X /\ V.sig = W.sig /\ V.os = W.os /\ V.kids = W.kids \ {p}
       /\ V.pend = W.pend
  BY <1>1, <1>6, <1>8, <1>9, WorldFrom
<1>11. Sound(V, real, rel, asm, tol, {})
  <2>1. p \in DOMAIN W3.tab.done
    BY <1>5, <1>6
  <2> QED
    BY <1>5, <1>10, <2>1, DropHandleSound
<1>12. PendStopped(W) => PendStopped(V)
  BY <1>3, <1>6, <1>10 DEF PendStopped
<1>13. DOMAIN V.tab.p2j \subseteq DOMAIN W.tab.p2j
  BY <1>3, <1>6, <1>10
<1> QED
  BY <1>6, <1>10, <1>11, <1>12, <1>13 DEF V

\* The wait itself collects the child and publishes its death.
LEMMA CollectSound ==
    ASSUME NEW W, NEW V, NEW rel, NEW asm, NEW tol, NEW p \in W.kids,
           W.os[p] = "zombie", Sound(W, real, rel, asm, tol, {}), p \in tol,
           V = [tab |-> V.tab, sig |-> V.sig, os |-> V.os, kids |-> V.kids, pend |-> V.pend,
                notices |-> V.notices],
           V.tab = MarkCompleted(W.tab, p, real[p]), V.sig = W.sig, V.os = Reaped(W.os, {p}),
           V.kids = W.kids \ {p}, V.pend = W.pend
    PROVE  /\ Sound(V, real, rel, asm, tol, {})
           /\ Onward(W.os, V.os) /\ V.os[p] = "reaped"
           /\ PendStopped(W) => PendStopped(V)
<1> DEFINE U == MarkCompleted(W.tab, p, real[p])
           O == Reaped(W.os, {p})
<1>1. /\ WorldOK(W, real) /\ Single(W.tab) /\ W.kids \subseteq Pids /\ W.pend \subseteq Pids
      /\ W.os \in [Pids -> OsStates]
  BY DEF Sound, WorldOK
<1>2. p \in Pids /\ real[p] \in Statuses /\ p \in DOMAIN W.tab.p2j /\ p \notin W.pend
  BY <1>1 DEF Sound, WorldOK, KidsLive, PendReaped
<1>3. /\ Single(U) /\ U.done = Put(W.tab.done, p, real[p]) /\ U.p2j = W.tab.p2j
      /\ \A q \in DOMAIN W.tab.p2j : q # p => SameEntry(W.tab, U, q)
      /\ St(U, p) = "Completed" /\ ~Noted(U, p)
  BY <1>1, <1>2, CompleteEffect
<1>4. /\ DOMAIN U.done = DOMAIN W.tab.done \cup {p} /\ U.done[p] = real[p]
      /\ \A q \in DOMAIN W.tab.done : q # p => U.done[q] = W.tab.done[q]
  BY <1>3 DEF Put
<1>5. /\ O \in [Pids -> OsStates] /\ O[p] = "reaped"
      /\ \A q \in Pids : q # p => O[q] = W.os[q]
  BY <1>1, <1>2 DEF Reaped, OsStates
<1>6. DOMAIN W.tab.p2j \subseteq Pids /\ DOMAIN W.tab.done \subseteq Pids
  BY <1>1, TableKeys
<1> HIDE DEF U, O
<1>7. V.tab = U /\ V.os = O
  BY DEF U, O
<1>8. WorldOK(V, real)
  <2>1. \A q \in Pids : O[q] \in {"zombie", "reaped"} => real[q] \in Statuses
    BY <1>1, <1>2, <1>5 DEF WorldOK
  <2> QED
    BY <1>1, <1>3, <1>5, <1>7, <2>1 DEF WorldOK
<1>9. KidsLive(V) /\ PendReaped(V)
  BY <1>1, <1>2, <1>3, <1>5, <1>7 DEF Sound, KidsLive, PendReaped
<1>10. EntriesBorn(V)
  BY <1>3, <1>5, <1>6, <1>7 DEF Sound, EntriesBorn
<1>11. StatusTrue(V, real, asm)
  BY <1>2, <1>4, <1>5, <1>6, <1>7 DEF Sound, StatusTrue
<1>12. DeadEntries(V)
  BY <1>2, <1>3, <1>5, <1>6, <1>7 DEF Sound, DeadEntries, SameEntry
<1>13. Accounted(V, rel \cup {})
  BY <1>4, <1>5, <1>7 DEF Sound, Accounted
<1>14. AssumedGone(V, asm)
  BY <1>3, <1>5, <1>7 DEF Sound, AssumedGone
<1>15. DeadListed(V, tol)
  BY <1>2, <1>3, <1>5, <1>7 DEF Sound, DeadListed
<1>16. NotedTold(V, tol \cup {})
  BY <1>3, <1>5, <1>6, <1>7 DEF Sound, NotedTold, SameEntry
<1>17. Watched(V, {})
  BY <1>3, <1>7 DEF Sound, Watched, SameEntry
<1>18. Onward(W.os, V.os)
  BY <1>5, <1>7 DEF Onward
<1>19. PendStopped(W) => PendStopped(V)
  BY <1>2, <1>3, <1>7 DEF PendStopped, SameEntry
<1>20. Sound(V, real, rel, asm, tol, {})
  BY <1>8, <1>9, <1>10, <1>11, <1>12, <1>13, <1>14, <1>15, <1>16, <1>17 DEF Sound
<1> QED
  BY <1>5, <1>7, <1>18, <1>19, <1>20

LEMMA ReapByWaitSound ==
    ASSUME NEW W, NEW rel, NEW asm, NEW tol, NEW p \in W.kids, W.os[p] = "zombie",
           Sound(W, real, rel, asm, tol, {}), p \in tol
    PROVE  LET V == ReapByWait(W, p)
           IN  /\ Sound(V, real, rel, asm, tol, {})
               /\ Onward(W.os, V.os) /\ V.os[p] = "reaped" /\ V.pend = W.pend
               /\ p \in DOMAIN V.tab.done /\ V.tab.done[p] = real[p]
               /\ PendStopped(W) => PendStopped(V)
<1> DEFINE M == MarkCompleted(W.tab, p, real[p])
           n == IF Signalled(p) THEN W.notices \cup {p} ELSE W.notices
           O == Reaped(W.os, {p})
           k == W.kids \ {p}
           W1 == [tab |-> M, sig |-> W.sig, os |-> O, kids |-> k, pend |-> W.pend, notices |-> n]
           C == CleanedUp(W1)
           U == MarkJobNotifiedByPid(CleanupDeadJobs(M), p)
           W3 == [tab |-> NotifyByPids(C.tab, {p}), sig |-> C.sig, os |-> C.os, kids |-> C.kids,
                  pend |-> C.pend, notices |-> n]
           V == ReapByWait(W, p)
<1>1. /\ WorldOK(W, real) /\ Single(W.tab) /\ W.kids \subseteq Pids
      /\ p \in Pids /\ real[p] \in Statuses
  BY DEF Sound, WorldOK
<1>2. V = [W EXCEPT !.tab = U, !.notices = n, !.os = O, !.kids = k]
  BY DEF ReapByWait
<1> HIDE DEF n
<1>3. /\ Sound(W1, real, rel, asm, tol, {})
      /\ W1.tab = M /\ W1.sig = W.sig
      /\ W1.os = O /\ W1.kids = k /\ W1.pend = W.pend /\ W1.notices = n
      /\ Onward(W.os, W1.os) /\ W1.os[p] = "reaped"
      /\ PendStopped(W) => PendStopped(W1)
  <2>1. /\ W1.tab = M /\ W1.sig = W.sig /\ W1.os = O /\ W1.kids = k /\ W1.pend = W.pend
        /\ W1.notices = n
        /\ W1 = [tab |-> W1.tab, sig |-> W1.sig, os |-> W1.os, kids |-> W1.kids, pend |-> W1.pend,
                 notices |-> W1.notices]
    <3> HIDE DEF M, O, k
    <3> QED
      OBVIOUS
  <2> HIDE DEF W1
  <2>2. /\ Sound(W1, real, rel, asm, tol, {})
        /\ Onward(W.os, W1.os) /\ W1.os[p] = "reaped"
        /\ PendStopped(W) => PendStopped(W1)
    BY <2>1, CollectSound
  <2> QED
    BY <2>1, <2>2
<1>4. Single(M) /\ M.done = Put(W.tab.done, p, real[p])
  BY <1>1, CompleteEffect
<1>5. /\ Single(CleanupDeadJobs(M)) /\ CleanupDeadJobs(M).done = M.done
      /\ DOMAIN CleanupDeadJobs(M).p2j =
             {q \in DOMAIN M.p2j : ~(St(M, q) = "Completed" /\ Noted(M, q))}
      /\ \A q \in DOMAIN CleanupDeadJobs(M).p2j : SameEntry(M, CleanupDeadJobs(M), q)
  BY <1>4, CleanupEffect
<1>6. p \in DOMAIN M.done /\ M.done[p] = real[p]
  BY <1>4 DEF Put
<1> HIDE DEF M, O, k, W1
<1>7. /\ Sound(C, real, rel, asm, tol, {}) /\ C.tab = CleanupDeadJobs(M)
      /\ C.sig = W.sig /\ C.os = O /\ C.kids = k /\ C.pend = W.pend /\ C.notices = n
  BY <1>3, CleanedUpSound
<1> HIDE DEF C
<1>8. /\ Sound(W3, real, rel, asm, tol, {})
      /\ W3.sig = C.sig /\ W3.os = C.os /\ W3.kids = C.kids /\ W3.pend = C.pend
      /\ W3.tab = NotifyByPids(C.tab, {p})
  BY <1>7, NotifySound
<1>9. W3 = [tab |-> U, sig |-> W.sig, os |-> O, kids |-> k, pend |-> W.pend, notices |-> n]
  BY <1>7 DEF MarkJobNotifiedByPid
<1>10. U.done = M.done /\ U.p2j = CleanupDeadJobs(M).p2j
       /\ \A q \in DOMAIN CleanupDeadJobs(M).p2j : St(U, q) = St(CleanupDeadJobs(M), q)
  BY <1>5, NotifyByPidsEffect DEF MarkJobNotifiedByPid
<1> HIDE DEF W3, U, V
<1>11. V = W3
  <2>1. PICK t, g, o, h, pe, no :
            W = [tab |-> t, sig |-> g, os |-> o, kids |-> h, pend |-> pe, notices |-> no]
    BY <1>1 DEF WorldOK
  <2>2. W.sig = g /\ W.pend = pe
    BY <2>1
  <2>3. V = [tab |-> U, sig |-> g, os |-> O, kids |-> k, pend |-> pe, notices |-> n]
    BY <1>2, <2>1
  <2> QED
    BY <1>9, <2>2, <2>3
<1>12. V.tab = U /\ V.pend = W.pend /\ V.os = O
  BY <1>9, <1>11
<1>13. PendStopped(W1) => PendStopped(V)
  BY <1>3, <1>5, <1>10, <1>12 DEF PendStopped, SameEntry
<1> QED
  BY <1>3, <1>6, <1>8, <1>10, <1>11, <1>12, <1>13 DEF V

\* What a wait for one process comes to.
Waited(W, R, p, force, rel, asm, tol) ==
    /\ Sound(R.after, real, rel, asm, tol, {})
    /\ Onward(W.os, R.after.os)
    /\ PendStopped(W) => PendStopped(R.after)
    /\ R.kind \in {"stopped", "status", "notfound", "blocked"}
    /\ R.kind # "status" => R.after = W
    /\ R.kind = "status" =>
          /\ p \in DOMAIN R.after.tab.done
          /\ p \in DOMAIN R.after.tab.p2j => p \in DOMAIN W.tab.p2j
          /\ \/ R.after.os[p] = "reaped" /\ R.status = real[p]
             \/ p \in asm /\ R.status = 0
    /\ R.kind = "notfound" => /\ p \notin DOMAIN W.tab.done \cup W.kids
                              /\ force \/ ~JobRecordedStopped(W.tab, p)

LEMMA WaitOutcome ==
    ASSUME NEW W, NEW rel, NEW asm, NEW tol, NEW p \in Pids, NEW explicit \in BOOLEAN, NEW force,
           Sound(W, real, rel, asm, tol, {}),
           NEW R, R = WaitForBackgroundPid(W, p, explicit, force),
           (R.kind = "status" /\ p \in DOMAIN W.tab.p2j /\ R.after.os[p] = "reaped"
                /\ p \notin R.after.pend) => p \in tol
    PROVE  Waited(W, R, p, force, rel, asm, tol)
<1>1. CASE ~force /\ JobRecordedStopped(W.tab, p)
  <2>1. R = [kind |-> "stopped", after |-> W, status |-> NoStatus]
    BY <1>1 DEF WaitForBackgroundPid, Outcome
  <2>2. R.kind = "stopped" /\ R.after = W
    BY <2>1
  <2> QED
    BY <2>2 DEF Onward, Waited
<1>2. CASE ~(~force /\ JobRecordedStopped(W.tab, p)) /\ p \in DOMAIN W.tab.done
  <2> DEFINE V == TakeSavedStatus(W, p, explicit)
  <2>1. R = [kind |-> "status", after |-> V, status |-> W.tab.done[p]]
    BY <1>2 DEF WaitForBackgroundPid, Outcome
  <2> HIDE DEF V
  <2>2. R.kind = "status" /\ R.after = V /\ R.status = W.tab.done[p]
    BY <2>1
  <2>3. V.os = W.os /\ V.pend = W.pend
    <3>1. PICK t, g, o, h, pe, no :
              W = [tab |-> t, sig |-> g, os |-> o, kids |-> h, pend |-> pe, notices |-> no]
      BY DEF Sound, WorldOK
    <3>2. \E U, k : V = [W EXCEPT !.tab = U, !.kids = k]
      BY DEF V, TakeSavedStatus
    <3> QED
      BY <3>1, <3>2
  <2>4. /\ Sound(V, real, rel, asm, tol, {}) /\ V.tab.done = W.tab.done
        /\ DOMAIN V.tab.p2j \subseteq DOMAIN W.tab.p2j
        /\ PendStopped(W) => PendStopped(V)
    <3>1. W.os[p] = "reaped" /\ p \notin W.pend /\ p \in DOMAIN W.tab.p2j => p \in tol
      BY <2>2, <2>3
    <3>2. /\ Sound(V, real, rel, asm, tol, {}) /\ V.tab.done = W.tab.done
          /\ PendStopped(W) => PendStopped(V)
      BY <1>2, <3>1, TakeSound DEF V
    <3>3. DOMAIN V.tab.p2j \subseteq DOMAIN W.tab.p2j
      BY <1>2, <3>1, TakeSound DEF V
    <3> QED
      BY <3>2, <3>3
  <2>5. \/ W.os[p] = "reaped" /\ W.tab.done[p] = real[p]
        \/ p \in asm /\ W.tab.done[p] = 0
    BY <1>2 DEF Sound, StatusTrue
  <2> QED
    BY <1>2, <2>2, <2>3, <2>4, <2>5 DEF Onward, Waited
<1>3. CASE /\ ~(~force /\ JobRecordedStopped(W.tab, p))
           /\ p \notin DOMAIN W.tab.done /\ p \notin W.kids
  <2>1. R = [kind |-> "notfound", after |-> W, status |-> NoStatus]
    BY <1>3 DEF WaitForBackgroundPid, Outcome
  <2>2. R.kind = "notfound" /\ R.after = W
    BY <2>1
  <2> QED
    BY <1>3, <2>2 DEF Onward, Waited
<1>4. CASE /\ ~(~force /\ JobRecordedStopped(W.tab, p))
           /\ p \notin DOMAIN W.tab.done /\ p \in W.kids /\ W.os[p] = "zombie"
  <2> DEFINE V == ReapByWait(W, p)
  <2>1. R = [kind |-> "status", after |-> V, status |-> real[p]]
    BY <1>4 DEF WaitForBackgroundPid, Outcome
  <2> HIDE DEF V
  <2>2. R.kind = "status" /\ R.after = V /\ R.status = real[p]
    BY <2>1
  <2>3. V.os = Reaped(W.os, {p}) /\ V.pend = W.pend
    <3>1. PICK t, g, o, h, pe, no :
              W = [tab |-> t, sig |-> g, os |-> o, kids |-> h, pend |-> pe, notices |-> no]
      BY DEF Sound, WorldOK
    <3>2. \E U, n, k, O : /\ O = Reaped(W.os, {p})
                          /\ V = [W EXCEPT !.tab = U, !.notices = n, !.os = O, !.kids = k]
      BY DEF V, ReapByWait
    <3> QED
      BY <3>1, <3>2
  <2>4. p \in DOMAIN W.tab.p2j /\ p \notin W.pend
    BY <1>4 DEF Sound, KidsLive, PendReaped
  <2>5. V.os[p] = "reaped"
    BY <2>3 DEF Reaped, Sound, WorldOK
  <2>6. p \in tol
    BY <2>2, <2>3, <2>4, <2>5
  <2>7. /\ Sound(V, real, rel, asm, tol, {}) /\ Onward(W.os, V.os)
        /\ p \in DOMAIN V.tab.done
        /\ PendStopped(W) => PendStopped(V)
    BY <1>4, <2>6, ReapByWaitSound DEF V
  <2> QED
    BY <2>2, <2>4, <2>5, <2>7 DEF Waited
<1>5. CASE /\ ~(~force /\ JobRecordedStopped(W.tab, p))
           /\ p \notin DOMAIN W.tab.done /\ p \in W.kids /\ W.os[p] # "zombie"
  <2>1. R = [kind |-> "blocked", after |-> W, status |-> NoStatus]
    BY <1>5 DEF WaitForBackgroundPid, Outcome
  <2>2. R.kind = "blocked" /\ R.after = W
    BY <2>1
  <2> QED
    BY <2>2 DEF Onward, Waited
<1> QED
  BY <1>1, <1>2, <1>3, <1>4, <1>5

-----------------------------------------------------------------------------
(* The order of a wait without operands. *)

Sorted(S, s) ==
    s \in [1..Cardinality(S) -> S] /\ \A i, j \in DOMAIN s : i < j => s[i] < s[j]

LEMMA SortedOneMore ==
    ASSUME NEW S, IsFiniteSet(S), S \subseteq Nat, NEW x \in S, \A y \in S : x <= y,
           NEW t, Sorted(S \ {x}, t)
    PROVE  \E s : Sorted(S, s)
<1> DEFINE n == Cardinality(S)
           s == [i \in 1..n |-> IF i = 1 THEN x ELSE t[i - 1]]
<1>1. n \in Nat /\ Cardinality(S \ {x}) = n - 1
  BY FS_RemoveElement, FS_CardinalityType
<1> HIDE DEF n
<1>2. t \in [1..(n - 1) -> S \ {x}] /\ \A i, j \in 1..(n - 1) : i < j => t[i] < t[j]
  BY <1>1 DEF Sorted
<1>3. \A i \in 1..n : i # 1 => i - 1 \in 1..(n - 1)
  BY <1>1
<1>4. s \in [1..n -> S]
  BY <1>2, <1>3
<1>5. ASSUME NEW i \in 1..n, NEW j \in 1..n, i < j PROVE s[i] < s[j]
  <2>1. j # 1 /\ j - 1 \in 1..(n - 1) /\ s[j] = t[j - 1] /\ t[j - 1] \in S \ {x}
    BY <1>1, <1>2, <1>5
  <2>2. CASE i = 1
    <3>1. s[i] = x /\ x <= t[j - 1] /\ x # t[j - 1] /\ x \in Nat /\ t[j - 1] \in Nat
      BY <2>1, <2>2
    <3> QED
      BY <2>1, <3>1
  <2>3. CASE i # 1
    <3>1. i - 1 \in 1..(n - 1) /\ s[i] = t[i - 1] /\ i - 1 < j - 1
      BY <1>1, <1>5, <2>3
    <3> QED
      BY <1>2, <2>1, <3>1
  <2> QED
    BY <2>2, <2>3
<1>6. Sorted(S, s)
  BY <1>4, <1>5 DEF Sorted, n
<1> QED
  BY <1>6

\* A finite set of numbers can be put in order.
LEMMA SortedExists ==
    ASSUME NEW A, IsFiniteSet(A), A \subseteq Nat
    PROVE  \E s : Sorted(A, s)
<1> DEFINE Fails(n) == \E S : /\ IsFiniteSet(S) /\ S \subseteq Nat /\ Cardinality(S) = n
                              /\ ~\E s : Sorted(S, s)
           bad == {n \in Nat : Fails(n)}
<1>1. bad = {}
  <2> SUFFICES ASSUME bad # {} PROVE FALSE
    OBVIOUS
  <2>1. PICK n \in bad : \A y \in bad : n <= y
    <3>1. bad \subseteq Nat
      OBVIOUS
    <3> HIDE DEF bad
    <3> QED
      BY <3>1, LeastNat
  <2>2. n \in Nat
    BY <2>1
  <2>3. PICK S : /\ IsFiniteSet(S) /\ S \subseteq Nat /\ Cardinality(S) = n
                 /\ ~\E s : Sorted(S, s)
    BY <2>1
  <2>4. CASE S = {}
    <3>1. Cardinality(S) = 0
      BY <2>4, FS_EmptySet
    <3>2. Sorted(S, [i \in 1..0 |-> i])
      BY <3>1 DEF Sorted
    <3> QED
      BY <2>3, <3>2
  <2>5. CASE S # {}
    <3>1. PICK x \in S : \A y \in S : x <= y
      BY <2>3, <2>5, LeastNat
    <3>2. IsFiniteSet(S \ {x}) /\ Cardinality(S \ {x}) = n - 1 /\ S \ {x} \subseteq Nat
      BY <2>3, <3>1, FS_RemoveElement
    <3>3. n - 1 \in Nat /\ ~(n <= n - 1)
      BY <2>2, <3>2, FS_CardinalityType
    <3>4. ~Fails(n - 1)
      BY <2>1, <3>3
    <3>5. \E t : Sorted(S \ {x}, t)
      BY <3>2, <3>4
    <3>6. \E s : Sorted(S, s)
      BY <2>3, <3>1, <3>5, SortedOneMore
    <3> QED
      BY <2>3, <3>6
  <2> QED
    BY <2>4, <2>5
<1>2. Cardinality(A) \in Nat
  BY FS_CardinalityType
<1>3. ~Fails(Cardinality(A))
  BY <1>1, <1>2
<1> HIDE DEF bad
<1> QED
  BY <1>3

LEMMA AscendingType ==
    ASSUME NEW S, S \subseteq Pids
    PROVE  Ascending(S) \in Seq(S)
<1>1. S \subseteq Nat /\ IsFiniteSet(S)
  BY JobControlAssumption, FS_Subset
<1>2. PICK s : Sorted(S, s)
  BY <1>1, SortedExists
<1>3. Ascending(S) \in [1..Cardinality(S) -> S]
  <2>1. \E t \in [1..Cardinality(S) -> S] : \A i, j \in DOMAIN t : i < j => t[i] < t[j]
    BY <1>2 DEF Sorted
  <2> QED
    BY <2>1, Zenon DEF Ascending
<1>4. Cardinality(S) \in Nat
  BY <1>1, FS_CardinalityType
<1> HIDE DEF Ascending
<1> QED
  BY <1>3, <1>4

\* first_completed_wait_candidate gives a process whose status is saved.
LEMMA FirstCompletedSaved ==
    ASSUME NEW T, Single(T), NEW candidates
    PROVE  FirstCompleted(T, candidates) \subseteq DOMAIN T.done
<1> DEFINE D == CompletedJobs(T, candidates)
           j == CHOOSE j \in D : \A i \in D : j <= i
<1>1. D \subseteq JobIds /\ JobIds \subseteq Nat
  BY DEF CompletedJobs, BackgroundJobs, Single, TableInv, Core, TypeCorrect, IsMap, JobIds
<1>2. D # {} => j \in D
  <2>1. D # {} => \E k \in D : \A i \in D : k <= i
    <3> HIDE DEF D
    <3> QED
      BY <1>1, LeastNat
  <2> HIDE DEF D
  <2> QED
    BY <2>1
<1>3. \A i \in D : T.jobs[i].last \in DOMAIN T.done
  BY DEF CompletedJobs
<1>4. FirstCompleted(T, candidates) = IF D # {} THEN {T.jobs[j].last}
                                      ELSE candidates \cap DOMAIN T.done
  BY DEF FirstCompleted
<1> HIDE DEF D, j
<1> QED
  BY <1>2, <1>3, <1>4

-----------------------------------------------------------------------------
(* The steps of the shell. *)

LEMMA NowForm ==
    /\ Now = [tab |-> table, sig |-> sig, os |-> os, kids |-> kids, pend |-> pend,
              notices |-> notices]
    /\ Now' = [tab |-> table', sig |-> sig', os |-> os', kids |-> kids', pend |-> pend',
               notices |-> notices']
BY DEF Now

\* No answer, and the answer of an earlier wait.
LEMMA NoAnswerOK ==
    ASSUME NEW O, NEW re, NEW rel, NEW asm
    PROVE  AnsOK(NoAnswer, O, re, rel, asm)
<1>1. NoAnswer.kind = "none"
  BY DEF NoAnswer
<1> QED
  BY <1>1 DEF AnsOK

LEMMA IdleOK ==
    ASSUME NEW W, NEW rel
    PROVE  PcOK(Reading, W, rel) /\ PcOK(Executing, W, rel)
BY DEF PcOK

LEMMA InitStep ==
    ASSUME ShellInit
    PROVE  ShellInv
<1>1. Single(EmptyTable)
  <2>1. TableInv(EmptyTable)
    BY EmptyTableOK
  <2>2. DOMAIN EmptyTable.jobs = {}
    BY DEF EmptyTable, EmptyFn
  <2> QED
    BY <2>1, <2>2 DEF Single, OneProcess
<1> DEFINE O == [p \in Pids |-> "unborn"]
<1>2. PICK W : W = [tab |-> EmptyTable, sig |-> [marks |-> << >>, fatal |-> EmptyFn], os |-> O,
                    kids |-> {}, pend |-> {}, notices |-> {}]
  OBVIOUS
<1>3. Now = W
  BY <1>2 DEF ShellInit, Init, Now, NoSignals
<1>4. /\ W.tab = EmptyTable /\ W.sig = [marks |-> << >>, fatal |-> EmptyFn]
      /\ W.os = O /\ W.kids = {} /\ W.pend = {}
      /\ W = [tab |-> W.tab, sig |-> W.sig, os |-> W.os, kids |-> W.kids, pend |-> W.pend,
              notices |-> W.notices]
  BY <1>2
<1>5. W.sig.marks = << >> /\ W.sig = [marks |-> W.sig.marks, fatal |-> W.sig.fatal]
  BY <1>4
<1>6. O \in [Pids -> OsStates] /\ \A p \in Pids : O[p] = "unborn"
  BY DEF OsStates
<1> HIDE DEF O
<1>7. DOMAIN W.tab.p2j = {} /\ DOMAIN W.tab.done = {}
  BY <1>4 DEF EmptyTable, EmptyFn
<1>8. WorldOK(W, real)
  <2>1. W.sig.marks \in Seq(Mark)
    BY <1>5
  <2>2. DOMAIN real = Pids
    BY DEF ShellInit
  <2> QED
    BY <1>1, <1>4, <1>5, <1>6, <2>1, <2>2 DEF WorldOK
<1>9. assumed = {}
  BY DEF ShellInit
<1>10. Sound(W, real, released, assumed, told, {})
  <2>1. KidsLive(W) /\ PendReaped(W) /\ EntriesBorn(W) /\ StatusTrue(W, real, assumed)
    BY <1>4, <1>7 DEF KidsLive, PendReaped, EntriesBorn, StatusTrue
  <2>2. DeadEntries(W) /\ AssumedGone(W, assumed) /\ NotedTold(W, told \cup {})
    BY <1>7, <1>9 DEF DeadEntries, AssumedGone, NotedTold
  <2>3. Accounted(W, released \cup {}) /\ DeadListed(W, told)
    BY <1>4, <1>6 DEF Accounted, DeadListed
  <2>4. Watched(W, {})
    BY <1>5, <1>7 DEF Watched
  <2> QED
    BY <1>8, <2>1, <2>2, <2>3, <2>4 DEF Sound
<1>11. pc = Reading /\ ans = NoAnswer
  BY DEF ShellInit
<1> QED
  BY <1>3, <1>10, <1>11, IdleOK, NoAnswerOK DEF ShellInv

\* Steps that touch nothing of the world.
LEMMA IdleStep ==
    ASSUME ShellInv, OtherCommand \/ Foreground \/ FgInterrupted
    PROVE  ShellInv'
<1>1. Now' = Now /\ os' = os /\ real' = real /\ told' = told /\ released' = released
      /\ assumed' = assumed /\ ans' = ans /\ pc' = Reading
  BY DEF OtherCommand, Foreground, FgInterrupted, Runs, Now, ghost
<1> QED
  BY <1>1, IdleOK DEF ShellInv

\* NoteReaderCommand ages the marks.
LEMMA AgedSound ==
    ASSUME ShellInv
    PROVE  LET V == [Now EXCEPT !.sig = NoteReaderCommand(sig)]
           IN  Sound(V, real, released, assumed, told, {}) /\ V.os = os
<1> DEFINE G == NoteReaderCommand(sig)
           V == [Now EXCEPT !.sig = G]
           aged == [i \in DOMAIN sig.marks |-> [sig.marks[i] EXCEPT !.aged = TRUE]]
<1>1. /\ Sound(Now, real, released, assumed, told, {}) /\ WorldOK(Now, real) /\ Single(table)
      /\ sig.marks \in Seq(Mark)
  BY NowFields DEF ShellInv, Sound, WorldOK
<1>2. aged \in Seq(Mark)
  <2>1. ASSUME NEW i \in DOMAIN sig.marks PROVE [sig.marks[i] EXCEPT !.aged = TRUE] \in Mark
    <3>1. PICK m \in Mark : m = sig.marks[i]
      BY <1>1
    <3>2. [m EXCEPT !.aged = TRUE] \in Mark
      BY DEF Mark
    <3> QED
      BY <3>1, <3>2
  <2>2. DOMAIN sig.marks = 1..Len(sig.marks) /\ Len(sig.marks) \in Nat
    BY <1>1
  <2>3. aged \in [1..Len(sig.marks) -> Mark]
    BY <2>1, <2>2
  <2> QED
    BY <2>2, <2>3
<1>3. sig.marks = << >> => aged = << >>
  OBVIOUS
<1>4. G.marks = aged /\ G = [marks |-> G.marks, fatal |-> G.fatal]
  BY DEF NoteReaderCommand
<1> HIDE DEF G, aged
<1>5. V = [tab |-> table, sig |-> G, os |-> os, kids |-> kids, pend |-> pend, notices |-> notices]
  BY NowForm
<1> HIDE DEF V
<1>6. /\ V.tab = table /\ V.sig = G /\ V.os = os /\ V.kids = kids /\ V.pend = pend
      /\ V = [tab |-> V.tab, sig |-> V.sig, os |-> V.os, kids |-> V.kids, pend |-> V.pend,
              notices |-> V.notices]
  BY <1>5
<1>7. WorldOK(V, real)
  BY <1>1, <1>2, <1>4, <1>6, NowFields DEF WorldOK
<1>8. Watched(V, {})
  BY <1>1, <1>3, <1>4, <1>6, NowFields DEF Sound, Watched
<1>9. Relaxed(Now.tab, V.tab) /\ SameLife(Now.os, V.os) /\ V.kids = Now.kids /\ V.pend = Now.pend
  BY <1>1, <1>6, NowFields DEF Relaxed, SameLife
<1>10. Sound(V, real, released, assumed, told, {})
  BY <1>1, <1>7, <1>8, <1>9, RelaxSound
<1> QED
  BY <1>6, <1>10 DEF V, G

\* The boundary before a command.
LEMMA BoundaryStep ==
    ASSUME ShellInv, NEW kind, NEW ripe, Boundary(kind, ripe)
    PROVE  ShellInv'
<1>1. PICK W0 \in {IF kind = "nested" THEN Now ELSE [Now EXCEPT !.sig = NoteReaderCommand(sig)]} :
      \E W1 \in {Refresh(W0, FALSE, FALSE, kind = "line", ripe)} :
          LET due == IF kind = "line" THEN W1.notices ELSE {}
          IN  /\ \E W2 \in {EmitNotices(W1, due)} : Becomes(W2)
              /\ Tell(Members(W1.tab, {p \in due : Printed(p)}))
  BY DEF Boundary
<1>2. PICK W1 \in {Refresh(W0, FALSE, FALSE, kind = "line", ripe)} :
          LET due == IF kind = "line" THEN W1.notices ELSE {}
          IN  /\ \E W2 \in {EmitNotices(W1, due)} : Becomes(W2)
              /\ Tell(Members(W1.tab, {p \in due : Printed(p)}))
  BY <1>1
<1> DEFINE due == IF kind = "line" THEN W1.notices ELSE {}
           said == {p \in due : Printed(p)}
<1>3. PICK W2 \in {EmitNotices(W1, due)} : Becomes(W2)
  BY <1>2
<1>4. told' = told \cup {p \in Members(W1.tab, said) : os'[p] = "reaped" /\ p \notin pend'}
  BY <1>2 DEF Tell
<1>5. /\ real' = real /\ released' = released /\ assumed' = assumed
      /\ pc' = Executing /\ ans' = NoAnswer
  BY DEF Boundary
<1>6. Sound(W0, real, released, assumed, told, {})
  BY <1>1, AgedSound DEF ShellInv
<1>7. Sound(W1, real, released, assumed, told, {})
  <2>1. \A newLine \in BOOLEAN :
            Sound(Refresh(W0, FALSE, FALSE, newLine, ripe), real, released, assumed, told, {})
    BY <1>6, RefreshSound
  <2>2. (kind = "line") \in BOOLEAN
    OBVIOUS
  <2>3. W1 = Refresh(W0, FALSE, FALSE, kind = "line", ripe)
    BY <1>2
  <2> QED
    BY <2>1, <2>2, <2>3, Zenon
<1>8. Sound(W1, real, released, assumed, told', {})
  BY <1>4, <1>7, MoreTold
<1>9. W2 = EmitNotices(W1, due)
  BY <1>3
<1>10. os' = W2.os /\ pend' = W2.pend
  BY <1>3 DEF Becomes
<1> HIDE DEF due
<1>11. W2.os = W1.os /\ W2.pend = W1.pend
  <2>1. PICK t, g, o, h, pe, no :
            W1 = [tab |-> t, sig |-> g, os |-> o, kids |-> h, pend |-> pe, notices |-> no]
    BY <1>7 DEF Sound, WorldOK
  <2>2. \E U, n : W2 = [W1 EXCEPT !.notices = n] \/ W2 = [W1 EXCEPT !.notices = n, !.tab = U]
    BY <1>9 DEF EmitNotices
  <2> QED
    BY <2>1, <2>2
<1>12. \A p \in due \cap DOMAIN W1.tab.p2j :
           Printed(p) /\ W1.os[p] = "reaped" /\ p \notin W1.pend => p \in told'
  <2>1. Members(W1.tab, said) = said \cap DOMAIN W1.tab.p2j
    BY <1>7, MembersAre DEF Sound, WorldOK
  <2> QED
    BY <1>4, <1>10, <1>11, <2>1
<1>13. Sound(W2, real, released, assumed, told', {})
  BY <1>8, <1>9, <1>12, EmitNoticesSound
<1>14. Now' = W2
  BY <1>3, <1>13, Arrives DEF Sound
<1> QED
  BY <1>5, <1>13, <1>14, Lands, IdleOK, NoAnswerOK

\* A background command is started.
LEMMA LaunchStep ==
    ASSUME ShellInv, Launch
    PROVE  ShellInv'
<1>1. PICK p \in Pids :
          /\ IsNextPid(p)
          /\ NextJobId(CleanupDeadJobs(table)) <= MaxJobId
          /\ table' = SetJobControl(RegisterPipeline(table, {p}, p, TRUE), p, Monitor)
          /\ os' = [os EXCEPT ![p] = "run"]
          /\ kids' = kids \cup {p}
  BY DEF Launch
<1>2. /\ sig' = sig /\ pend' = pend /\ notices' = notices /\ real' = real /\ pc' = Reading
      /\ told' = told /\ released' = released /\ assumed' = assumed /\ ans' = ans
  BY DEF Launch, Runs, ghost
<1> DEFINE C == CleanupDeadJobs(table)
           U == RegisterPipeline(table, {p}, p, TRUE)
           X == SetJobControl(U, p, Monitor)
           W == CleanedUp(Now)
<1>3. Sound(Now, real, released, assumed, told, {}) /\ WorldOK(Now, real) /\ Single(table)
  BY NowFields DEF ShellInv, Sound, WorldOK
<1>4. /\ Sound(W, real, released, assumed, told, {}) /\ W.tab = C
      /\ W.sig = sig /\ W.os = os /\ W.kids = kids /\ W.pend = pend
  BY <1>3, CleanedUpSound, NowFields
<1> HIDE DEF W
<1>5. os[p] = "unborn" /\ os \in [Pids -> OsStates] /\ kids \subseteq Pids /\ pend \subseteq Pids
  BY <1>1, <1>3, NowFields DEF IsNextPid, Unborn, WorldOK
<1>6. p \notin DOMAIN table.p2j
  BY <1>3, <1>5, NowFields DEF Sound, EntriesBorn
<1>7. p \notin DOMAIN C.p2j /\ p \notin DOMAIN C.done /\ p \notin pend /\ p \notin kids /\ p \notin assumed
  BY <1>4, <1>5 DEF Sound, EntriesBorn, StatusTrue, AssumedGone, PendReaped, KidsLive, Exists
<1>8. Single(C) /\ C.done = table.done
  BY <1>3, CleanupEffect
<1>9. /\ Single(U) /\ U.done = table.done
      /\ DOMAIN U.p2j = DOMAIN C.p2j \cup {p}
      /\ St(U, p) = "Running" /\ ~Noted(U, p)
      /\ \A q \in DOMAIN C.p2j : SameEntry(C, U, q)
  BY <1>1, <1>3, <1>6, RegisterEffect
<1> HIDE DEF U, C
<1>10. Monitor \in BOOLEAN
  BY JobControlAssumption
<1>11. /\ Single(X) /\ X.done = U.done /\ X.p2j = U.p2j
       /\ \A q \in DOMAIN U.p2j : SameEntry(U, X, q)
  BY <1>9, <1>10, JobControlEffect
<1>12. table' = X
  BY <1>1 DEF U
<1> HIDE DEF X
<1>13. /\ X.done = C.done /\ DOMAIN X.p2j = DOMAIN C.p2j \cup {p}
       /\ St(X, p) = "Running" /\ ~Noted(X, p)
       /\ \A q \in DOMAIN C.p2j : St(X, q) = St(C, q) /\ Noted(X, q) = Noted(C, q)
  BY <1>8, <1>9, <1>11 DEF SameEntry
<1>14. PICK V : V = Now'
  OBVIOUS
<1>15. /\ V.tab = X /\ V.sig = sig /\ V.os = os' /\ V.kids = kids \cup {p} /\ V.pend = pend
       /\ V = [tab |-> V.tab, sig |-> V.sig, os |-> V.os, kids |-> V.kids, pend |-> V.pend,
               notices |-> V.notices]
  BY <1>1, <1>2, <1>12, <1>14, NowForm
<1>16. /\ V.os \in [Pids -> OsStates] /\ V.os[p] = "run"
       /\ \A q \in Pids : q # p => V.os[q] = os[q]
  BY <1>1, <1>5, <1>15 DEF OsStates
<1>17. DOMAIN C.p2j \subseteq Pids /\ DOMAIN C.done \subseteq Pids
  BY <1>8, TableKeys
<1>18. WorldOK(V, real)
  <2>1. \A q \in Pids : V.os[q] \in {"zombie", "reaped"} => real[q] \in Statuses
    BY <1>3, <1>5, <1>16, NowFields DEF WorldOK
  <2> QED
    BY <1>3, <1>5, <1>11, <1>15, <1>16, <2>1, NowFields DEF WorldOK
<1>19. KidsLive(V)
  BY <1>4, <1>5, <1>13, <1>15, <1>16 DEF Sound, KidsLive, Exists
<1>20. PendReaped(V)
  BY <1>4, <1>5, <1>7, <1>15, <1>16 DEF Sound, PendReaped
<1>21. EntriesBorn(V)
  BY <1>4, <1>13, <1>15, <1>16, <1>17 DEF Sound, EntriesBorn
<1>22. StatusTrue(V, real, assumed)
  BY <1>4, <1>7, <1>13, <1>15, <1>16, <1>17 DEF Sound, StatusTrue
<1>23. DeadEntries(V)
  BY <1>4, <1>7, <1>13, <1>15, <1>16, <1>17 DEF Sound, DeadEntries
<1>24. Accounted(V, released \cup {})
  BY <1>4, <1>13, <1>15, <1>16 DEF Sound, Accounted
<1>25. AssumedGone(V, assumed)
  BY <1>4, <1>7, <1>13, <1>15, <1>16 DEF Sound, AssumedGone
<1>26. DeadListed(V, told)
  BY <1>4, <1>13, <1>15, <1>16 DEF Sound, DeadListed
<1>27. NotedTold(V, told \cup {})
  BY <1>4, <1>7, <1>13, <1>15, <1>16, <1>17 DEF Sound, NotedTold
<1>28. Watched(V, {})
  BY <1>4, <1>13, <1>15 DEF Sound, Watched
<1>29. Sound(V, real, released, assumed, told, {})
  BY <1>18, <1>19, <1>20, <1>21, <1>22, <1>23, <1>24, <1>25, <1>26, <1>27, <1>28 DEF Sound
<1>30. AnsOK(ans, V.os, real, released, assumed)
  <2>1. Onward(os, V.os)
    BY <1>5, <1>16 DEF Onward
  <2>2. AnsOK(ans, os, real, released, assumed)
    BY DEF ShellInv
  <2> QED
    BY <2>1, <2>2, AnsStays
<1> QED
  BY <1>2, <1>14, <1>29, <1>30, Lands, IdleOK

\* reap_dead_jobs_after_loop_body
LEMMA LoopBodyStep ==
    ASSUME ShellInv, LoopBody
    PROVE  ShellInv'
<1>1. /\ table' = ReapDeadJobs(table, lastBg)
      /\ told' = told \cup (DOMAIN table.p2j \ DOMAIN table'.p2j)
      /\ sig' = sig /\ kids' = kids /\ pend' = pend /\ notices' = notices /\ os' = os
      /\ real' = real /\ released' = released /\ assumed' = assumed /\ ans' = ans /\ pc' = Reading
  BY DEF LoopBody, Runs
<1>2. PICK D : /\ D \subseteq InState(table, "Completed")
               /\ table' = CleanupDeadJobs(NotifyJobs(table, D))
  BY <1>1 DEF ReapDeadJobs
<1>3. Sound(Now, real, released, assumed, told', {})
  BY <1>1, MoreTold DEF ShellInv
<1>4. WorldOK(Now, real) /\ Single(table) /\ kids \subseteq Pids
  BY <1>3, NowFields DEF Sound, WorldOK
<1>5. Single(table')
  BY <1>2, <1>4, NotifyEffect, CleanupEffect
<1>6. PICK V : V = Now'
  OBVIOUS
<1>7. V = [tab |-> table', sig |-> Now.sig, os |-> Now.os, kids |-> kids, pend |-> Now.pend,
           notices |-> notices]
  BY <1>1, <1>6, NowForm, NowFields
<1>8. /\ WorldOK(V, real) /\ V.tab = table' /\ V.sig = Now.sig /\ V.os = Now.os /\ V.kids = kids
      /\ V.pend = Now.pend
  BY <1>4, <1>5, <1>7, WorldFrom
<1>9. Sound(V, real, released, assumed, told', {})
  BY <1>1, <1>2, <1>3, <1>8, DiscardSound, NowFields
<1>10. AnsOK(ans', V.os, real', released', assumed')
  BY <1>1, <1>8, NowFields DEF ShellInv
<1> QED
  BY <1>1, <1>6, <1>9, <1>10, Lands, IdleOK

\* A wait is not disturbed by what the processes do meanwhile.
LEMMA PcStays ==
    ASSUME NEW c, NEW W, NEW V, NEW rel, PcOK(c, W, rel), Onward(W.os, V.os),
           V.tab = W.tab, V.kids = W.kids, V.pend = W.pend
    PROVE  PcOK(c, V, rel)
<1>1. PendStopped(W) => PendStopped(V)
  BY DEF PendStopped
<1>2. c.todo \in Seq(Pids) => \A i \in DOMAIN c.todo : c.todo[i] \in Pids
  OBVIOUS
<1>3. \A p \in Pids : W.os[p] # "unborn" => V.os[p] # "unborn"
  BY DEF Onward
<1>4. /\ c.todo \in Seq(Pids) /\ \A i \in DOMAIN c.todo : W.os[c.todo[i]] # "unborn"
      => \A i \in DOMAIN c.todo : V.os[c.todo[i]] # "unborn"
  BY <1>2, <1>3
<1> QED
  BY <1>1, <1>4 DEF PcOK

LEMMA ExitsStep ==
    ASSUME ShellInv, NEW p \in Pids, Exits(p)
    PROVE  ShellInv'
<1>1. /\ table' = table /\ sig' = sig /\ kids' = kids /\ pend' = pend /\ notices' = notices
      /\ pc' = pc /\ told' = told /\ released' = released /\ assumed' = assumed /\ ans' = ans
      /\ os' = [os EXCEPT ![p] = "zombie"] /\ os[p] \in {"run", "dying"}
  BY DEF Exits, shell, ghost
<1>2. PICK s \in Statuses : real' = [real EXCEPT ![p] = s]
  BY JobControlAssumption DEF Exits
<1>3. Sound(Now, real, released, assumed, told, {}) /\ WorldOK(Now, real) /\ Single(table)
  BY NowFields DEF ShellInv, Sound, WorldOK
<1>4. /\ os \in [Pids -> OsStates] /\ kids \subseteq Pids /\ pend \subseteq Pids
      /\ DOMAIN table.p2j \subseteq Pids /\ DOMAIN table.done \subseteq Pids
  BY <1>3, TableKeys, NowFields DEF WorldOK
<1>5. PICK V : V = Now'
  OBVIOUS
<1>6. /\ V.tab = table /\ V.sig = sig /\ V.os = os' /\ V.kids = kids /\ V.pend = pend
      /\ V = [tab |-> V.tab, sig |-> V.sig, os |-> V.os, kids |-> V.kids, pend |-> V.pend,
              notices |-> V.notices]
  BY <1>1, <1>5, NowForm
<1>7. /\ V.os \in [Pids -> OsStates] /\ V.os[p] = "zombie"
      /\ \A q \in Pids : q # p => V.os[q] = os[q]
      /\ os[p] # "reaped" /\ os[p] # "unborn"
  BY <1>1, <1>4, <1>6 DEF OsStates
<1>8. DOMAIN real' = Pids /\ real'[p] = s /\ \A q \in Pids : q # p => real'[q] = real[q]
  BY <1>2, <1>3 DEF WorldOK
<1>9. WorldOK(V, real')
  <2>1. \A q \in Pids : V.os[q] \in {"zombie", "reaped"} => real'[q] \in Statuses
    BY <1>3, <1>7, <1>8, NowFields DEF WorldOK
  <2> QED
    BY <1>3, <1>4, <1>6, <1>7, <1>8, <2>1, NowFields DEF WorldOK
<1>10. KidsLive(V) /\ PendReaped(V)
  BY <1>3, <1>4, <1>6, <1>7, NowFields DEF Sound, KidsLive, PendReaped, Exists
<1>11. EntriesBorn(V) /\ DeadEntries(V)
  BY <1>3, <1>4, <1>6, <1>7, NowFields DEF Sound, EntriesBorn, DeadEntries
<1>12. StatusTrue(V, real', assumed)
  BY <1>3, <1>4, <1>6, <1>7, <1>8, NowFields DEF Sound, StatusTrue
<1>13. Accounted(V, released \cup {}) /\ DeadListed(V, told)
  BY <1>3, <1>6, <1>7, NowFields DEF Sound, Accounted, DeadListed
<1>14. AssumedGone(V, assumed)
  BY <1>3, <1>6, <1>7, NowFields DEF Sound, AssumedGone
<1>15. NotedTold(V, told \cup {}) /\ Watched(V, {})
  BY <1>3, <1>4, <1>6, <1>7, NowFields DEF Sound, NotedTold, Watched
<1>16. Sound(V, real', released, assumed, told, {})
  BY <1>9, <1>10, <1>11, <1>12, <1>13, <1>14, <1>15 DEF Sound
<1>17. Onward(os, V.os)
  BY <1>7 DEF Onward
<1>18. PcOK(pc, V, released)
  BY <1>6, <1>17, PcStays, NowFields DEF ShellInv
<1>19. AnsOK(ans, V.os, real', released, assumed)
  <2>1. \A q \in Pids : os[q] = "reaped" => real'[q] = real[q]
    BY <1>7, <1>8
  <2> QED
    BY <1>17, <2>1, AnsStays DEF ShellInv
<1> QED
  BY <1>1, <1>5, <1>16, <1>18, <1>19, Lands

\* A step that only moves living processes and the signals remembered.
LEMMA SignalStep ==
    ASSUME ShellInv, NEW V, V = Now', SameLife(os, os'), os' \in [Pids -> OsStates],
           table' = table, kids' = kids, pend' = pend, real' = real,
           told' = told, released' = released, assumed' = assumed, ans' = ans,
           pc' = pc \/ pc' = Reading,
           sig' = [marks |-> sig'.marks, fatal |-> sig'.fatal], sig'.marks \in Seq(Mark),
           NoStaleMarks => sig'.marks = sig.marks
    PROVE  ShellInv'
<1>1. Sound(Now, real, released, assumed, told, {}) /\ WorldOK(Now, real)
  BY DEF ShellInv, Sound
<1>2. /\ V.tab = table /\ V.sig = sig' /\ V.os = os' /\ V.kids = kids /\ V.pend = pend
      /\ V = [tab |-> V.tab, sig |-> V.sig, os |-> V.os, kids |-> V.kids, pend |-> V.pend,
              notices |-> V.notices]
  BY NowForm
<1>3. WorldOK(V, real)
  <2>1. \A q \in Pids : V.os[q] \in {"zombie", "reaped"} => real[q] \in Statuses
    BY <1>1, <1>2, NowFields DEF WorldOK, SameLife
  <2> QED
    BY <1>1, <1>2, <2>1, NowFields DEF WorldOK
<1>4. Watched(V, {})
  BY <1>1, <1>2, NowFields DEF Sound, Watched
<1>5. Relaxed(Now.tab, V.tab) /\ SameLife(Now.os, V.os) /\ V.kids = Now.kids /\ V.pend = Now.pend
  BY <1>1, <1>2, NowFields DEF Relaxed, WorldOK
<1>6. Sound(V, real, released, assumed, told, {})
  BY <1>1, <1>3, <1>4, <1>5, RelaxSound
<1>7. Onward(os, V.os)
  BY <1>2, OnwardSame
<1>8. PcOK(pc', V, released)
  BY <1>2, <1>7, PcStays, IdleOK, NowFields DEF ShellInv
<1>9. AnsOK(ans, V.os, real, released, assumed)
  BY <1>7, AnsStays DEF ShellInv
<1> QED
  BY <1>6, <1>8, <1>9, Lands

LEMMA ContinuedStep ==
    ASSUME ShellInv, NEW p \in Pids, ContinuedElsewhere(p)
    PROVE  ShellInv'
<1>1. /\ table' = table /\ sig' = sig /\ kids' = kids /\ pend' = pend /\ pc' = pc
      /\ told' = told /\ released' = released /\ assumed' = assumed /\ ans' = ans
      /\ real' = real /\ os' = [os EXCEPT ![p] = "run"] /\ os[p] = "stop"
  BY DEF ContinuedElsewhere, shell, ghost
<1>2. /\ os \in [Pids -> OsStates] /\ sig.marks \in Seq(Mark)
      /\ sig = [marks |-> sig.marks, fatal |-> sig.fatal]
  BY NowFields DEF ShellInv, Sound, WorldOK
<1>3. SameLife(os, os') /\ os' \in [Pids -> OsStates]
  BY <1>1, <1>2 DEF SameLife, OsStates
<1>4. PICK V : V = Now'
  OBVIOUS
<1> QED
  BY <1>1, <1>2, <1>3, <1>4, SignalStep

\* The state a signal leaves a process in.
LEMMA DeliveredLife ==
    ASSUME NEW st \in OsStates, NEW s
    PROVE  /\ Delivered(st, s) \in OsStates
           /\ \A x \in {"unborn", "zombie", "reaped"} : st = x <=> Delivered(st, s) = x
<1>1. \/ Delivered(st, s) = "dying" /\ Exists(st) /\ st # "zombie"
      \/ Delivered(st, s) = "stop" /\ st = "run"
      \/ Delivered(st, s) = "run" /\ st = "stop"
      \/ Delivered(st, s) = st
  BY DEF Delivered
<1> HIDE DEF Delivered
<1> QED
  BY <1>1 DEF OsStates, Exists

\* The kill builtin notes what it sent.
LEMMA NotedKill ==
    ASSUME NEW p \in Pids, NEW s, sig.marks \in Seq(Mark),
           sig = [marks |-> sig.marks, fatal |-> sig.fatal]
    PROVE  LET G == NoteKillDelivery(sig, p, s)
           IN  /\ G.marks \in Seq(Mark) /\ G = [marks |-> G.marks, fatal |-> G.fatal]
               /\ ~Monitor => G.marks = sig.marks
<1> DEFINE G == NoteKillDelivery(sig, p, s)
<1>1. CASE G = sig
  BY <1>1
<1>2. CASE \E f : G = [sig EXCEPT !.fatal = f]
  <2>1. PICK f : G = [sig EXCEPT !.fatal = f]
    BY <1>2
  <2> HIDE DEF G
  <2>2. G = [marks |-> sig.marks, fatal |-> f]
    BY <2>1
  <2>3. G.marks = sig.marks /\ G = [marks |-> G.marks, fatal |-> G.fatal]
    BY <2>2
  <2> QED
    BY <2>3 DEF G
<1>3. CASE Monitor /\ \E to \in {"Running", "Stopped"} : G = DeferStateMark(sig, p, to)
  <2>1. PICK to \in {"Running", "Stopped"} : G = DeferStateMark(sig, p, to)
    BY <1>3
  <2> DEFINE others == RetainAt(sig.marks, {i \in DOMAIN sig.marks : sig.marks[i].pid # p})
             marks == Append(others, [pid |-> p, to |-> to, aged |-> FALSE])
  <2>2. others \in Seq(Mark)
    BY RetainAtType
  <2>3. [pid |-> p, to |-> to, aged |-> FALSE] \in Mark
    BY DEF Mark
  <2>4. marks \in Seq(Mark)
    <3> HIDE DEF others
    <3> QED
      BY <2>2, <2>3
  <2>5. G = [sig EXCEPT !.marks = marks]
    BY <2>1 DEF DeferStateMark
  <2> HIDE DEF G, marks
  <2>6. G = [marks |-> marks, fatal |-> sig.fatal]
    BY <2>5
  <2>7. G.marks = marks /\ G = [marks |-> G.marks, fatal |-> G.fatal]
    BY <2>6
  <2> QED
    BY <1>3, <2>4, <2>7 DEF G
<1> QED
  <2>1. \/ G = NoteFatalSignal(sig, p)
        \/ Monitor /\ \E to \in {"Running", "Stopped"} : G = DeferStateMark(sig, p, to)
        \/ G = sig
    BY DEF NoteKillDelivery
  <2>2. NoteFatalSignal(sig, p) = sig \/ \E f : NoteFatalSignal(sig, p) = [sig EXCEPT !.fatal = f]
    BY DEF NoteFatalSignal
  <2> QED
    BY <1>1, <1>2, <1>3, <2>1, <2>2

LEMMA KillStep ==
    ASSUME ShellInv, NEW p \in Pids, NEW s, Kill(p, s)
    PROVE  ShellInv'
<1>1. /\ table' = table /\ kids' = kids /\ pend' = pend /\ pc' = Reading
      /\ told' = told /\ released' = released /\ assumed' = assumed /\ ans' = ans
      /\ real' = real /\ os' = [os EXCEPT ![p] = Delivered(os[p], s)]
      /\ sig' = NoteKillDelivery(sig, p, s) /\ "kill" \in Commands
  BY DEF Kill, Runs, Starts, ghost
<1>2. /\ os \in [Pids -> OsStates] /\ sig.marks \in Seq(Mark)
      /\ sig = [marks |-> sig.marks, fatal |-> sig.fatal]
  BY NowFields DEF ShellInv, Sound, WorldOK
<1>3. SameLife(os, os') /\ os' \in [Pids -> OsStates]
  <2> DEFINE st == Delivered(os[p], s)
  <2>1. /\ st \in OsStates
        /\ \A x \in {"unborn", "zombie", "reaped"} : os[p] = x <=> st = x
    BY <1>2, DeliveredLife
  <2> HIDE DEF st
  <2>2. os' = [os EXCEPT ![p] = st]
    BY <1>1 DEF st
  <2> QED
    BY <1>2, <2>1, <2>2 DEF SameLife
<1>4. /\ sig'.marks \in Seq(Mark) /\ sig' = [marks |-> sig'.marks, fatal |-> sig'.fatal]
      /\ ~Monitor => sig'.marks = sig.marks
  BY <1>1, <1>2, NotedKill
<1>5. NoStaleMarks => sig'.marks = sig.marks
  BY <1>1, <1>4, JobControlAssumption DEF NoStaleMarks
<1>6. PICK V : V = Now'
  OBVIOUS
<1> QED
  BY <1>1, <1>3, <1>4, <1>5, <1>6, SignalStep

\* The refresh a wait starts with: what does not resolve was let go.
LEMMA WaitEntrySound ==
    ASSUME ShellInv
    PROVE  LET W == WaitEntry
           IN  /\ Sound(W, real, released, assumed, told, {})
               /\ Onward(os, W.os) /\ PendStopped(W)
               /\ \A p \in Pids : os[p] # "unborn" /\ ~Resolves(W.tab, p) => p \in released
<1> DEFINE W == WaitEntry
<1>1. Sound(Now, real, released, assumed, told, {})
  BY DEF ShellInv
<1>2. /\ Sound(W, real, released, assumed, told, {}) /\ Onward(Now.os, W.os)
      /\ TRUE /\ ~FALSE => PendStopped(W)
  <2> DEFINE gate == ~Interactive
  <2> HIDE DEF gate
  <2>1. LET V == Refresh(Now, TRUE, gate, FALSE, 0)
        IN  /\ Sound(V, real, released, assumed, told, {}) /\ Onward(Now.os, V.os)
            /\ TRUE /\ ~FALSE => PendStopped(V)
    BY <1>1, RefreshSound
  <2> QED
    BY <2>1 DEF WaitEntry, gate
<1> HIDE DEF W
<1>3. ASSUME NEW p \in Pids, os[p] # "unborn", ~Resolves(W.tab, p) PROVE p \in released
  <2>1. W.os[p] # "unborn"
    BY <1>2, <1>3, NowFields DEF Onward
  <2>2. p \in W.kids \cup W.pend \cup DOMAIN W.tab.done \cup released
    BY <1>2, <2>1 DEF Sound, Accounted
  <2>3. p \notin W.kids
    BY <1>2, <1>3 DEF Sound, KidsLive, Resolves
  <2>4. p \notin W.pend
    BY <1>2, <1>3 DEF PendStopped, Resolves
  <2> QED
    BY <1>3, <2>2, <2>3, <2>4 DEF Resolves
<1> QED
  BY <1>2, <1>3, NowFields DEF W

\* wait with operands
LEMMA WaitOperandsStep ==
    ASSUME ShellInv, WaitOperands
    PROVE  ShellInv'
<1>1. PICK todo \in OperandLists, force \in BOOLEAN, W \in {WaitEntry} :
          LET unknown == {p \in Elements(todo) : ~Resolves(W.tab, p)}
          IN  /\ Becomes(W)
              /\ pc' = [at |-> "wait", todo |-> todo, bare |-> FALSE, force |-> force,
                        old |-> notices,
                        unknown |-> IF Len(todo) = 1 /\ ~force THEN {} ELSE unknown]
  BY DEF WaitOperands
<1>2. /\ real' = real /\ told' = told /\ released' = released /\ assumed' = assumed /\ ans' = ans
  BY DEF WaitOperands, ghost
<1>3. /\ Sound(W, real, released, assumed, told, {})
      /\ Onward(os, W.os) /\ PendStopped(W)
      /\ \A p \in Pids : os[p] # "unborn" /\ ~Resolves(W.tab, p) => p \in released
  BY <1>1, WaitEntrySound
<1>4. Now' = W
  BY <1>1, <1>3, Arrives DEF Sound
<1>5. todo \in Seq(Pids) /\ \A i \in DOMAIN todo : todo[i] \in Pids /\ os[todo[i]] # "unborn"
  <2>1. (\E p \in Born : todo = <<p>>) \/ (\E p, q \in Born : todo = <<p, q>>)
    BY DEF OperandLists
  <2>2. \A p \in Born : p \in Pids /\ os[p] # "unborn"
    BY DEF Born
  <2>3. CASE \E p \in Born : todo = <<p>>
    BY <2>2, <2>3
  <2>4. CASE \E p, q \in Born : todo = <<p, q>>
    BY <2>2, <2>4
  <2> QED
    BY <2>1, <2>3, <2>4
<1>6. PICK u : /\ u \subseteq released
               /\ pc' = [at |-> "wait", todo |-> todo, bare |-> FALSE, force |-> force,
                         old |-> notices, unknown |-> u]
  <2> DEFINE unknown == {p \in Elements(todo) : ~Resolves(W.tab, p)}
             u == IF Len(todo) = 1 /\ ~force THEN {} ELSE unknown
  <2>1. unknown \subseteq released
    BY <1>3, <1>5 DEF Elements
  <2>2. u \subseteq released
    BY <2>1
  <2>3. pc' = [at |-> "wait", todo |-> todo, bare |-> FALSE, force |-> force,
               old |-> notices, unknown |-> u]
    BY <1>1
  <2> HIDE DEF u
  <2> QED
    BY <2>2, <2>3
<1>7. PcOK(pc', W, released)
  <2>1. /\ pc'.todo = todo /\ pc'.unknown = u
        /\ pc' = [at |-> "wait", todo |-> pc'.todo, bare |-> pc'.bare, force |-> pc'.force,
                  old |-> pc'.old, unknown |-> pc'.unknown]
    BY <1>6
  <2>2. \A i \in DOMAIN todo : W.os[todo[i]] # "unborn"
    BY <1>3, <1>5 DEF Onward
  <2> QED
    BY <1>3, <1>5, <1>6, <2>1, <2>2 DEF PcOK
<1>8. AnsOK(ans, W.os, real, released, assumed)
  BY <1>3, AnsStays DEF ShellInv
<1> QED
  BY <1>2, <1>3, <1>4, <1>7, <1>8, Lands

\* wait without operands
LEMMA WaitBareStep ==
    ASSUME ShellInv, WaitBare
    PROVE  ShellInv'
<1>1. PICK force \in BOOLEAN, W \in {WaitEntry} :
          LET jobs == BackgroundJobs(W.tab)
          IN  /\ Becomes(W)
              /\ pc' = [at |-> "wait", bare |-> TRUE, force |-> force, old |-> notices,
                        todo |-> Ascending(UNION {PidsOf(W.tab.jobs[j]) : j \in jobs}),
                        unknown |-> {}]
  BY DEF WaitBare
<1>2. /\ real' = real /\ told' = told /\ released' = released /\ assumed' = assumed /\ ans' = ans
  BY DEF WaitBare, ghost
<1>3. /\ Sound(W, real, released, assumed, told, {})
      /\ Onward(os, W.os) /\ PendStopped(W)
  BY <1>1, WaitEntrySound
<1>4. Now' = W
  BY <1>1, <1>3, Arrives DEF Sound
<1> DEFINE S == UNION {PidsOf(W.tab.jobs[j]) : j \in BackgroundJobs(W.tab)}
<1>5. S \subseteq DOMAIN W.tab.p2j /\ S \subseteq Pids
  <2>1. Single(W.tab)
    BY <1>3 DEF Sound, WorldOK
  <2>2. \A j \in BackgroundJobs(W.tab) : PidsOf(W.tab.jobs[j]) \subseteq DOMAIN W.tab.p2j
    BY <2>1, SingleEntry DEF BackgroundJobs
  <2>3. S \subseteq DOMAIN W.tab.p2j
    BY <2>2
  <2> QED
    BY <2>1, <2>3, TableKeys
<1>6. pc' = [at |-> "wait", bare |-> TRUE, force |-> force, old |-> notices,
             todo |-> Ascending(S), unknown |-> {}]
  BY <1>1
<1> HIDE DEF S
<1>7. Ascending(S) \in Seq(S)
  BY <1>5, AscendingType
<1>8. PICK todo : todo = Ascending(S)
  OBVIOUS
<1>9. /\ pc'.todo = todo /\ pc'.unknown = {}
      /\ pc' = [at |-> "wait", todo |-> pc'.todo, bare |-> pc'.bare, force |-> pc'.force,
                old |-> pc'.old, unknown |-> pc'.unknown]
  BY <1>6, <1>8
<1>10. todo \in Seq(Pids) /\ \A i \in DOMAIN todo : todo[i] \in S
  BY <1>5, <1>7, <1>8
<1>11. \A i \in DOMAIN todo : W.os[todo[i]] # "unborn"
  BY <1>3, <1>5, <1>10 DEF Sound, EntriesBorn
<1>12. PcOK(pc', W, released)
  BY <1>3, <1>9, <1>10, <1>11 DEF PcOK
<1>13. AnsOK(ans, W.os, real, released, assumed)
  BY <1>3, AnsStays DEF ShellInv
<1> QED
  BY <1>2, <1>3, <1>4, <1>12, <1>13, Lands

\* Every wait of a world ends with its notices, and the user is told.
LEMMA DrainedStep ==
    ASSUME NEW W, NEW old, Sound(W, real, released', assumed', told', {}),
           Becomes(DrainNotices(W, old)), real' = real, pc' = Reading,
           {p \in PrintedSince(W, old) \cap DOMAIN W.tab.p2j :
               os'[p] = "reaped" /\ p \notin pend'} \subseteq told',
           AnsOK(ans', W.os, real, released', assumed')
    PROVE  ShellInv'
<1> DEFINE V == DrainNotices(W, old)
<1>1. V.os = W.os /\ V.pend = W.pend
  <2>1. PICK t, g, o, h, pe, no :
            W = [tab |-> t, sig |-> g, os |-> o, kids |-> h, pend |-> pe, notices |-> no]
    BY DEF Sound, WorldOK
  <2>2. \E U, n : V = [W EXCEPT !.tab = U, !.notices = n]
    BY DEF DrainNotices
  <2> HIDE DEF V
  <2> QED
    BY <2>1, <2>2
<1>2. os' = V.os /\ pend' = V.pend
  BY DEF Becomes
<1>3. \A p \in PrintedSince(W, old) \cap DOMAIN W.tab.p2j :
          W.os[p] = "reaped" /\ p \notin W.pend => p \in told'
  BY <1>1, <1>2
<1>4. Sound(V, real, released', assumed', told', {})
  BY <1>3, DrainSound
<1> HIDE DEF V
<1>5. Now' = V
  BY <1>4, Arrives DEF Sound, V
<1> QED
  BY <1>1, <1>4, <1>5, Lands, IdleOK

LEMMA WaitForNothingStep ==
    ASSUME ShellInv, WaitForNothing
    PROVE  ShellInv'
<1>1. PICK W \in {WaitEntry} :
          /\ Becomes(DrainNotices([W EXCEPT !.tab = ClearCompletedStatuses(W.tab)], notices))
          /\ released' = released \cup DOMAIN W.tab.done
          /\ Tell(Members(W.tab, PrintedSince(W, notices)))
  BY DEF WaitForNothing
<1>2. real' = real /\ assumed' = assumed /\ ans' = ans /\ pc' = Reading
  BY DEF WaitForNothing
<1>3. /\ Sound(W, real, released, assumed, told, {})
      /\ Onward(os, W.os)
  BY <1>1, WaitEntrySound
<1>4. told' = told \cup {p \in Members(W.tab, PrintedSince(W, notices)) :
                            os'[p] = "reaped" /\ p \notin pend'}
  BY <1>1 DEF Tell
<1>5. Sound(W, real, released', assumed, told', {})
  BY <1>1, <1>3, <1>4, MoreTold
<1>6. WorldOK(W, real) /\ Single(W.tab)
  BY <1>3 DEF Sound, WorldOK
<1> DEFINE U == ClearCompletedStatuses(W.tab)
           V == [W EXCEPT !.tab = U]
<1>7. Single(U) /\ U.p2j = W.tab.p2j
  <2>1. IsMap(EmptyFn, Pids, Statuses)
    BY DEF IsMap, EmptyFn
  <2> QED
    BY <1>6, <2>1, DoneEffect DEF ClearCompletedStatuses
<1>8. /\ WorldOK(V, real) /\ V.tab = U /\ V.sig = W.sig /\ V.os = W.os
      /\ V.kids = W.kids /\ V.pend = W.pend /\ V.notices = W.notices
  <2> HIDE DEF U
  <2> QED
    BY <1>6, <1>7, ExceptTab
<1>9. Becomes(DrainNotices(V, notices))
  BY <1>1
<1> HIDE DEF V
<1>10. Sound(V, real, released', assumed, told', {})
  BY <1>1, <1>5, <1>8, ClearStatusSound
<1>11. {p \in PrintedSince(V, notices) \cap DOMAIN V.tab.p2j :
           os'[p] = "reaped" /\ p \notin pend'} \subseteq told'
  <2>1. Members(W.tab, PrintedSince(W, notices)) = PrintedSince(W, notices) \cap DOMAIN W.tab.p2j
    BY <1>6, MembersAre
  <2>2. PrintedSince(V, notices) = PrintedSince(W, notices)
    BY <1>8 DEF PrintedSince
  <2> QED
    BY <1>4, <1>7, <1>8, <2>1, <2>2
<1>12. AnsOK(ans, V.os, real, released', assumed)
  BY <1>1, <1>3, <1>8, AnsStays DEF ShellInv
<1> QED
  BY <1>2, <1>9, <1>10, <1>11, <1>12, DrainedStep

\* A trapped signal ends the wait.
LEMMA InterruptedStep ==
    ASSUME ShellInv, Interrupted
    PROVE  ShellInv'
<1>1. /\ Becomes(DrainNotices(Now, pc.old)) /\ pc' = Reading /\ ans' = NoAnswer
      /\ real' = real /\ released' = released /\ assumed' = assumed
      /\ Tell(Members(table, PrintedSince(Now, pc.old)))
  BY DEF Interrupted
<1>2. told' = told \cup {p \in Members(table, PrintedSince(Now, pc.old)) :
                            os'[p] = "reaped" /\ p \notin pend'}
  BY <1>1 DEF Tell
<1>3. Sound(Now, real, released', assumed', told', {})
  BY <1>1, <1>2, MoreTold DEF ShellInv
<1>4. Members(table, PrintedSince(Now, pc.old)) = PrintedSince(Now, pc.old) \cap DOMAIN table.p2j
  BY <1>3, MembersAre, NowFields DEF Sound, WorldOK
<1>5. {p \in PrintedSince(Now, pc.old) \cap DOMAIN Now.tab.p2j :
          os'[p] = "reaped" /\ p \notin pend'} \subseteq told'
  BY <1>2, <1>4, NowFields
<1> QED
  BY <1>1, <1>3, <1>5, DrainedStep, NoAnswerOK

\* One operand of the wait.
LEMMA WaitNextStep ==
    ASSUME ShellInv, WaitNext
    PROVE  ShellInv'
<1>0. PICK p : p = Head(pc.todo)
  OBVIOUS
<1>1. PICK R \in {IF p \in pc.unknown THEN Outcome("notfound", Now, NoStatus)
                  ELSE WaitForBackgroundPid(Now, p, ~pc.bare, pc.force)} :
          /\ R.kind # "blocked"
          /\ Becomes(R.after)
          /\ ans' = [kind |-> R.kind, pid |-> p, status |-> R.status, forced |-> pc.force]
          /\ IF R.kind = "status" THEN Tell(Members(table, {p})) ELSE UNCHANGED told
          /\ pc' = [pc EXCEPT !.todo = Tail(pc.todo)]
  BY <1>0 DEF WaitNext
<1>2. /\ real' = real /\ released' = released /\ assumed' = assumed
      /\ pc.at = "wait" /\ pc.todo # << >>
  BY DEF WaitNext
<1>3. /\ pc = [at |-> "wait", todo |-> pc.todo, bare |-> pc.bare, force |-> pc.force,
               old |-> pc.old, unknown |-> pc.unknown]
      /\ pc.todo \in Seq(Pids) /\ \A i \in DOMAIN pc.todo : os[pc.todo[i]] # "unborn"
      /\ ~pc.force => pc.unknown \subseteq released
      /\ PendStopped(Now)
  <2>1. pc # Reading /\ pc # Executing
    BY <1>2 DEF Reading, Executing
  <2>2. ~(pc = [at |-> "any", candidates |-> pc.candidates, old |-> pc.old])
    BY <1>2
  <2>3. ~(pc = [at |-> "fg", pid |-> pc.pid])
    BY <1>2
  <2>4. PcOK(pc, Now, released)
    BY DEF ShellInv
  <2> QED
    BY <2>1, <2>2, <2>3, <2>4, NowFields DEF PcOK
<1>4. /\ p \in Pids /\ os[p] # "unborn" /\ Tail(pc.todo) \in Seq(Pids)
      /\ \A i \in DOMAIN Tail(pc.todo) : Tail(pc.todo)[i] \in Pids /\ os[Tail(pc.todo)[i]] # "unborn"
  BY <1>0, <1>2, <1>3
<1>5. told \subseteq told'
  BY <1>1 DEF Tell
<1>6. Sound(Now, real, released, assumed, told', {})
  BY <1>5, MoreTold DEF ShellInv
<1>7. os' = R.after.os /\ pend' = R.after.pend
  BY <1>1 DEF Becomes
<1>8. (R.kind = "status" /\ p \in DOMAIN Now.tab.p2j /\ R.after.os[p] = "reaped"
           /\ p \notin R.after.pend) => p \in told'
  <2>1. Members(table, {p}) = {p} \cap DOMAIN table.p2j
    BY <1>6, MembersAre, NowFields DEF Sound, WorldOK
  <2> QED
    BY <1>1, <1>7, <2>1, NowFields DEF Tell
<1>9. /\ Sound(R.after, real, released, assumed, told', {})
      /\ Onward(os, R.after.os) /\ PendStopped(R.after)
      /\ R.kind = "status" => \/ R.after.os[p] = "reaped" /\ R.status = real[p]
                              \/ p \in assumed /\ R.status = 0
      /\ R.kind = "notfound" /\ ~pc.force => p \in released
      /\ R.kind # "any"
  <2>1. CASE p \in pc.unknown
    <3>1. R = [kind |-> "notfound", after |-> Now, status |-> NoStatus]
      BY <1>1, <2>1 DEF Outcome
    <3>2. R.kind = "notfound" /\ R.after = Now
      BY <3>1
    <3> QED
      BY <1>3, <1>6, <2>1, <3>2, NowFields DEF Onward
  <2>2. CASE p \notin pc.unknown
    <3> DEFINE explicit == ~pc.bare
    <3>1. R = WaitForBackgroundPid(Now, p, explicit, pc.force)
      BY <1>1, <2>2
    <3>2. explicit \in BOOLEAN
      OBVIOUS
    <3> HIDE DEF explicit
    <3>3. Waited(Now, R, p, pc.force, released, assumed, told')
      BY <1>4, <1>6, <1>8, <3>1, <3>2, WaitOutcome
    <3>4. ASSUME R.kind = "notfound", ~pc.force PROVE p \in released
      <4>1. p \in Now.kids \cup Now.pend \cup DOMAIN Now.tab.done \cup released
        BY <1>4, <1>6, NowFields DEF Sound, Accounted
      <4>2. p \in Now.pend => JobRecordedStopped(Now.tab, p)
        BY <1>3, <1>6, RecordedStopped DEF PendStopped, Sound, WorldOK
      <4> QED
        BY <3>3, <3>4, <4>1, <4>2 DEF Waited
    <3> QED
      BY <1>3, <3>3, <3>4, NowFields DEF Waited
  <2> QED
    BY <2>1, <2>2
<1>10. Now' = R.after
  BY <1>1, <1>9, Arrives DEF Sound
<1>11. PcOK(pc', R.after, released)
  <2>1. PICK t, b, f, o, u : pc = [at |-> "wait", todo |-> t, bare |-> b, force |-> f,
                                   old |-> o, unknown |-> u]
    BY <1>3
  <2>2. pc.force = f /\ pc.unknown = u
    BY <2>1
  <2>3. PICK rest : rest = Tail(pc.todo)
    OBVIOUS
  <2>4. pc' = [at |-> "wait", todo |-> rest, bare |-> b, force |-> f, old |-> o, unknown |-> u]
    BY <1>1, <2>1, <2>3
  <2>5. /\ pc'.todo = rest /\ pc'.force = pc.force /\ pc'.unknown = pc.unknown
        /\ pc' = [at |-> "wait", todo |-> pc'.todo, bare |-> pc'.bare, force |-> pc'.force,
                  old |-> pc'.old, unknown |-> pc'.unknown]
    BY <2>2, <2>4
  <2>6. rest \in Seq(Pids) /\ \A i \in DOMAIN rest : R.after.os[rest[i]] # "unborn"
    BY <1>4, <1>9, <2>3 DEF Onward
  <2> QED
    BY <1>3, <1>9, <2>5, <2>6 DEF PcOK
<1>12. AnsOK(ans', R.after.os, real, released, assumed)
  <2>1. ans'.kind = R.kind /\ ans'.pid = p /\ ans'.status = R.status /\ ans'.forced = pc.force
    BY <1>1
  <2> QED
    BY <1>4, <1>9, <2>1 DEF AnsOK
<1> QED
  BY <1>2, <1>9, <1>10, <1>11, <1>12, Lands

\* The end of the wait.
LEMMA WaitEndStep ==
    ASSUME ShellInv, WaitEnd
    PROVE  ShellInv'
<1>1. PICK T \in {IF pc.bare THEN SettleBareWait(table, lastBg, Interactive) ELSE table} :
          /\ Becomes(DrainNotices([Now EXCEPT !.tab = T], pc.old))
          /\ Tell(Members(T, PrintedSince(Now, pc.old)) \cup (DOMAIN table.p2j \ DOMAIN T.p2j))
          /\ released' = released \cup (DOMAIN table.done \ DOMAIN T.done)
  BY DEF WaitEnd
<1>2. real' = real /\ assumed' = assumed /\ ans' = ans /\ pc' = Reading
  BY DEF WaitEnd
<1>3. told' = told \cup {p \in Members(T, PrintedSince(Now, pc.old))
                               \cup (DOMAIN table.p2j \ DOMAIN T.p2j) :
                            os'[p] = "reaped" /\ p \notin pend'}
  BY <1>1 DEF Tell
<1>4. Sound(Now, real, released', assumed, told', {}) /\ WorldOK(Now, real) /\ Single(table)
      /\ kids \subseteq Pids
  <2>1. Sound(Now, real, released', assumed, told', {})
    BY <1>1, <1>3, MoreTold DEF ShellInv
  <2> QED
    BY <2>1, NowFields DEF Sound, WorldOK
<1> DEFINE V == [Now EXCEPT !.tab = T]
<1>5. Single(T) => /\ WorldOK(V, real) /\ V.tab = T /\ V.sig = Now.sig /\ V.os = Now.os
                   /\ V.kids = Now.kids /\ V.pend = Now.pend /\ V.notices = Now.notices
  BY <1>4, ExceptTab
<1>6. Becomes(DrainNotices(V, pc.old))
  BY <1>1
<1> HIDE DEF V
<1>7. Single(T) => os' = os /\ pend' = pend
  <2> SUFFICES ASSUME Single(T) PROVE os' = os /\ pend' = pend
    OBVIOUS
  <2>1. PICK t, g, o, h, pe, no :
            V = [tab |-> t, sig |-> g, os |-> o, kids |-> h, pend |-> pe, notices |-> no]
    BY <1>5 DEF WorldOK
  <2>2. PICK D : D = DrainNotices(V, pc.old)
    OBVIOUS
  <2>3. \E U, n : D = [V EXCEPT !.tab = U, !.notices = n]
    BY <2>2 DEF DrainNotices
  <2>4. D.os = V.os /\ D.pend = V.pend
    BY <2>1, <2>3
  <2> QED
    BY <1>5, <1>6, <2>2, <2>4, NowFields DEF Becomes
<1>8. Single(T) /\ Sound(V, real, released', assumed, told', {})
  <2>1. CASE ~pc.bare
    <3>1. T = table
      BY <1>1, <2>1
    <3>2. Single(T)
      BY <1>4, <3>1
    <3>3. /\ V.tab = Now.tab /\ V.sig = Now.sig /\ V.os = Now.os
          /\ V.kids = Now.kids /\ V.pend = Now.pend /\ WorldOK(V, real)
      BY <1>5, <3>1, <3>2, NowFields
    <3> QED
      BY <1>4, <3>2, <3>3, FlagSound
  <2>2. CASE pc.bare
    <3> DEFINE D == {j \in InState(table, "Completed") : Interactive \/ table.jobs[j].last # lastBg}
               U == CleanupDeadJobs(NotifyJobs(table, D))
               W1 == [tab |-> U, sig |-> Now.sig, os |-> Now.os, kids |-> kids,
                      pend |-> Now.pend, notices |-> notices]
    <3>1. D \subseteq InState(table, "Completed")
      OBVIOUS
    <3>2. T = ClearCompletedStatuses(U)
      BY <1>1, <2>2 DEF SettleBareWait
    <3> HIDE DEF D
    <3>3. Single(U) /\ U.done = table.done
      BY <1>4, NotifyEffect, CleanupEffect
    <3>4. DOMAIN U.p2j \subseteq DOMAIN table.p2j
          /\ \A p \in DOMAIN table.p2j : p \notin DOMAIN U.p2j => os[p] = "reaped" /\ p \notin pend
      <4> DEFINE N == NotifyJobs(table, D)
      <4>1. /\ Single(N) /\ N.p2j = table.p2j
            /\ \A p \in DOMAIN table.p2j : /\ St(N, p) = St(table, p)
        BY <1>4, NotifyEffect
      <4>2. DOMAIN U.p2j = {p \in DOMAIN N.p2j : ~(St(N, p) = "Completed" /\ Noted(N, p))}
        BY <4>1, CleanupEffect
      <4> HIDE DEF N, U
      <4>3. \A p \in DOMAIN table.p2j : St(table, p) = "Completed" => os[p] = "reaped" /\ p \notin pend
        BY <1>4, NowFields DEF Sound, DeadEntries
      <4> QED
        BY <4>1, <4>2, <4>3
    <3> HIDE DEF U
    <3>5. Single(T) /\ T.done = EmptyFn /\ T.p2j = U.p2j
      <4>1. IsMap(EmptyFn, Pids, Statuses)
        BY DEF IsMap, EmptyFn
      <4> QED
        BY <3>2, <3>3, <4>1, DoneEffect DEF ClearCompletedStatuses
    <3>6. /\ WorldOK(W1, real) /\ W1.tab = U /\ W1.sig = Now.sig /\ W1.os = Now.os
          /\ W1.kids = kids /\ W1.pend = Now.pend
      BY <1>4, <3>3, WorldFrom
    <3> HIDE DEF W1
    <3>7. DOMAIN table.p2j \ DOMAIN U.p2j \subseteq told'
      BY <1>3, <1>7, <3>4, <3>5
    <3>8. Sound(W1, real, released', assumed, told', {})
      BY <1>4, <3>1, <3>6, <3>7, DiscardSound, NowFields DEF U
    <3>9. DOMAIN W1.tab.done \subseteq released'
      BY <1>1, <3>3, <3>5, <3>6 DEF EmptyFn
    <3>10. Sound(V, real, released', assumed, told', {})
      BY <1>5, <3>2, <3>5, <3>6, <3>8, <3>9, ClearStatusSound, NowFields
    <3> QED
      BY <3>5, <3>10
  <2> QED
    BY <2>1, <2>2
<1>9. {p \in PrintedSince(V, pc.old) \cap DOMAIN V.tab.p2j :
          os'[p] = "reaped" /\ p \notin pend'} \subseteq told'
  <2>1. Members(T, PrintedSince(Now, pc.old)) = PrintedSince(Now, pc.old) \cap DOMAIN T.p2j
    BY <1>8, MembersAre
  <2>2. PrintedSince(V, pc.old) = PrintedSince(Now, pc.old)
    BY <1>5, <1>8 DEF PrintedSince
  <2> QED
    BY <1>3, <1>5, <1>8, <2>1, <2>2
<1>10. AnsOK(ans, V.os, real, released', assumed)
  <2>1. Onward(os, V.os)
    BY <1>5, <1>8, NowFields DEF Onward
  <2> QED
    BY <1>1, <2>1, AnsStays DEF ShellInv
<1> QED
  BY <1>2, <1>6, <1>8, <1>9, <1>10, DrainedStep

\* wait -n starts.
LEMMA WaitAnyStep ==
    ASSUME ShellInv, WaitAny
    PROVE  ShellInv'
<1>1. PICK c \in {{}} \cup {{p} : p \in Born}, W \in {WaitEntry} :
          Becomes(W) /\ pc' = [at |-> "any", candidates |-> c, old |-> notices]
  BY DEF WaitAny
<1>2. /\ real' = real /\ told' = told /\ released' = released /\ assumed' = assumed /\ ans' = ans
  BY DEF WaitAny, ghost
<1>3. Sound(W, real, released, assumed, told, {}) /\ Onward(os, W.os)
  BY <1>1, WaitEntrySound
<1>4. Now' = W
  BY <1>1, <1>3, Arrives DEF Sound
<1>5. pc' = [at |-> "any", candidates |-> pc'.candidates, old |-> pc'.old]
  BY <1>1
<1>6. PcOK(pc', W, released)
  BY <1>5 DEF PcOK
<1>7. AnsOK(ans, W.os, real, released, assumed)
  BY <1>3, AnsStays DEF ShellInv
<1> QED
  BY <1>2, <1>3, <1>4, <1>6, <1>7, Lands

\* One round of wait -n.
LEMMA WaitAnyPollStep ==
    ASSUME ShellInv, WaitAnyPoll
    PROVE  ShellInv'
<1>1. PICK W \in {Refresh(Now, TRUE, FALSE, FALSE, 0)} :
       LET found == FirstCompleted(W.tab, pc.candidates)
       IN  \/ \E p \in found :
              \E W1 \in {[W EXCEPT !.tab = RemoveJobByPidPreserveStatus(W.tab, p),
                                   !.kids = W.kids \ {p}]} :
                     /\ Becomes(DrainNotices(W1, pc.old))
                     /\ Tell(Members(W.tab, {p}) \cup Members(W.tab, PrintedSince(W, pc.old)))
                     /\ pc' = Reading
                     /\ ans' = [kind |-> "any", pid |-> p, status |-> W.tab.done[p]]
           \/ /\ found = {} /\ WaitableChildren(W, pc.candidates) = {}
              /\ Becomes(DrainNotices(W, pc.old))
              /\ Tell(Members(W.tab, PrintedSince(W, pc.old)))
              /\ pc' = Reading
              /\ ans' = NoAnswer
           \/ /\ found = {} /\ WaitableChildren(W, pc.candidates) # {}
              /\ Becomes(W)
              /\ UNCHANGED <<pc, told, ans>>
  BY DEF WaitAnyPoll
<1>2. real' = real /\ released' = released /\ assumed' = assumed /\ pc.at = "any"
  BY DEF WaitAnyPoll
<1>3. /\ Sound(W, real, released, assumed, told, {})
      /\ Onward(os, W.os)
  BY <1>1, RefreshSound, NowFields DEF ShellInv
<1>4. WorldOK(W, real) /\ Single(W.tab) /\ W.kids \subseteq Pids
  BY <1>3 DEF Sound, WorldOK
<1>5. ASSUME NEW p \in FirstCompleted(W.tab, pc.candidates),
             NEW W1,
             W1 = [W EXCEPT !.tab = RemoveJobByPidPreserveStatus(W.tab, p), !.kids = W.kids \ {p}],
             Becomes(DrainNotices(W1, pc.old)),
             Tell(Members(W.tab, {p}) \cup Members(W.tab, PrintedSince(W, pc.old))),
             pc' = Reading, ans' = [kind |-> "any", pid |-> p, status |-> W.tab.done[p]]
      PROVE  ShellInv'
  <2> DEFINE U == RemoveJobByPidPreserveStatus(W.tab, p)
  <2>1. told' = told \cup {q \in Members(W.tab, {p}) \cup Members(W.tab, PrintedSince(W, pc.old)) :
                              os'[q] = "reaped" /\ q \notin pend'}
    BY <1>5 DEF Tell
  <2>2. Sound(W, real, released, assumed, told', {})
    <3>1. told \subseteq told'
      BY <2>1
    <3> QED
      BY <1>3, <3>1, MoreTold
  <2>3. p \in DOMAIN W.tab.done /\ p \in Pids
    BY <1>4, FirstCompletedSaved, TableKeys
  <2>4. Single(U) /\ DOMAIN U.p2j = DOMAIN W.tab.p2j \ {p}
    BY <1>4, RemoveEffect
  <2>5. W1 = [W EXCEPT !.tab = U, !.kids = W.kids \ {p}]
    BY <1>5
  <2> HIDE DEF U
  <2>6. W1 = [tab |-> U, sig |-> W.sig, os |-> W.os, kids |-> W.kids \ {p}, pend |-> W.pend,
              notices |-> W.notices]
    BY <1>4, <2>5, ExceptKids
  <2>7. /\ W1.tab = U /\ W1.sig = W.sig /\ W1.os = W.os
        /\ W1.kids = W.kids \ {p} /\ W1.pend = W.pend /\ W1.notices = W.notices
        /\ W1 = [tab |-> W1.tab, sig |-> W1.sig, os |-> W1.os, kids |-> W1.kids,
                 pend |-> W1.pend, notices |-> W1.notices]
    BY <2>6
  <2>8. WorldOK(W1, real)
    BY <1>4, <2>4, <2>7 DEF WorldOK
  <2>9. os' = W.os /\ pend' = W.pend
    <3>1. PICK D : D = DrainNotices(W1, pc.old)
      OBVIOUS
    <3>2. \E X, n : D = [W1 EXCEPT !.tab = X, !.notices = n]
      BY <3>1 DEF DrainNotices
    <3>3. D.os = W.os /\ D.pend = W.pend
      BY <2>6, <3>2
    <3> QED
      BY <1>5, <3>1, <3>3 DEF Becomes
  <2>10. /\ Members(W.tab, {p}) = {p} \cap DOMAIN W.tab.p2j
         /\ Members(W.tab, PrintedSince(W, pc.old)) = PrintedSince(W, pc.old) \cap DOMAIN W.tab.p2j
    BY <1>4, MembersAre
  <2>11. W.os[p] = "reaped" /\ p \notin W.pend /\ p \in DOMAIN W.tab.p2j => p \in told'
    BY <2>1, <2>9, <2>10
  <2>12. Sound(W1, real, released, assumed, told', {})
    BY <2>2, <2>3, <2>7, <2>8, <2>11, RemoveSound DEF U
  <2>13. {q \in PrintedSince(W1, pc.old) \cap DOMAIN W1.tab.p2j :
             os'[q] = "reaped" /\ q \notin pend'} \subseteq told'
    <3>1. PrintedSince(W1, pc.old) = PrintedSince(W, pc.old)
      BY <2>7 DEF PrintedSince
    <3> QED
      BY <2>1, <2>4, <2>7, <2>10, <3>1
  <2>14. AnsOK(ans', W1.os, real, released, assumed)
    <3>1. ans'.kind = "any" /\ ans'.pid = p /\ ans'.status = W.tab.done[p]
      BY <1>5
    <3>2. \/ W.os[p] = "reaped" /\ W.tab.done[p] = real[p]
          \/ p \in assumed /\ W.tab.done[p] = 0
      BY <1>3, <2>3 DEF Sound, StatusTrue
    <3> QED
      BY <2>3, <2>7, <3>1, <3>2 DEF AnsOK
  <2> QED
    BY <1>2, <1>5, <2>12, <2>13, <2>14, DrainedStep
<1>6. ASSUME Becomes(DrainNotices(W, pc.old)), Tell(Members(W.tab, PrintedSince(W, pc.old))),
             pc' = Reading, ans' = NoAnswer
      PROVE  ShellInv'
  <2>1. told' = told \cup {q \in Members(W.tab, PrintedSince(W, pc.old)) :
                              os'[q] = "reaped" /\ q \notin pend'}
    BY <1>6 DEF Tell
  <2>2. Sound(W, real, released, assumed, told', {})
    BY <1>3, <2>1, MoreTold
  <2>3. Members(W.tab, PrintedSince(W, pc.old)) = PrintedSince(W, pc.old) \cap DOMAIN W.tab.p2j
    BY <1>4, MembersAre
  <2>4. {q \in PrintedSince(W, pc.old) \cap DOMAIN W.tab.p2j :
            os'[q] = "reaped" /\ q \notin pend'} \subseteq told'
    BY <2>1, <2>3
  <2> QED
    BY <1>2, <1>6, <2>2, <2>4, DrainedStep, NoAnswerOK
<1>7. ASSUME Becomes(W), pc' = pc, told' = told, ans' = ans
      PROVE  ShellInv'
  <2>1. Now' = W
    BY <1>4, <1>7, Arrives
  <2>2. PcOK(pc, W, released)
    <3>1. pc # Reading /\ pc # Executing
      BY <1>2 DEF Reading, Executing
    <3>2. /\ ~(pc = [at |-> "wait", todo |-> pc.todo, bare |-> pc.bare, force |-> pc.force,
                     old |-> pc.old, unknown |-> pc.unknown])
          /\ ~(pc = [at |-> "fg", pid |-> pc.pid])
      BY <1>2
    <3> QED
      BY <3>1, <3>2 DEF ShellInv, PcOK
  <2>3. AnsOK(ans, W.os, real, released, assumed)
    BY <1>3, AnsStays DEF ShellInv
  <2> QED
    BY <1>2, <1>3, <1>7, <2>1, <2>2, <2>3, Lands
<1> QED
  BY <1>1, <1>5, <1>6, <1>7

\* The jobs builtin.
LEMMA JobsStep ==
    ASSUME ShellInv, Jobs
    PROVE  ShellInv'
<1>1. PICK form \in {"all", "running", "stopped", "job"}, j \in JobIds,
           ripe \in 0..Len(sig.marks) : ListJobs(form, j, ripe)
  BY DEF Jobs
<1>2. real' = real /\ released' = released /\ assumed' = assumed /\ ans' = ans /\ pc' = Reading
  BY DEF Jobs, Runs
<1>3. PICK W1 \in {ApplyPending(Refresh(Now, FALSE, FALSE, FALSE, ripe), TRUE, FALSE)} :
      \E W2 \in {CleanedUpIf(form # "job", W1)} :
        LET listed == Listed(W2.tab, form, j)
            W3 == [W2 EXCEPT !.tab = NotifyJobs(W2.tab, listed)]
            full == form \in {"all", "job"}
        IN  /\ form = "job" => j \in DOMAIN W2.tab.jobs
            /\ \E W4 \in {IF full THEN CleanedUp(EmitNotices(W3, W3.notices)) ELSE W3} : Becomes(W4)
            /\ Tell(ListedPids(W2, form, j))
  BY <1>1 DEF ListJobs
<1>4. PICK W2 \in {CleanedUpIf(form # "job", W1)} :
        LET listed == Listed(W2.tab, form, j)
            W3 == [W2 EXCEPT !.tab = NotifyJobs(W2.tab, listed)]
            full == form \in {"all", "job"}
        IN  /\ \E W4 \in {IF full THEN CleanedUp(EmitNotices(W3, W3.notices)) ELSE W3} : Becomes(W4)
            /\ Tell(ListedPids(W2, form, j))
  BY <1>3
<1> DEFINE listed == Listed(W2.tab, form, j)
           N == NotifyJobs(W2.tab, listed)
           W3 == [W2 EXCEPT !.tab = N]
           full == form \in {"all", "job"}
           said == {p \in W2.notices : Printed(p)}
           shown == UNION {PidsOf(W2.tab.jobs[i]) : i \in listed}
           E == EmitNotices(W3, W3.notices)
<1>5. PICK W4 \in {IF full THEN CleanedUp(E) ELSE W3} : Becomes(W4)
  BY <1>4
<1>6. PICK S : Tell(S) /\ shown \subseteq S /\ (full => Members(W2.tab, said) \subseteq S)
  <2>1. Tell(ListedPids(W2, form, j))
    BY <1>4
  <2>2. ListedPids(W2, form, j) = shown \cup IF full THEN Members(W2.tab, said) ELSE {}
    BY DEF ListedPids
  <2> HIDE DEF shown, full, said
  <2> QED
    BY <2>1, <2>2
<1>7. Sound(W2, real, released, assumed, told, {}) /\ Onward(os, W2.os)
  <2>1. PICK W0 : W0 = Refresh(Now, FALSE, FALSE, FALSE, ripe)
    OBVIOUS
  <2>2. Sound(W0, real, released, assumed, told, {}) /\ Onward(Now.os, W0.os)
    BY <2>1, RefreshSound DEF ShellInv
  <2>3. W1 = ApplyPending(W0, TRUE, FALSE)
    BY <1>3, <2>1
  <2>4. Sound(W1, real, released, assumed, told, {}) /\ W1.os = W0.os
    BY <2>2, <2>3, ApplyPendingSound
  <2>5. W2 = W1 \/ W2 = CleanedUp(W1)
    BY <1>4 DEF CleanedUpIf
  <2>6. Sound(W2, real, released, assumed, told, {}) /\ W2.os = W1.os
    BY <2>4, <2>5, CleanedUpSound
  <2> QED
    BY <2>2, <2>4, <2>6, NowFields
<1>8. Sound(W2, real, released, assumed, told', {})
  <2>1. told \subseteq told'
    BY <1>6 DEF Tell
  <2> QED
    BY <1>7, <2>1, MoreTold
<1>9. WorldOK(W2, real) /\ Single(W2.tab)
  BY <1>7 DEF Sound, WorldOK
<1>10. /\ Single(N) /\ N.done = W2.tab.done /\ N.p2j = W2.tab.p2j
       /\ \A p \in DOMAIN W2.tab.p2j : /\ St(N, p) = St(W2.tab, p)
                                       /\ Noted(N, p) <=> Noted(W2.tab, p) \/ W2.tab.p2j[p] \in listed
  BY <1>9, NotifyEffect
<1> HIDE DEF N, listed, said
<1>11. /\ WorldOK(W3, real) /\ W3.tab = N /\ W3.sig = W2.sig /\ W3.os = W2.os
       /\ W3.kids = W2.kids /\ W3.pend = W2.pend /\ W3.notices = W2.notices
  BY <1>9, <1>10, ExceptTab
<1> HIDE DEF W3
<1>12. os' = W2.os /\ pend' = W2.pend
  <2>1. PICK t, g, o, h, pe, no :
            W3 = [tab |-> t, sig |-> g, os |-> o, kids |-> h, pend |-> pe, notices |-> no]
    BY <1>11 DEF WorldOK
  <2>2. \E U, n : E = [W3 EXCEPT !.notices = n] \/ E = [W3 EXCEPT !.notices = n, !.tab = U]
    BY DEF EmitNotices
  <2> HIDE DEF E
  <2>3. E.os = W3.os /\ E.pend = W3.pend
        /\ \E a, b, c, d, e, f :
               E = [tab |-> a, sig |-> b, os |-> c, kids |-> d, pend |-> e, notices |-> f]
    BY <2>1, <2>2
  <2>4. PICK a, b, c, d, e, f :
               E = [tab |-> a, sig |-> b, os |-> c, kids |-> d, pend |-> e, notices |-> f]
    BY <2>3
  <2>5. PICK C : C = CleanedUp(E)
    OBVIOUS
  <2>6. \E U : C = [E EXCEPT !.tab = U]
    BY <2>5 DEF CleanedUp
  <2>7. C.os = E.os /\ C.pend = E.pend
    BY <2>4, <2>6
  <2>8. W4 = C \/ W4 = W3
    BY <1>5, <2>5
  <2> QED
    BY <1>5, <1>11, <2>3, <2>7, <2>8 DEF Becomes
<1>13. Sound(W3, real, released, assumed, told', {})
  <2>1. ASSUME NEW p \in DOMAIN W2.tab.p2j, W2.tab.p2j[p] \in listed PROVE p \in shown
    <3>1. PidsOf(W2.tab.jobs[W2.tab.p2j[p]]) = {p}
      BY <1>9, SingleIndex
    <3> QED
      BY <2>1, <3>1
  <2> HIDE DEF shown, full
  <2>2. \A p \in DOMAIN W2.tab.p2j :
            /\ St(W3.tab, p) = St(W2.tab, p)
            /\ Noted(W3.tab, p) /\ W2.os[p] = "reaped" /\ p \notin W2.pend =>
                  Noted(W2.tab, p) \/ p \in told'
    BY <1>6, <1>10, <1>11, <1>12, <2>1 DEF Tell
  <2> QED
    BY <1>8, <1>10, <1>11, <2>2, FlagSound
<1>14. Sound(W4, real, released, assumed, told', {}) /\ W4.os = W2.os
  <2>1. CASE ~full
    BY <1>5, <1>11, <1>13, <2>1
  <2>2. CASE full
    <3>1. \A p \in W3.notices \cap DOMAIN W3.tab.p2j :
              Printed(p) /\ W3.os[p] = "reaped" /\ p \notin W3.pend => p \in told'
      <4>1. Members(W2.tab, said) = said \cap DOMAIN W2.tab.p2j
        BY <1>9, MembersAre
      <4>2. \A p \in Members(W2.tab, said) : W2.os[p] = "reaped" /\ p \notin W2.pend => p \in told'
        <5> HIDE DEF shown
        <5> QED
          BY <1>6, <1>12, <2>2 DEF Tell
      <4> QED
        BY <1>10, <1>11, <4>1, <4>2 DEF said
    <3>2. Sound(E, real, released, assumed, told', {}) /\ E.os = W3.os
      BY <1>13, <3>1, EmitNoticesSound
    <3>3. W4 = CleanedUp(E)
      BY <1>5, <2>2
    <3> HIDE DEF E
    <3> QED
      BY <1>11, <3>2, <3>3, CleanedUpSound
  <2> QED
    BY <2>1, <2>2
<1>15. Now' = W4
  BY <1>5, <1>14, Arrives DEF Sound
<1>16. AnsOK(ans, W4.os, real, released, assumed)
  BY <1>7, <1>14, AnsStays DEF ShellInv
<1> QED
  BY <1>2, <1>14, <1>15, <1>16, Lands, IdleOK

-----------------------------------------------------------------------------
(* disown *)

\* Jobs leave the table because the user lets go of them: their handles are
\* dropped, their statuses forgotten or made up.
LEMMA LetGoSound ==
    ASSUME NEW W, NEW V, NEW re, NEW rel, NEW asm, NEW tol, NEW rel2, NEW asm2, NEW tol2,
           Sound(W, re, rel, asm, tol, {}), WorldOK(V, re),
           V.sig = W.sig, V.os = W.os, V.pend = W.pend,
           rel \subseteq rel2, tol \subseteq tol2,
           DOMAIN V.tab.p2j \subseteq DOMAIN W.tab.p2j,
           \A p \in DOMAIN V.tab.p2j : SameEntry(W.tab, V.tab, p),
           DOMAIN W.tab.p2j \ DOMAIN V.tab.p2j \subseteq tol2,
           V.kids = W.kids \cap DOMAIN V.tab.p2j,
           \A p \in DOMAIN V.tab.done :
               \/ p \in DOMAIN W.tab.done /\ V.tab.done[p] = W.tab.done[p]
               \/ p \in asm2 /\ V.tab.done[p] = 0,
           (W.kids \ V.kids) \cup DOMAIN W.tab.done \subseteq rel2 \cup DOMAIN V.tab.done,
           asm \subseteq asm2,
           \A p \in asm2 \ asm : p \in Pids /\ W.os[p] # "unborn" /\ p \notin DOMAIN V.tab.p2j
    PROVE  Sound(V, re, rel2, asm2, tol2, {})
<1>1. \A p \in DOMAIN V.tab.p2j : St(V.tab, p) = St(W.tab, p) /\ Noted(V.tab, p) = Noted(W.tab, p)
  BY DEF SameEntry
<1>2. KidsLive(V) /\ PendReaped(V) /\ EntriesBorn(V)
  BY DEF Sound, KidsLive, PendReaped, EntriesBorn
<1>3. StatusTrue(V, re, asm2)
  BY DEF Sound, StatusTrue
<1>4. DeadEntries(V)
  BY <1>1 DEF Sound, DeadEntries
<1>5. Accounted(V, rel2 \cup {})
  BY DEF Sound, Accounted
<1>6. AssumedGone(V, asm2)
  BY DEF Sound, AssumedGone
<1>7. DeadListed(V, tol2)
  BY DEF Sound, DeadListed
<1>8. NotedTold(V, tol2 \cup {})
  BY <1>1 DEF Sound, NotedTold
<1>9. Watched(V, {})
  BY <1>1 DEF Sound, Watched
<1> QED
  BY <1>2, <1>3, <1>4, <1>5, <1>6, <1>7, <1>8, <1>9 DEF Sound

LEMMA DisownAllStep ==
    ASSUME ShellInv, DisownAll
    PROVE  ShellInv'
<1>1. /\ table' = EmptyTable /\ kids' = {}
      /\ released' = released \cup kids \cup pend \cup DOMAIN table.p2j \cup DOMAIN table.done
      /\ told' = told \cup DOMAIN table.p2j
      /\ sig' = sig /\ os' = os /\ pend' = pend /\ real' = real /\ assumed' = assumed
      /\ ans' = ans /\ pc' = Reading
  BY DEF DisownAll, Runs, ClearJobs
<1>2. DOMAIN EmptyTable.jobs = {} /\ DOMAIN EmptyTable.p2j = {} /\ DOMAIN EmptyTable.done = {}
  BY DEF EmptyTable, EmptyFn
<1>3. Single(EmptyTable)
  BY <1>2, EmptyTableOK DEF Single, OneProcess
<1>4. Sound(Now, real, released, assumed, told, {}) /\ WorldOK(Now, real)
  BY DEF ShellInv, Sound
<1>5. PICK V : V = Now'
  OBVIOUS
<1>6. V = [tab |-> table', sig |-> Now.sig, os |-> Now.os, kids |-> kids', pend |-> Now.pend,
           notices |-> notices']
  BY <1>1, <1>5, NowForm, NowFields
<1>7. /\ WorldOK(V, real) /\ V.tab = EmptyTable /\ V.sig = Now.sig /\ V.os = Now.os
      /\ V.kids = {} /\ V.pend = Now.pend
  BY <1>1, <1>3, <1>4, <1>6, WorldFrom
<1>8. Sound(V, real, released', assumed, told', {})
  BY <1>1, <1>2, <1>4, <1>7, LetGoSound, NowFields
<1>9. AnsOK(ans, V.os, real, released', assumed)
  <2>1. Onward(os, V.os)
    BY <1>7, NowFields DEF Onward
  <2>2. AnsOK(ans, os, real, released, assumed)
    BY DEF ShellInv
  <2>3. released \subseteq released'
    BY <1>1
  <2> QED
    BY <2>1, <2>2, <2>3, AnsStays
<1> QED
  BY <1>1, <1>5, <1>8, <1>9, Lands, IdleOK

LEMMA DisownRunningStep ==
    ASSUME ShellInv, DisownRunning
    PROVE  ShellInv'
<1> DEFINE doomed == InState(table, "Running")
           ps == UNION {PidsOf(table.jobs[j]) : j \in doomed}
           d == Drop(table.done, ps)
           T1 == WithDone(table, d)
           T2 == DeleteJobs(T1, doomed)
           T3 == ClearCurrentMarkers(T2)
<1>1. /\ table' = T3 /\ kids' = kids \ ps /\ released' = released \cup ps /\ told' = told \cup ps
      /\ sig' = sig /\ os' = os /\ pend' = pend /\ real' = real /\ assumed' = assumed
      /\ ans' = ans /\ pc' = Reading
  BY DEF DisownRunning, Runs
<1>2. Sound(Now, real, released, assumed, told, {}) /\ WorldOK(Now, real) /\ Single(table)
  BY NowFields DEF ShellInv, Sound, WorldOK
<1>3. \A p \in DOMAIN table.p2j : p \in ps <=> table.p2j[p] \in doomed
  <2>1. \A p \in DOMAIN table.p2j : PidsOf(table.jobs[table.p2j[p]]) = {p}
    BY <1>2, SingleIndex
  <2>2. \A j \in doomed : /\ table.p2j[table.jobs[j].last] = j
                          /\ PidsOf(table.jobs[j]) = {table.jobs[j].last}
    BY <1>2, SingleEntry DEF InState
  <2> HIDE DEF doomed
  <2> QED
    BY <2>1, <2>2
<1>4. ps \subseteq DOMAIN table.p2j
  BY <1>2, SingleEntry DEF InState
<1>5. doomed \subseteq DOMAIN table.jobs
  BY DEF InState
<1> HIDE DEF doomed, ps
<1>6. IsMap(table.done, Pids, Statuses)
  BY <1>2 DEF Single, TableInv, Core, TypeCorrect
<1>7. /\ IsMap(d, Pids, Statuses) /\ DOMAIN d = DOMAIN table.done \ ps
      /\ \A p \in DOMAIN d : d[p] = table.done[p]
  BY <1>6 DEF IsMap, Drop
<1> HIDE DEF d
<1>8. /\ Single(T1) /\ T1.done = d /\ T1.p2j = table.p2j /\ \A q : SameEntry(table, T1, q)
  BY <1>2, <1>7, DoneEffect
<1>9. T1.jobs = table.jobs
  BY DEF WithDone
<1> HIDE DEF T1
<1>10. /\ Single(T2) /\ T2.done = d
       /\ DOMAIN T2.p2j = {p \in DOMAIN table.p2j : table.p2j[p] \notin doomed}
       /\ \A p \in DOMAIN T2.p2j : SameEntry(T1, T2, p)
  BY <1>5, <1>8, <1>9, DeleteEffect
<1> HIDE DEF T2
<1>11. /\ Single(T3) /\ T3.done = d /\ T3.p2j = T2.p2j /\ \A q : SameEntry(T2, T3, q)
  BY <1>10, MarkersEffect
<1> HIDE DEF T3
<1>12. /\ DOMAIN T3.p2j = DOMAIN table.p2j \ ps
       /\ \A p \in DOMAIN T3.p2j : SameEntry(table, T3, p)
  BY <1>3, <1>8, <1>10, <1>11 DEF SameEntry
<1>13. kids \subseteq Pids /\ kids \subseteq DOMAIN table.p2j
  BY <1>2, NowFields DEF Sound, WorldOK, KidsLive
<1>14. PICK V : V = Now'
  OBVIOUS
<1>15. V = [tab |-> table', sig |-> Now.sig, os |-> Now.os, kids |-> kids', pend |-> Now.pend,
            notices |-> notices']
  BY <1>1, <1>14, NowForm, NowFields
<1>16. Single(table') /\ kids' \subseteq Pids
  BY <1>1, <1>11, <1>13
<1>17. /\ WorldOK(V, real) /\ V.tab = table' /\ V.sig = Now.sig /\ V.os = Now.os
       /\ V.kids = kids' /\ V.pend = Now.pend
  BY <1>2, <1>15, <1>16, WorldFrom
<1>18. V.tab = T3 /\ V.tab.done = d /\ V.kids = kids \ ps
  BY <1>1, <1>11, <1>17
<1>19. /\ Now.kids \ V.kids \subseteq ps /\ V.kids = Now.kids \cap DOMAIN V.tab.p2j
       /\ DOMAIN Now.tab.done \subseteq ps \cup DOMAIN V.tab.done
  BY <1>7, <1>12, <1>13, <1>18, NowFields
<1>20. Sound(V, real, released', assumed, told', {})
  <2>1. /\ DOMAIN V.tab.p2j \subseteq DOMAIN Now.tab.p2j
        /\ \A p \in DOMAIN V.tab.p2j : SameEntry(Now.tab, V.tab, p)
        /\ DOMAIN Now.tab.p2j \ DOMAIN V.tab.p2j \subseteq told'
    BY <1>1, <1>12, <1>18, NowFields
  <2>2. \A p \in DOMAIN V.tab.done : p \in DOMAIN Now.tab.done /\ V.tab.done[p] = Now.tab.done[p]
    BY <1>7, <1>18, NowFields
  <2>3. (Now.kids \ V.kids) \cup DOMAIN Now.tab.done \subseteq released' \cup DOMAIN V.tab.done
    BY <1>1, <1>19
  <2>4. released \subseteq released' /\ told \subseteq told'
    BY <1>1
  <2> QED
    BY <1>2, <1>17, <1>19, <2>1, <2>2, <2>3, <2>4, LetGoSound
<1>21. AnsOK(ans, V.os, real, released', assumed)
  <2>1. Onward(os, V.os)
    BY <1>17, NowFields DEF Onward
  <2>2. AnsOK(ans, os, real, released, assumed)
    BY DEF ShellInv
  <2>3. released \subseteq released'
    BY <1>1
  <2> QED
    BY <2>1, <2>2, <2>3, AnsStays
<1> QED
  BY <1>1, <1>14, <1>20, <1>21, Lands, IdleOK

LEMMA DisownJobStep ==
    ASSUME ShellInv, DisownJob
    PROVE  ShellInv'
<1>1. PICK j \in DOMAIN table.jobs :
        LET job == table.jobs[j]
            unknown == PidsOf(job) \ DOMAIN table.done
        IN  /\ table' = WithDone(RemoveJobByPidPreserveStatus(table, job.last),
                                 PutAll(table.done, unknown, 0))
            /\ kids' = kids \ {job.last}
            /\ assumed' = assumed \cup unknown
            /\ told' = told \cup PidsOf(job)
  BY DEF DisownJob
<1> DEFINE p == table.jobs[j].last
           unknown == {p} \ DOMAIN table.done
           d == PutAll(table.done, unknown, 0)
           T1 == RemoveJobByPidPreserveStatus(table, p)
           T2 == WithDone(T1, d)
<1>2. Sound(Now, real, released, assumed, told, {}) /\ WorldOK(Now, real) /\ Single(table)
  BY NowFields DEF ShellInv, Sound, WorldOK
<1>3. p \in DOMAIN table.p2j /\ PidsOf(table.jobs[j]) = {p}
  BY <1>2, SingleEntry
<1>4. /\ table' = T2 /\ kids' = kids \ {p} /\ assumed' = assumed \cup unknown
      /\ told' = told \cup {p}
  BY <1>1, <1>3
<1>5. /\ sig' = sig /\ os' = os /\ pend' = pend /\ real' = real /\ released' = released
      /\ ans' = ans /\ pc' = Reading
  BY DEF DisownJob, Runs
<1> HIDE DEF p
<1>6. IsMap(table.done, Pids, Statuses) /\ DOMAIN table.p2j \subseteq Pids
  BY <1>2, TableKeys DEF Single, TableInv, Core, TypeCorrect
<1>7. /\ IsMap(d, Pids, Statuses) /\ DOMAIN d = DOMAIN table.done \cup {p}
      /\ \A q \in DOMAIN table.done : d[q] = table.done[q]
      /\ p \notin DOMAIN table.done => d[p] = 0
  BY <1>3, <1>6, JobControlAssumption DEF IsMap, PutAll
<1> HIDE DEF d
<1>8. /\ Single(T1) /\ DOMAIN T1.p2j = DOMAIN table.p2j \ {p}
      /\ \A q \in DOMAIN T1.p2j : SameEntry(table, T1, q)
  BY <1>2, RemoveEffect
<1> HIDE DEF T1
<1>9. Single(T2) /\ T2.done = d /\ T2.p2j = T1.p2j /\ \A q : SameEntry(T1, T2, q)
  BY <1>7, <1>8, DoneEffect
<1> HIDE DEF T2
<1>10. /\ DOMAIN T2.p2j = DOMAIN table.p2j \ {p}
       /\ \A q \in DOMAIN T2.p2j : SameEntry(table, T2, q)
  BY <1>8, <1>9 DEF SameEntry
<1>11. kids \subseteq Pids /\ kids \subseteq DOMAIN table.p2j /\ os[p] # "unborn" /\ p \in Pids
  BY <1>2, <1>3, <1>6, NowFields DEF Sound, WorldOK, KidsLive, EntriesBorn
<1>12. PICK V : V = Now'
  OBVIOUS
<1>13. V = [tab |-> table', sig |-> Now.sig, os |-> Now.os, kids |-> kids', pend |-> Now.pend,
            notices |-> notices']
  BY <1>5, <1>12, NowForm, NowFields
<1>14. Single(table') /\ kids' \subseteq Pids
  BY <1>4, <1>9, <1>11
<1>15. /\ WorldOK(V, real) /\ V.tab = table' /\ V.sig = Now.sig /\ V.os = Now.os
       /\ V.kids = kids' /\ V.pend = Now.pend
  BY <1>2, <1>13, <1>14, WorldFrom
<1>16. V.tab = T2 /\ V.tab.done = d /\ V.kids = kids \ {p}
  BY <1>4, <1>9, <1>15
<1>17. /\ DOMAIN V.tab.p2j \subseteq DOMAIN Now.tab.p2j
       /\ \A q \in DOMAIN V.tab.p2j : SameEntry(Now.tab, V.tab, q)
       /\ DOMAIN Now.tab.p2j \ DOMAIN V.tab.p2j \subseteq told'
       /\ V.kids = Now.kids \cap DOMAIN V.tab.p2j
  BY <1>4, <1>10, <1>11, <1>16, NowFields
<1>18. \A q \in DOMAIN V.tab.done :
           \/ q \in DOMAIN Now.tab.done /\ V.tab.done[q] = Now.tab.done[q]
           \/ q \in assumed' /\ V.tab.done[q] = 0
  BY <1>4, <1>7, <1>16, NowFields
<1>19. (Now.kids \ V.kids) \cup DOMAIN Now.tab.done \subseteq released \cup DOMAIN V.tab.done
  BY <1>7, <1>16, NowFields
<1>20. \A q \in assumed' \ assumed : q \in Pids /\ Now.os[q] # "unborn" /\ q \notin DOMAIN V.tab.p2j
  BY <1>4, <1>10, <1>11, <1>16, NowFields
<1>21. assumed \subseteq assumed' /\ told \subseteq told'
  BY <1>4
<1>22. Sound(V, real, released, assumed', told', {})
  BY <1>2, <1>15, <1>17, <1>18, <1>19, <1>20, <1>21, LetGoSound
<1>23. AnsOK(ans, V.os, real, released, assumed')
  <2>1. Onward(os, V.os)
    BY <1>15, NowFields DEF Onward
  <2>2. AnsOK(ans, os, real, released, assumed)
    BY DEF ShellInv
  <2> QED
    BY <1>21, <2>1, <2>2, AnsStays
<1> QED
  BY <1>5, <1>12, <1>22, <1>23, Lands, IdleOK

-----------------------------------------------------------------------------
(* fg and bg *)

\* Setting the background flag leaves what is recorded of the processes.
LEMMA BackgroundEffect ==
    ASSUME NEW T, Single(T), NEW j, NEW on \in BOOLEAN
    PROVE  LET U == WithBackground(T, j, on)
           IN  /\ Single(U) /\ U.done = T.done /\ U.p2j = T.p2j
               /\ \A q \in DOMAIN T.p2j : SameEntry(T, U, q)
<1>1. CASE j \notin DOMAIN T.jobs
  <2>1. WithBackground(T, j, on) = T
    BY <1>1 DEF WithBackground
  <2> QED
    BY <2>1 DEF SameEntry
<1>2. CASE j \in DOMAIN T.jobs
  <2> DEFINE old == T.jobs[j]
             p == old.last
             job == [old EXCEPT !.background = on]
             U == WithEntry(T, T.p2j[p], job)
  <2>1. p \in DOMAIN T.p2j /\ T.p2j[p] = j /\ PidsOf(old) = {p}
    BY <1>2, SingleEntry
  <2>2. Derived(old)
    BY <1>2, EntriesDerived DEF Single, TableInv
  <2>3. Derived(job) /\ PidsOf(job) = PidsOf(old)
    BY <2>2 DEF Derived, JobEntry, PidsOf
  <2>4. job.procs = old.procs /\ job.notified = old.notified
    BY <2>2 DEF Derived, JobEntry
  <2>5. U = WithBackground(T, j, on)
    BY <1>2, <2>1 DEF WithBackground
  <2> HIDE DEF job, p
  <2>6. /\ Single(U) /\ U.done = T.done /\ U.p2j = T.p2j
        /\ St(U, p) = job.procs[p].state /\ Noted(U, p) = job.notified
        /\ \A q \in DOMAIN T.p2j : q # p => SameEntry(T, U, q)
    BY <2>1, <2>3, EntryEffect
  <2>7. SameEntry(T, U, p)
    BY <2>1, <2>4, <2>6 DEF SameEntry, St, Noted
  <2> HIDE DEF U
  <2> QED
    BY <2>5, <2>6, <2>7
<1> QED
  BY <1>1, <1>2

\* mark_running of the stopped members of a job.
LEMMA ResumeEffect ==
    ASSUME NEW T, Single(T), NEW j \in DOMAIN T.jobs
    PROVE  LET U == ResumeStopped(T, j)
           IN  /\ Single(U) /\ U.done = T.done /\ U.p2j = T.p2j
               /\ \A q \in DOMAIN T.p2j :
                     /\ St(U, q) = St(T, q) \/ (St(T, q) = "Stopped" /\ St(U, q) = "Running")
                     /\ Noted(U, q) = Noted(T, q)
<1> DEFINE old == T.jobs[j]
           p == old.last
           procs == [q \in PidsOf(old) |->
                        IF old.procs[q].state = "Stopped"
                        THEN [old.procs[q] EXCEPT !.state = "Running"] ELSE old.procs[q]]
           mid == [old EXCEPT !.procs = procs]
           new == RecomputeJob(mid)
           U == WithEntry(T, T.p2j[p], new)
<1>1. p \in DOMAIN T.p2j /\ T.p2j[p] = j /\ PidsOf(old) = {p}
  BY SingleEntry
<1>2. Derived(old)
  BY EntriesDerived DEF Single, TableInv
<1>3. U = ResumeStopped(T, j)
  BY <1>1 DEF ResumeStopped
<1>4. IsMap(old.procs, Pids, Process)
  BY <1>2, MapsAreMaps DEF Derived, JobEntry
<1>5. p \in Pids /\ old.procs[p] \in Process
  BY <1>1, <1>4 DEF IsMap, PidsOf
<1>6. /\ DOMAIN procs = {p} /\ procs[p] \in Process
      /\ \/ procs[p].state = old.procs[p].state
         \/ old.procs[p].state = "Stopped" /\ procs[p].state = "Running"
  BY <1>1, <1>5 DEF Process, States
<1>7. procs = [q \in DOMAIN procs |-> procs[q]]
  OBVIOUS
<1> HIDE DEF procs
<1>8. procs \in Maps(Pids, Process)
  BY <1>5, <1>6, <1>7, MapsAreMaps DEF IsMap
<1>9. mid \in JobEntry /\ mid.procs = procs /\ mid.last = p /\ mid.notified = old.notified
  BY <1>2, <1>8 DEF Derived, JobEntry
<1>10. new = [mid EXCEPT !.state = StateOf(mid.procs), !.exit = mid.procs[mid.last].exit]
  BY DEF RecomputeJob
<1> HIDE DEF mid, new, p
<1>11. procs[p].exit \in Statuses \cup {NoStatus}
  BY <1>6 DEF Process
<1>12. /\ new \in JobEntry /\ new.procs = procs /\ new.last = p /\ new.notified = old.notified
       /\ new.state = StateOf(procs) /\ new.exit = procs[p].exit
  BY <1>9, <1>10, <1>11, StateOfType DEF JobEntry
<1>13. Derived(new) /\ PidsOf(new) = {p}
  BY <1>6, <1>12 DEF Derived, PidsOf
<1>14. /\ Single(U) /\ U.done = T.done /\ U.p2j = T.p2j
       /\ St(U, p) = new.procs[p].state /\ Noted(U, p) = new.notified
       /\ \A q \in DOMAIN T.p2j : q # p => SameEntry(T, U, q)
  BY <1>1, <1>13, EntryEffect
<1>15. /\ St(U, p) = St(T, p) \/ (St(T, p) = "Stopped" /\ St(U, p) = "Running")
       /\ Noted(U, p) = Noted(T, p)
  BY <1>1, <1>6, <1>12, <1>14 DEF St, Noted
<1> HIDE DEF U
<1> QED
  BY <1>3, <1>14, <1>15 DEF SameEntry

\* A continued process group keeps its living and its dead.
LEMMA ContinuedLife ==
    ASSUME NEW O \in [Pids -> OsStates], NEW S
    PROVE  Continued(O, S) \in [Pids -> OsStates] /\ SameLife(O, Continued(O, S))
<1>1. \A p \in Pids : /\ Delivered(O[p], "CONT") \in OsStates
                      /\ \A x \in {"unborn", "zombie", "reaped"} :
                             O[p] = x <=> Delivered(O[p], "CONT") = x
  BY DeliveredLife
<1>2. /\ Continued(O, S) = [p \in Pids |-> IF p \in S THEN Delivered(O[p], "CONT") ELSE O[p]]
  BY DEF Continued
<1> QED
  BY <1>1, <1>2 DEF SameLife

\* A job is put in the foreground: nothing but its stop is forgotten.
LEMMA ToForegroundSound ==
    ASSUME NEW W, NEW rel, NEW asm, NEW tol, Sound(W, real, rel, asm, tol, {}),
           NEW j \in DOMAIN W.tab.jobs
    PROVE  LET V == ToForeground(W, j)
           IN  /\ Sound(V, real, rel, asm, tol, {}) /\ SameLife(W.os, V.os)
               /\ V.kids = W.kids /\ V.tab.done = W.tab.done
<1> DEFINE T1 == SetCurrentJob(W.tab, j)
           T2 == ResumeStopped(T1, j)
           T3 == WithBackground(T2, j, FALSE)
           O == Continued(W.os, PidsOf(W.tab.jobs[j]))
           V == ToForeground(W, j)
<1>1. WorldOK(W, real) /\ Single(W.tab) /\ W.os \in [Pids -> OsStates]
  BY DEF Sound, WorldOK
<1>2. /\ Single(T1) /\ T1.done = W.tab.done /\ T1.p2j = W.tab.p2j /\ T1.jobs = W.tab.jobs
      /\ \A q : SameEntry(W.tab, T1, q)
  BY <1>1, MarkersEffect
<1>3. O \in [Pids -> OsStates] /\ SameLife(W.os, O)
  BY <1>1, ContinuedLife
<1>4. V = [W EXCEPT !.tab = T3, !.os = O]
  BY DEF ToForeground
<1> HIDE DEF T1, O, V
<1>5. /\ Single(T2) /\ T2.done = T1.done /\ T2.p2j = T1.p2j
      /\ \A q \in DOMAIN T1.p2j :
            /\ St(T2, q) = St(T1, q) \/ (St(T1, q) = "Stopped" /\ St(T2, q) = "Running")
            /\ Noted(T2, q) = Noted(T1, q)
  BY <1>2, ResumeEffect
<1> HIDE DEF T2
<1>6. /\ Single(T3) /\ T3.done = T2.done /\ T3.p2j = T2.p2j
      /\ \A q \in DOMAIN T2.p2j : SameEntry(T2, T3, q)
  BY <1>5, BackgroundEffect
<1> HIDE DEF T3
<1>7. \A q \in DOMAIN W.tab.p2j :
          /\ \/ St(T3, q) = St(W.tab, q)
             \/ St(W.tab, q) = "Stopped" /\ St(T3, q) = "Running"
          /\ Noted(T3, q) = Noted(W.tab, q)
  BY <1>2, <1>5, <1>6 DEF SameEntry
<1>8. V = [tab |-> T3, sig |-> W.sig, os |-> O, kids |-> W.kids, pend |-> W.pend,
           notices |-> W.notices]
  <2>1. PICK t, g, o, h, pe, no :
            W = [tab |-> t, sig |-> g, os |-> o, kids |-> h, pend |-> pe, notices |-> no]
    BY <1>1 DEF WorldOK
  <2>2. W.sig = g /\ W.kids = h /\ W.pend = pe /\ W.notices = no
    BY <2>1
  <2>3. V = [tab |-> T3, sig |-> g, os |-> O, kids |-> h, pend |-> pe, notices |-> no]
    BY <1>4, <2>1
  <2> QED
    BY <2>2, <2>3
<1>9. /\ V.tab = T3 /\ V.sig = W.sig /\ V.os = O /\ V.kids = W.kids /\ V.pend = W.pend
      /\ V = [tab |-> V.tab, sig |-> V.sig, os |-> V.os, kids |-> V.kids, pend |-> V.pend,
              notices |-> V.notices]
  BY <1>8
<1>10. WorldOK(V, real)
  <2>1. \A q \in Pids : O[q] \in {"zombie", "reaped"} => real[q] \in Statuses
    BY <1>1, <1>3 DEF WorldOK, SameLife
  <2> QED
    BY <1>1, <1>3, <1>6, <1>9, <2>1 DEF WorldOK
<1>11. Relaxed(W.tab, V.tab)
  BY <1>2, <1>5, <1>6, <1>7, <1>9 DEF Relaxed
<1>12. Watched(V, {})
  <2>1. DOMAIN V.tab.p2j = DOMAIN W.tab.p2j
    BY <1>2, <1>5, <1>6, <1>9
  <2>2. \A q \in DOMAIN W.tab.p2j : St(V.tab, q) # "Completed" => St(W.tab, q) # "Completed"
    BY <1>7, <1>9
  <2> QED
    BY <1>9, <2>1, <2>2 DEF Sound, Watched
<1>13. Sound(V, real, rel, asm, tol, {})
  BY <1>3, <1>9, <1>10, <1>11, <1>12, RelaxSound
<1>14. V.tab.done = W.tab.done
  BY <1>2, <1>5, <1>6, <1>9
<1> QED
  BY <1>3, <1>9, <1>13, <1>14 DEF V

LEMMA FgStep ==
    ASSUME ShellInv, Fg
    PROVE  ShellInv'
<1>1. PICK W \in {Refresh(Now, TRUE, FALSE, FALSE, 0)} :
        \E j \in DOMAIN W.tab.jobs :
            /\ W.tab.jobs[j].last \in W.kids \cup DOMAIN W.tab.done
            /\ Becomes(ToForeground(W, j))
            /\ pc' = [at |-> "fg", pid |-> W.tab.jobs[j].last]
  BY DEF Fg
<1>2. PICK j \in DOMAIN W.tab.jobs :
            /\ W.tab.jobs[j].last \in W.kids \cup DOMAIN W.tab.done
            /\ Becomes(ToForeground(W, j))
            /\ pc' = [at |-> "fg", pid |-> W.tab.jobs[j].last]
  BY <1>1
<1>3. /\ real' = real /\ released' = released /\ assumed' = assumed /\ ans' = ans /\ told' = told
  BY DEF Fg, ghost
<1>4. Sound(W, real, released, assumed, told, {}) /\ Onward(os, W.os)
  BY <1>1, RefreshSound, NowFields DEF ShellInv
<1>5. PICK V : V = ToForeground(W, j)
  OBVIOUS
<1>6. /\ Sound(V, real, released, assumed, told, {}) /\ SameLife(W.os, V.os)
      /\ V.kids = W.kids /\ V.tab.done = W.tab.done
  BY <1>4, <1>5, ToForegroundSound
<1>7. Now' = V
  BY <1>2, <1>5, <1>6, Arrives DEF Sound
<1>8. Onward(os, V.os)
  BY <1>4, <1>6 DEF Onward, SameLife
<1>9. AnsOK(ans, V.os, real, released, assumed)
  BY <1>8, AnsStays DEF ShellInv
<1>10. PcOK(pc', V, released)
  <2>1. W.kids \subseteq Pids /\ DOMAIN W.tab.done \subseteq Pids
    BY <1>4, TableKeys DEF Sound, WorldOK
  <2>2. PICK p : p = W.tab.jobs[j].last
    OBVIOUS
  <2>3. pc' = [at |-> "fg", pid |-> p]
    BY <1>2, <2>2
  <2>4. pc'.pid = p /\ pc' = [at |-> "fg", pid |-> pc'.pid]
    BY <2>3
  <2>5. p \in Pids /\ p \in V.kids \cup DOMAIN V.tab.done
    BY <1>2, <1>6, <2>1, <2>2
  <2> QED
    BY <2>4, <2>5 DEF PcOK
<1> QED
  BY <1>3, <1>6, <1>7, <1>9, <1>10, Lands

LEMMA FgWaitStep ==
    ASSUME ShellInv, FgWait
    PROVE  ShellInv'
<1>0. PICK p : p = pc.pid
  OBVIOUS
<1>1. PICK R \in {WaitForBackgroundPid(Now, p, FALSE, FALSE)} :
          /\ R.kind # "blocked"
          /\ \E W \in {[R.after EXCEPT !.tab =
                            IF R.kind = "status" THEN RemoveJobByPidPreserveStatus(R.after.tab, p)
                            ELSE R.after.tab]} : Becomes(W)
          /\ ans' = [kind |-> R.kind, pid |-> p, status |-> R.status, forced |-> FALSE]
          /\ Tell(Members(table, {p}))
  BY <1>0 DEF FgWait
<1>2. /\ real' = real /\ released' = released /\ assumed' = assumed /\ pc' = Reading
      /\ pc.at = "fg"
  BY DEF FgWait
<1>3. p \in Pids /\ p \in kids \cup DOMAIN table.done
  <2>1. pc # Reading /\ pc # Executing
    BY <1>2 DEF Reading, Executing
  <2>2. ~(pc = [at |-> "any", candidates |-> pc.candidates, old |-> pc.old])
    BY <1>2
  <2>3. ~(pc = [at |-> "wait", todo |-> pc.todo, bare |-> pc.bare, force |-> pc.force,
                old |-> pc.old, unknown |-> pc.unknown])
    BY <1>2
  <2>4. PcOK(pc, Now, released)
    BY DEF ShellInv
  <2> QED
    BY <1>0, <2>1, <2>2, <2>3, <2>4, NowFields DEF PcOK
<1>4. told \subseteq told'
  BY <1>1 DEF Tell
<1>5. Sound(Now, real, released, assumed, told', {})
  BY <1>4, MoreTold DEF ShellInv
<1> DEFINE U == IF R.kind = "status" THEN RemoveJobByPidPreserveStatus(R.after.tab, p)
                ELSE R.after.tab
<1>6. PICK V : V = [R.after EXCEPT !.tab = U] /\ Becomes(V)
  BY <1>1
<1> HIDE DEF U
<1>7. V.os = R.after.os /\ V.pend = R.after.pend
  <2> DEFINE more == told' \cup {p}
  <2>1. Sound(Now, real, released, assumed, more, {})
    BY <1>5, MoreTold
  <2>2. p \in more /\ FALSE \in BOOLEAN
    OBVIOUS
  <2>3. R = WaitForBackgroundPid(Now, p, FALSE, FALSE)
    BY <1>1
  <2> HIDE DEF more
  <2>4. Waited(Now, R, p, FALSE, released, assumed, more)
    BY <1>3, <2>1, <2>2, <2>3, WaitOutcome
  <2>5. PICK t, g, o, h, pe, no :
      R.after = [tab |-> t, sig |-> g, os |-> o, kids |-> h, pend |-> pe, notices |-> no]
    BY <2>4 DEF Waited, Sound, WorldOK
  <2> QED
    BY <1>6, <2>5
<1>8. os' = R.after.os /\ pend' = R.after.pend
  BY <1>6, <1>7 DEF Becomes
<1>9. p \in DOMAIN table.p2j /\ R.after.os[p] = "reaped" /\ p \notin R.after.pend => p \in told'
  <2>1. Members(table, {p}) = {p} \cap DOMAIN table.p2j
    BY <1>5, MembersAre, NowFields DEF Sound, WorldOK
  <2> QED
    BY <1>1, <1>8, <2>1 DEF Tell
<1>10. Waited(Now, R, p, FALSE, released, assumed, told')
  <2>1. FALSE \in BOOLEAN
    OBVIOUS
  <2>2. R = WaitForBackgroundPid(Now, p, FALSE, FALSE)
    BY <1>1
  <2>3. (R.kind = "status" /\ p \in DOMAIN Now.tab.p2j /\ R.after.os[p] = "reaped"
            /\ p \notin R.after.pend) => p \in told'
    BY <1>9, NowFields
  <2> QED
    BY <1>3, <1>5, <2>1, <2>2, <2>3, WaitOutcome
<1>11. R.kind # "notfound" /\ R.kind # "any"
  BY <1>3, <1>10, NowFields DEF Waited
<1>12. Sound(V, real, released, assumed, told', {})
  <2> DEFINE A == R.after
  <2>1. Sound(A, real, released, assumed, told', {}) /\ WorldOK(A, real) /\ Single(A.tab)
    BY <1>10 DEF Waited, Sound, WorldOK
  <2> HIDE DEF A
  <2>2. V = [A EXCEPT !.tab = U]
    BY <1>6 DEF A
  <2>3. Single(U)
    BY <2>1, RemoveEffect DEF U, A
  <2>4. /\ WorldOK(V, real) /\ V.tab = U /\ V.sig = A.sig /\ V.os = A.os
        /\ V.kids = A.kids /\ V.pend = A.pend
    BY <2>1, <2>2, <2>3, ExceptTab
  <2>5. CASE R.kind = "status"
    <3>1. p \in DOMAIN A.tab.done /\ (p \in DOMAIN A.tab.p2j => p \in DOMAIN table.p2j)
      BY <1>10, <2>5, NowFields DEF Waited, A
    <3>2. p \notin A.kids
      BY <2>1, <3>1 DEF Sound, StatusTrue, AssumedGone, KidsLive, Exists
    <3>3. V.kids = A.kids \ {p}
      BY <2>4, <3>2
    <3>4. A.os[p] = "reaped" /\ p \notin A.pend /\ p \in DOMAIN A.tab.p2j => p \in told'
      BY <1>9, <3>1 DEF A
    <3>5. V.tab = RemoveJobByPidPreserveStatus(A.tab, p)
      BY <2>4, <2>5 DEF U, A
    <3> QED
      BY <2>1, <2>4, <3>1, <3>3, <3>4, <3>5, RemoveSound
  <2>6. CASE R.kind # "status"
    <3>1. U = A.tab
      BY <2>6 DEF U, A
    <3>2. V = A
      <4>1. PICK t, g, o, h, pe, no :
                A = [tab |-> t, sig |-> g, os |-> o, kids |-> h, pend |-> pe, notices |-> no]
        BY <2>1 DEF WorldOK
      <4> QED
        BY <2>2, <3>1, <4>1
    <3> QED
      BY <2>1, <3>2
  <2> QED
    BY <2>5, <2>6
<1>13. Now' = V
  BY <1>6, <1>12, Arrives DEF Sound
<1>14. AnsOK(ans', V.os, real, released, assumed)
  <2>1. ans'.kind = R.kind /\ ans'.pid = p /\ ans'.status = R.status
    BY <1>1
  <2> QED
    BY <1>3, <1>7, <1>10, <1>11, <2>1 DEF AnsOK, Waited
<1> QED
  BY <1>2, <1>12, <1>13, <1>14, Lands, IdleOK

LEMMA BgStep ==
    ASSUME ShellInv, Bg
    PROVE  ShellInv'
<1>1. PICK j \in DOMAIN table.jobs :
          /\ os' = Continued(os, PidsOf(table.jobs[j]))
          /\ table' = ResetCurrent(WithBackground(MarkRunning(table, table.jobs[j].last), j, TRUE))
  BY DEF Bg
<1>2. /\ sig' = sig /\ kids' = kids /\ pend' = pend /\ notices' = notices /\ real' = real
      /\ told' = told /\ released' = released /\ assumed' = assumed /\ ans' = ans
      /\ pc' = Reading /\ Monitor /\ "bg" \in Commands
  BY DEF Bg, Runs, Starts, ghost
<1> DEFINE p == table.jobs[j].last
           T1 == MarkRunning(table, p)
           T2 == WithBackground(T1, j, TRUE)
           T3 == ResetCurrent(T2)
<1>3. Sound(Now, real, released, assumed, told, {}) /\ WorldOK(Now, real) /\ Single(table)
      /\ os \in [Pids -> OsStates]
  BY NowFields DEF ShellInv, Sound, WorldOK
<1>4. table' = T3
  BY <1>1
<1> HIDE DEF p
<1>5. /\ Single(T1) /\ T1.done = table.done /\ T1.p2j = table.p2j
      /\ \A q \in DOMAIN table.p2j : q # p => SameEntry(table, T1, q)
      /\ p \in DOMAIN table.p2j => /\ St(T1, p) \in {"Running", "Stopped"}
                                   /\ Noted(T1, p) => Noted(table, p)
  BY <1>3, MarkEffect
<1> HIDE DEF T1
<1>6. /\ Single(T2) /\ T2.done = T1.done /\ T2.p2j = T1.p2j
      /\ \A q \in DOMAIN T1.p2j : SameEntry(T1, T2, q)
  BY <1>5, BackgroundEffect
<1> HIDE DEF T2
<1>7. /\ Single(T3) /\ T3.done = T2.done /\ T3.p2j = T2.p2j /\ \A q : SameEntry(T2, T3, q)
  BY <1>6, MarkersEffect
<1> HIDE DEF T3
<1>8. Relaxed(table, T3)
  <2>1. ASSUME NEW q \in DOMAIN table.p2j
        PROVE  /\ St(T3, q) = St(table, q) \/ St(T3, q) \in {"Running", "Stopped"}
               /\ Noted(T3, q) => Noted(table, q)
    BY <1>5, <1>6, <1>7 DEF SameEntry
  <2> QED
    BY <1>5, <1>6, <1>7, <2>1 DEF Relaxed
<1>9. os' \in [Pids -> OsStates] /\ SameLife(os, os')
  BY <1>1, <1>3, ContinuedLife
<1>10. PICK V : V = Now'
  OBVIOUS
<1>11. /\ V.tab = T3 /\ V.sig = sig /\ V.os = os' /\ V.kids = kids /\ V.pend = pend
       /\ V = [tab |-> V.tab, sig |-> V.sig, os |-> V.os, kids |-> V.kids, pend |-> V.pend,
               notices |-> V.notices]
  BY <1>2, <1>4, <1>10, NowForm
<1>12. WorldOK(V, real)
  <2>1. \A q \in Pids : V.os[q] \in {"zombie", "reaped"} => real[q] \in Statuses
    BY <1>3, <1>9, <1>11, NowFields DEF WorldOK, SameLife
  <2> QED
    BY <1>3, <1>7, <1>9, <1>11, <2>1, NowFields DEF WorldOK
<1>13. Watched(V, {})
  BY <1>2 DEF Watched, NoStaleMarks
<1>14. Sound(V, real, released, assumed, told, {})
  BY <1>3, <1>8, <1>9, <1>11, <1>12, <1>13, RelaxSound, NowFields
<1>15. AnsOK(ans, V.os, real, released, assumed)
  BY <1>9, <1>11, OnwardSame, AnsStays DEF ShellInv
<1> QED
  BY <1>2, <1>10, <1>14, <1>15, Lands, IdleOK

-----------------------------------------------------------------------------
(* The theorems. *)

LEMMA IdleVars ==
    ASSUME ShellInv, UNCHANGED vars
    PROVE  ShellInv'
<1>1. /\ table' = table /\ sig' = sig /\ os' = os /\ kids' = kids /\ pend' = pend
      /\ notices' = notices /\ pc' = pc /\ real' = real /\ told' = told
      /\ released' = released /\ assumed' = assumed /\ ans' = ans
  BY DEF vars, shell, ghost
<1>2. Now' = Now
  BY <1>1, NowForm
<1> QED
  BY <1>1, <1>2 DEF ShellInv

LEMMA NextStep ==
    ASSUME ShellInv, ShellNext
    PROVE  ShellInv'
<1>1. CASE NewLine \/ NextInList \/ NextNested
  BY <1>1, BoundaryStep DEF NewLine, NextInList, NextNested
<1>2. CASE OtherCommand \/ Foreground \/ FgInterrupted
  BY <1>2, IdleStep
<1>3. CASE Launch
  BY <1>3, LaunchStep
<1>4. CASE LoopBody
  BY <1>4, LoopBodyStep
<1>5. CASE \E p \in Pids : Exits(p) \/ ContinuedElsewhere(p)
  BY <1>5, ExitsStep, ContinuedStep
<1>6. CASE \E p \in Pids, s \in {"STOP", "CONT", "KILL"} : Kill(p, s)
  BY <1>6, KillStep
<1>7. CASE WaitOperands \/ WaitBare \/ WaitForNothing
  BY <1>7, WaitOperandsStep, WaitBareStep, WaitForNothingStep
<1>8. CASE WaitNext \/ WaitEnd \/ WaitAny \/ WaitAnyPoll \/ Interrupted
  BY <1>8, WaitNextStep, WaitEndStep, WaitAnyStep, WaitAnyPollStep, InterruptedStep
<1>9. CASE Jobs \/ DisownAll \/ DisownRunning \/ DisownJob
  BY <1>9, JobsStep, DisownAllStep, DisownRunningStep, DisownJobStep
<1>10. CASE Fg \/ FgWait \/ Bg
  BY <1>10, FgStep, FgWaitStep, BgStep
<1> QED
  BY <1>1, <1>2, <1>3, <1>4, <1>5, <1>6, <1>7, <1>8, <1>9, <1>10 DEF ShellNext

\* ShellInv is an invariant of the shell: whatever the processes do and in
\* whatever order the commands come, the handles, the stash, the saved
\* statuses, the table and what the user was told fit together.
THEOREM ShellInvariant == ShellSpec => []ShellInv
<1>1. ShellInit => ShellInv
  BY InitStep
<1>2. ShellInv /\ [ShellNext]_vars => ShellInv'
  BY NextStep, IdleVars
<1> QED
  BY <1>1, <1>2, PTL DEF ShellSpec

\* wait, wait -n and fg answer with the status the process died with, or with
\* the 0 disown made up: no refresh, stash or reaping order mixes statuses up.
THEOREM WaitAnswersTruly == ShellSpec => []WaitTruth
<1>1. ShellInv => WaitTruth
  BY DEF ShellInv, AnsOK, WaitTruth
<1> QED
  BY <1>1, ShellInvariant, PTL

\* "Not a child of this shell" is only said of a child the user let go of.
THEOREM WaitFindsChildren == ShellSpec => []WaitKnowsChildren
<1>1. ShellInv => WaitKnowsChildren
  BY DEF ShellInv, AnsOK, WaitKnowsChildren
<1> QED
  BY <1>1, ShellInvariant, PTL

\* No collected death is lost between try_wait and completed_statuses.
THEOREM StatusesAreKept == ShellSpec => []StatusKept
<1>1. ShellInv => StatusKept
  <2>1. SUFFICES ASSUME ShellInv, NEW p \in Pids, os[p] = "reaped"
                 PROVE  p \in pend \cup DOMAIN table.done \cup released
    BY DEF StatusKept
  <2>2. p \in kids \cup pend \cup DOMAIN table.done \cup released
    BY <2>1, NowFields DEF ShellInv, Sound, Accounted
  <2>3. p \notin kids
    BY <2>1, NowFields DEF ShellInv, Sound, KidsLive, Exists
  <2> QED
    BY <2>2, <2>3
<1> QED
  BY <1>1, ShellInvariant, PTL

\* A dead job leaves the table only after the user was told of it.
THEOREM LossesAreTold == ShellSpec => []NoSilentLoss
<1>1. ShellInv => NoSilentLoss
  BY NowFields DEF ShellInv, Sound, DeadListed, NoSilentLoss
<1> QED
  BY <1>1, ShellInvariant, PTL

\* The handlers of the shell, which call several methods of the table in a
\* row, leave it as consistent as a single method does.
THEOREM ShellKeepsTable ==
    ShellSpec => [](TypeOK /\ IndexConsistent /\ RecomputedAlways /\ MarkersPointToJobs)
<1>1. ShellInv => TypeOK /\ IndexConsistent /\ RecomputedAlways /\ MarkersPointToJobs
  <2>1. ShellInv => TableInv(table)
    BY NowFields DEF ShellInv, Sound, WorldOK, Single
  <2> QED
    BY <2>1 DEF TableInv, Core, TypeOK, IndexConsistent, RecomputedAlways, MarkersPointToJobs
<1> QED
  BY <1>1, ShellInvariant, PTL

\* Unless a stop or a continue may be recorded of a dead process, every
\* process the table shows alive is held or waits in the stash.
THEOREM AliveIsWatched == ASSUME NoStaleMarks PROVE ShellSpec => []JobsAreWatched
<1>1. ShellInv => JobsAreWatched
  BY NoStaleMarks, NowFields DEF ShellInv, Sound, Watched, JobsAreWatched, St
<1> QED
  BY <1>1, ShellInvariant, PTL

\* Under the same condition a published death stays published.
THEOREM DeathsStayPublished == ASSUME NoStaleMarks PROVE ShellSpec => []PublishedDeathsStay
<1>1. ShellInv => PublishedDeathsStay
  <2>1. SUFFICES ASSUME ShellInv, NEW p \in DOMAIN table.p2j, os[p] = "reaped", p \notin pend
                 PROVE  St(table, p) = "Completed"
    BY DEF PublishedDeathsStay, St
  <2>2. p \notin kids
    BY <2>1, NowFields DEF ShellInv, Sound, KidsLive, Exists
  <2> QED
    BY <2>1, <2>2, NoStaleMarks, NowFields DEF ShellInv, Sound, Watched
<1> QED
  BY <1>1, ShellInvariant, PTL
=============================================================================
