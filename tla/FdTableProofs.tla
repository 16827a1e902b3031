--------------------------- MODULE FdTableProofs ---------------------------
(***************************************************************************)
(* The descriptor table implements the kernel's: proofs for FdTable.       *)
(***************************************************************************)
EXTENDS FdTable, SequenceTheorems, TLAPS

PartialTable == UNION {[S -> SlotType] : S \in SUBSET Fds}

FrameType == [kind : {"scope", "subshell", "subst"}, binding : BOOLEAN, saved : PartialTable,
              previous : Nat, depth : Nat]

\* Each level runs at the depth its frame was pushed at, one deeper in a
\* substitution.
Deeper(f) == IF f.kind = "subst" THEN f.depth + 1 ELSE f.depth

DepthsChain ==
  /\ frames = <<>> => Generation = 0
  /\ frames # <<>> => Generation = Deeper(frames[Len(frames)]) /\ frames[1].depth = 0
  /\ \A i \in 1 .. Len(frames) - 1 : frames[i + 1].depth = Deeper(frames[i])

\* A child shell puts the whole table back, and binds no redirections; a
\* parked copy only grows.
ChildrenWhole ==
  \A i \in DOMAIN frames :
    frames[i].kind \in {"subst", "subshell"} => DOMAIN frames[i].saved = Fds /\ ~frames[i].binding

CopiesGrow ==
  \A i \in DOMAIN frames :
    frames[i].kind = "subst" =>
      /\ frames[i].depth < Generation
      /\ frames[i].previous <= parked[frames[i].depth + 1]
      /\ \A j \in DOMAIN frames : i < j => frames[i].depth < frames[j].depth

Typed == /\ table \in [Fds -> SlotType] /\ frames \in Seq(FrameType)
         /\ active \in Nat /\ parked \in Seq(Nat) /\ length \in Nat

FdInv == Typed /\ DepthsChain /\ ChildrenWhole /\ CopiesGrow /\ AliasesAreLive

-----------------------------------------------------------------------------
(* The vocabulary.                                                         *)

LEMMA NextIndex == \A m, k \in Nat : m < k => m + 1 \in 1 .. k
  OBVIOUS

LEMMA Distinct ==
  /\ Closed # Stdout /\ Closed # Stderr /\ Stdout # Stderr
  /\ \A f : File(f) # Closed /\ File(f) # Stdout /\ File(f) # Stderr
  /\ \A g : Capture(g) # Closed /\ Capture(g) # Stdout
BY DEF Closed, Stdout, Stderr, File, Capture

LEMMA SameObjects ==
  /\ Posix!Closed = Closed /\ Posix!Stdout = Stdout /\ Posix!Stderr = Stderr
  /\ \A f : Posix!File(f) = File(f)
  /\ \A g : Posix!Capture(g) = Capture(g)
BY DEF Closed, Stdout, Stderr, File, Capture,
       Posix!Closed, Posix!Stdout, Posix!Stderr, Posix!File, Posix!Capture

LEMMA SameRedirects ==
  /\ \A r : Posix!Copies(r) <=> Copies(r)
  /\ \A r : Posix!Slots(r) = Slots(r)
  /\ Posix!NoRedirect = NoRedirect
  /\ \A o : Posix!Gaps(o) = Gaps(o)
BY DEF Copies, Slots, NoRedirect, Gaps, Posix!Copies, Posix!Slots, Posix!NoRedirect, Posix!Gaps

\* A closed descriptor is closed to the user, and the other way round.
LEMMA ClosedIsClosed ==
  ASSUME NEW s \in SlotType, NEW d \in Nat
  PROVE  Resolve(s, d) = Closed <=> s.write = Closed
BY Distinct DEF Resolve, LiveStdout, SlotType

-----------------------------------------------------------------------------
(* One redirection.                                                        *)

LEMMA SlotTyped ==
  ASSUME NEW w \in Endpoints, NEW n \in Int
  PROVE  Slot(w, n) \in SlotType /\ Slot(w, n).write = w /\ Slot(w, n).record = n
BY DEF Slot, SlotType

LEMMA EndpointTypes ==
  /\ Closed \in Endpoints /\ Stdout \in Endpoints /\ Stderr \in Endpoints
  /\ \A f \in Files : File(f) \in Endpoints
BY DEF Endpoints

\* What a duplicate refers to is what its source refers to.
LEMMA DuplicateResolves ==
  ASSUME Typed, NEW target \in Fds, NEW source \in Fds,
         target = 1 \/ table[source].write # Stdout
           \/ Resolve(table[source], Generation) = LiveStdout(Generation),
         Pinned(table, Generation)
  PROVE  LET s == Slot(table[source].write, RecordFor(table, target, source))
         IN /\ s \in SlotType
            /\ Resolve(s, Generation) = Resolve(table[source], Generation)
            /\ s.write = table[source].write
            /\ s.write = Stdout =>
                 IF s.record = Unrecorded THEN target = 1 ELSE s.record \in 0 .. Generation
<1> DEFINE record == RecordFor(table, target, source)
           s == Slot(table[source].write, record)
<1>1. Generation \in Nat /\ Unrecorded \in Int /\ Unrecorded < 0
  BY LenProperties DEF Typed, Generation, Unrecorded
<1>2. /\ table[source] \in SlotType /\ table[source].write \in Endpoints
      /\ table[source].record \in Int
  BY DEF Typed, SlotType
<1>3. record \in Int
  BY <1>1, <1>2 DEF RecordFor
<1>4. s \in SlotType /\ s.write = table[source].write /\ s.record = record
  BY <1>2, <1>3, SlotTyped
<1>5. Resolve(s, Generation) = Resolve(table[source], Generation)
  <2>1. CASE table[source].write # Stdout
    BY <2>1, <1>4 DEF Resolve
  <2>2. CASE table[source].write = Stdout /\ target = 1
    <3>1. record = table[source].record
      BY <2>2 DEF RecordFor
    <3> QED BY <2>2, <3>1, <1>4 DEF Resolve
  <2>3. CASE table[source].write = Stdout /\ target # 1
    <3>1. record = Generation
      BY <2>3 DEF RecordFor
    <3>2. Resolve(table[source], Generation) = LiveStdout(Generation)
      BY <2>3
    <3>3. Resolve(s, Generation) = LiveStdout(Generation)
      BY <2>3, <3>1, <1>4, <1>1 DEF Resolve, LiveStdout
    <3> QED BY <3>2, <3>3
  <2> QED BY <2>1, <2>2, <2>3
<1>6. s.write = Stdout =>
        IF s.record = Unrecorded THEN target = 1 ELSE s.record \in 0 .. Generation
  <2> SUFFICES ASSUME table[source].write = Stdout
               PROVE IF record = Unrecorded THEN target = 1 ELSE record \in 0 .. Generation
    BY <1>4
  <2>1. CASE target = 1
    <3>1. record = table[source].record
      BY <2>1 DEF RecordFor
    <3>2. source \in DOMAIN table
      BY DEF Typed
    <3> QED BY <2>1, <3>1, <3>2 DEF Pinned
  <2>2. CASE target # 1
    <3>1. record = Generation
      BY <2>2 DEF RecordFor
    <3> QED BY <3>1, <1>1
  <2> QED BY <2>1, <2>2
<1> QED BY <1>4, <1>5, <1>6

\* What Pinned says of one slot.
PinnedSlot(fd, s, d) ==
  s.write = Stdout => IF s.record = Unrecorded THEN fd = 1 ELSE s.record \in 0 .. d

\* A table is known by its slots.
LEMMA BySlots ==
  ASSUME NEW d \in Nat, NEW u \in [Fds -> SlotType], NEW c, c = [x \in Fds |-> c[x]],
         \A x \in Fds : PinnedSlot(x, u[x], d) /\ Resolve(u[x], d) = c[x]
  PROVE  Pinned(u, d) /\ View(u, d) = c
<1>1. DOMAIN u = Fds
  OBVIOUS
<1>2. Pinned(u, d)
  BY <1>1 DEF Pinned, PinnedSlot
<1>3. View(u, d) = [x \in Fds |-> c[x]]
  BY <1>1 DEF View
<1> QED BY <1>2, <1>3

\* Slots that do not hold a stdout.
LEMMA PlainSlot ==
  ASSUME NEW d \in Nat, NEW w \in Endpoints, w # Stdout, NEW n \in Int, NEW fd
  PROVE  /\ Slot(w, n) \in SlotType
         /\ PinnedSlot(fd, Slot(w, n), d) /\ Resolve(Slot(w, n), d) = w
<1>1. Slot(w, n) \in SlotType /\ Slot(w, n).write = w
  BY SlotTyped
<1> QED BY <1>1 DEF PinnedSlot, Resolve

LEMMA RedirectFields ==
  ASSUME NEW r \in Redirects \cup {NoRedirect}
  PROVE  /\ r.op \in {"open", "both", "dup", "move", "close", "none"}
         /\ r.op # "none" => r.fd \in Fds
         /\ Copies(r) => r.from \in Fds
         /\ r.op \in {"open", "both"} => r.from \in Files
         /\ r.op = "both" => r.fd = 1
BY FdsAssumption DEF Redirects, NoRedirect, Copies

\* A redirection does to what the descriptors refer to what the kernel does.
LEMMA ApplyRedirects ==
  ASSUME Typed, NEW r \in Redirects \cup {NoRedirect}, NEW p \in BOOLEAN, Pinned(table, Generation),
         ~Redups(r)
  PROVE  LET u == Apply(table, r, p)
         IN /\ u \in [Fds -> SlotType] /\ Pinned(u, Generation)
            /\ View(u, Generation) = Posix!Redirected(View(table, Generation), r)
<1> DEFINE d == Generation
           u == Apply(table, r, p)
           v == View(table, d)
           c == Posix!Redirected(v, r)
<1>1. d \in Nat /\ Unrecorded \in Int
  BY LenProperties DEF Typed, Generation, Unrecorded
<1>2. table \in [Fds -> SlotType] /\ 1 \in Fds /\ 2 \in Fds
  BY FdsAssumption DEF Typed
<1>3. \A x \in Fds : /\ v[x] = Resolve(table[x], d) /\ PinnedSlot(x, table[x], d)
                     /\ table[x] \in SlotType
  BY <1>2 DEF View, Pinned, PinnedSlot
<1>4. /\ c = [x \in Fds |-> c[x]]
      /\ \A x \in Fds : c[x] = IF x \in Slots(r)
                                THEN IF Copies(r) THEN v[r.from]
                                     ELSE IF r.op = "close" THEN Closed ELSE File(r.from)
                                ELSE IF r.op = "move" /\ x = r.from THEN Closed ELSE v[x]
  BY SameRedirects, SameObjects DEF Posix!Redirected
<1> SUFFICES u \in [Fds -> SlotType]
               /\ \A x \in Fds : PinnedSlot(x, u[x], d) /\ Resolve(u[x], d) = c[x]
  <2> HIDE DEF u, c, d, v
  <2>1. Pinned(u, d) /\ View(u, d) = c
    BY <1>1, <1>4, BySlots
  <2> QED BY <2>1 DEF u, c, d, v
<1> HIDE DEF d, v, c
<1>5. CASE r.op = "none"
  <2>1. u = table /\ Slots(r) = {}
    BY <1>5 DEF Apply, Copies, Slots
  <2> QED BY <1>2, <1>3, <1>4, <1>5, <2>1
<1>6. CASE r.op = "open"
  <2>1. r.fd \in Fds /\ Slots(r) = {r.fd} /\ ~Copies(r)
    BY <1>6, RedirectFields DEF Slots, Copies
  <2>2. File(r.from) \in Endpoints /\ File(r.from) # Stdout
    BY <1>6, RedirectFields, EndpointTypes, Distinct
  <2> DEFINE s == Slot(File(r.from), Unrecorded)
  <2>3. s \in SlotType /\ PinnedSlot(r.fd, s, d) /\ Resolve(s, d) = File(r.from)
    BY <1>1, <2>2, PlainSlot
  <2>4. u = [table EXCEPT ![r.fd] = s]
    BY <1>6 DEF Apply, Copies, open_output
  <2> HIDE DEF s, u
  <2> QED BY <1>2, <1>3, <1>4, <1>6, <2>1, <2>3, <2>4
<1>7. CASE r.op = "both"
  <2>1. Slots(r) = {1, 2} /\ ~Copies(r)
    BY <1>7, RedirectFields DEF Slots, Copies
  <2>2. File(r.from) \in Endpoints /\ File(r.from) # Stdout
    BY <1>7, RedirectFields, EndpointTypes, Distinct
  <2> DEFINE s == Slot(File(r.from), Unrecorded)
  <2>3. /\ s \in SlotType /\ Resolve(s, d) = File(r.from)
        /\ PinnedSlot(1, s, d) /\ PinnedSlot(2, s, d)
    BY <1>1, <2>2, PlainSlot
  <2>4. u = [[table EXCEPT ![1] = s] EXCEPT ![2] = s]
    BY <1>7 DEF Apply, Copies, open_output
  <2> HIDE DEF s, u
  <2> QED BY <1>2, <1>3, <1>4, <1>7, <2>1, <2>3, <2>4
<1>8. CASE r.op = "close"
  <2>1. r.fd \in Fds /\ Slots(r) = {r.fd} /\ ~Copies(r)
    BY <1>8, RedirectFields DEF Slots, Copies
  <2> DEFINE s == Slot(Closed, Unrecorded)
  <2>2. s \in SlotType /\ PinnedSlot(r.fd, s, d) /\ Resolve(s, d) = Closed
    BY <1>1, PlainSlot, EndpointTypes, Distinct
  <2>3. u = [table EXCEPT ![r.fd] = s]
    BY <1>8 DEF Apply, Copies, close_output
  <2> HIDE DEF s, u
  <2> QED BY <1>2, <1>3, <1>4, <1>8, <2>1, <2>2, <2>3
<1>9. CASE Copies(r)
  <2>1. r.fd \in Fds /\ r.from \in Fds /\ Slots(r) = {r.fd} /\ r.op \in {"dup", "move"}
    BY <1>9, RedirectFields DEF Slots, Copies
  <2> DEFINE s == Slot(table[r.from].write, RecordFor(table, r.fd, r.from))
             w == [table EXCEPT ![r.fd] = s]
  <2>2. \/ r.fd = 1 \/ table[r.from].write # Stdout
        \/ Resolve(table[r.from], Generation) = LiveStdout(Generation)
    BY <1>9 DEF Redups
  <2>3. s \in SlotType /\ PinnedSlot(r.fd, s, d) /\ Resolve(s, d) = v[r.from]
    BY <2>1, <2>2, <1>3, DuplicateResolves DEF d, PinnedSlot
  <2>4. w = dup_entry(table, r.fd, r.from)
    BY DEF dup_entry
  <2> HIDE DEF s
  <2>5. CASE r.op = "dup" \/ r.fd = r.from
    <3>1. u = w
      BY <1>9, <2>4, <2>5 DEF Apply, Copy
    <3>2. \A x \in Fds : c[x] = IF x = r.fd THEN v[r.from] ELSE v[x]
      BY <1>4, <1>9, <2>1, <2>5
    <3> HIDE DEF u
    <3> QED BY <1>2, <1>3, <2>1, <2>3, <3>1, <3>2
  <2>6. CASE r.op = "move" /\ r.fd # r.from
    <3> DEFINE n == IF p THEN Unrecorded ELSE table[r.from].record
               e == Slot(Closed, n)
    <3>1. n \in Int
      BY <1>1, <1>3, <2>1 DEF SlotType
    <3>2. w[r.from] = table[r.from]
      BY <1>2, <2>1, <2>6
    <3>3. [table[r.from] EXCEPT !.write = Closed] = Slot(Closed, table[r.from].record)
      BY <1>3, <2>1 DEF SlotType, Slot
    <3>4. u = IF p THEN close_output(w, r.from) ELSE close(w, r.from)
      BY <1>9, <2>4, <2>6 DEF Apply, Copy
    <3>5. u = [w EXCEPT ![r.from] = e]
      BY <3>2, <3>3, <3>4 DEF close_output, close
    <3>6. e \in SlotType /\ PinnedSlot(r.from, e, d) /\ Resolve(e, d) = Closed
      BY <1>1, <3>1, PlainSlot, EndpointTypes, Distinct
    <3>7. \A x \in Fds : c[x] = IF x = r.fd THEN v[r.from] ELSE IF x = r.from THEN Closed ELSE v[x]
      BY <1>4, <1>9, <2>1, <2>6
    <3> HIDE DEF u, e
    <3> QED BY <1>2, <1>3, <2>1, <2>3, <2>6, <3>5, <3>6, <3>7
  <2> QED BY <2>1, <2>5, <2>6
<1> QED BY <1>5, <1>6, <1>7, <1>8, <1>9, RedirectFields DEF Copies

-----------------------------------------------------------------------------
(* The view of the whole state.                                            *)

Desc   == View(table, Generation)
Levels == [i \in DOMAIN frames |-> ViewFrame(frames[i])]
Sink   == [g \in 1 .. Generation |-> IF g = Generation THEN active ELSE parked[g + 1]]

NoDeviations == "redup" \notin Allowed /\ "reuse" \notin Allowed

LEMMA LevelsSeq ==
  ASSUME Typed
  PROVE  /\ Len(frames) \in Nat /\ DOMAIN frames = 1 .. Len(frames)
         /\ Levels \in Seq({ViewFrame(f) : f \in FrameType}) /\ Len(Levels) = Len(frames)
         /\ \A i \in 1 .. Len(frames) : frames[i] \in FrameType /\ Levels[i] = ViewFrame(frames[i])
<1>1. /\ Len(frames) \in Nat /\ DOMAIN frames = 1 .. Len(frames)
      /\ \A i \in 1 .. Len(frames) : frames[i] \in FrameType
  BY LenProperties, ElementOfSeq DEF Typed
<1>2. Levels \in [1 .. Len(frames) -> {ViewFrame(f) : f \in FrameType}]
  BY <1>1 DEF Levels
<1>3. Levels \in Seq({ViewFrame(f) : f \in FrameType}) /\ Len(Levels) = Len(frames)
  BY <1>1, <1>2, IsASeq, LenProperties
<1> QED BY <1>1, <1>3 DEF Levels

LEMMA SinkSeq ==
  ASSUME Typed
  PROVE  /\ Generation \in Nat /\ Sink \in Seq(Nat) /\ Len(Sink) = Generation
         /\ \A g \in 1 .. Generation : Sink[g] = IF g = Generation THEN active ELSE parked[g + 1]
         /\ \A g \in 1 .. Generation : parked[g] \in Nat
<1>1. /\ Generation \in Nat /\ DOMAIN parked = 1 .. Generation
      /\ \A g \in 1 .. Generation : parked[g] \in Nat
  BY LenProperties, ElementOfSeq DEF Typed, Generation
<1>2. active \in Nat
  BY DEF Typed
<1>3. \A g \in 1 .. Generation : g # Generation => g + 1 \in 1 .. Generation
  BY <1>1
<1>4. Sink \in [1 .. Generation -> Nat]
  BY <1>1, <1>2, <1>3 DEF Sink
<1>5. Sink \in Seq(Nat) /\ Len(Sink) = Generation
  BY <1>1, <1>4, IsASeq, LenProperties
<1> QED BY <1>1, <1>5 DEF Sink

\* A step that only changes the table.
LEMMA TableOnly ==
  ASSUME FdInv, table' \in [Fds -> SlotType], Pinned(table', Generation),
         UNCHANGED <<frames, active, parked>>, length' \in Nat
  PROVE  FdInv' /\ Levels' = Levels /\ Sink' = Sink /\ Desc' = View(table', Generation)
<1>1. Generation' = Generation
  BY DEF Generation
<1>2. Typed'
  BY DEF FdInv, Typed
<1>3. DepthsChain' /\ ChildrenWhole' /\ CopiesGrow'
  BY <1>1 DEF FdInv, DepthsChain, ChildrenWhole, CopiesGrow
<1>4. AliasesAreLive'
  BY <1>1 DEF FdInv, AliasesAreLive
<1> QED BY <1>1, <1>2, <1>3, <1>4 DEF FdInv, Levels, Sink, Desc

LEMMA SourceIsOpen ==
  ASSUME Typed, NEW r \in Redirects \cup {NoRedirect}, Copies(r), table[r.from].write # Closed
  PROVE  Desc[r.from] # Closed
<1>1. r.from \in Fds
  BY RedirectFields
<1>2. table[r.from] \in SlotType /\ Generation \in Nat /\ Desc[r.from] = Resolve(table[r.from], Generation)
  BY <1>1, SinkSeq DEF Typed, Desc, View
<1> QED BY <1>2, ClosedIsClosed

LEMMA RedirectStep ==
  ASSUME FdInv, NoDeviations, NEW r \in Program, Exec(r)
  PROVE  FdInv' /\ Posix!KernelStep
<1>1. Typed /\ Pinned(table, Generation) /\ r \in Redirects \cup {NoRedirect} /\ ~Redups(r)
  BY ProgramAssumption DEF FdInv, AliasesAreLive, Exec, Admitted, NoDeviations
<1>2. /\ table' \in [Fds -> SlotType] /\ Pinned(table', Generation)
      /\ View(table', Generation) = Posix!Redirected(Desc, r)
  BY <1>1, ApplyRedirects DEF Exec, Desc
<1>3. length' \in Nat
  BY DEF Exec, Admitted, FdInv, Typed
<1>4. FdInv' /\ Levels' = Levels /\ Sink' = Sink /\ Desc' = Posix!Redirected(Desc, r)
  BY <1>2, <1>3, TableOnly DEF Exec
<1>5. Copies(r) => Desc[r.from] # Closed
  BY <1>1, SourceIsOpen DEF Exec, Admitted
<1>6. Posix!Redirect(r)
  BY <1>4, <1>5, SameRedirects, SameObjects DEF Posix!Redirect, Desc, Levels, Sink
<1> QED BY <1>4, <1>6 DEF Posix!KernelStep

\* A dynamic descriptor is the lowest one that is free.
LEMMA AllocateStep ==
  ASSUME FdInv, NoDeviations, NEW r \in Program \cup {NoRedirect}, NEW f \in Files, ExecAllocate(r, f)
  PROVE  FdInv' /\ Posix!KernelStep
<1> DEFINE t == Apply(table, r, TRUE)
           d == Generation
           avoid == IF r.op = "none" THEN {} ELSE {r.fd}
           c == Posix!Redirected(Desc, r)
<1>1. Typed /\ Pinned(table, d) /\ r \in Redirects \cup {NoRedirect} /\ ~Redups(r) /\ d \in Nat
  BY ProgramAssumption, SinkSeq DEF FdInv, AliasesAreLive, ExecAllocate, Admitted, NoDeviations
<1>2. t \in [Fds -> SlotType] /\ Pinned(t, d) /\ View(t, d) = c
  BY <1>1, ApplyRedirects DEF Desc
<1>3. PICK fd \in DynamicFds(t, avoid) : table' = open_output(t, fd, f)
  BY DEF ExecAllocate
<1>4. fd \in Fds
  BY <1>3, FdsAssumption DEF DynamicFds, Gaps
<1>5. Copies(r) => Desc[r.from] # Closed
  BY <1>1, SourceIsOpen DEF ExecAllocate, Admitted
<1> HIDE DEF t, d, c
<1>6. c = [x \in Fds |-> c[x]] /\ \A x \in Fds : c[x] = Resolve(t[x], d)
  BY <1>2 DEF View
<1>7. Posix!Occupied(c) = occupied(t)
  <2>1. \A x \in Fds : c[x] # Closed <=> t[x].write # Closed
    BY <1>1, <1>2, <1>6, ClosedIsClosed DEF d
  <2> QED BY <2>1, SameObjects DEF Posix!Occupied, occupied
<1>8. avoid \subseteq occupied(t)
  <2> SUFFICES ASSUME r.op # "none" PROVE r.fd \in occupied(t)
    OBVIOUS
  <2>1. r.fd \in Fds /\ r.fd \in Slots(r) /\ r.op # "close"
    BY <1>1, RedirectFields DEF Slots, ExecAllocate, NoDeviations
  <2>2. c[r.fd] = IF Copies(r) THEN Desc[r.from] ELSE File(r.from)
    BY <2>1, SameRedirects, SameObjects DEF c, Posix!Redirected
  <2>3. c[r.fd] # Closed
    BY <2>2, <1>5, Distinct
  <2> QED BY <1>7, <2>1, <2>3, SameObjects DEF Posix!Occupied
<1>9. fd \in Gaps(occupied(t))
  <2>1. occupied(t) \cup avoid = occupied(t)
    BY <1>8
  <2> QED BY <1>3, <2>1 DEF DynamicFds
<1> DEFINE s == Slot(File(f), Unrecorded)
           e == [c EXCEPT ![fd] = File(f)]
<1>10. /\ s \in SlotType /\ PinnedSlot(fd, s, d) /\ Resolve(s, d) = File(f)
  BY <1>1, PlainSlot, EndpointTypes, Distinct DEF d, Unrecorded
<1>11. table' = [t EXCEPT ![fd] = s]
  BY <1>3 DEF open_output
<1> HIDE DEF s
<1>12. table' \in [Fds -> SlotType]
  BY <1>2, <1>4, <1>10, <1>11
<1>13. e = [x \in Fds |-> e[x]] /\ \A x \in Fds : e[x] = IF x = fd THEN File(f) ELSE c[x]
  BY <1>4, <1>6
<1> HIDE DEF e
<1>14. \A x \in Fds : PinnedSlot(x, table'[x], d) /\ Resolve(table'[x], d) = e[x]
  <2>1. \A x \in Fds : PinnedSlot(x, t[x], d)
    BY <1>2 DEF Pinned, PinnedSlot
  <2>2. \A x \in Fds : table'[x] = IF x = fd THEN s ELSE t[x]
    BY <1>2, <1>4, <1>10, <1>11
  <2> QED BY <1>6, <1>10, <1>13, <2>1, <2>2
<1>15. Pinned(table', d) /\ View(table', d) = e
  BY <1>1, <1>12, <1>13, <1>14, BySlots DEF d
<1>16. length' \in Nat
  BY DEF ExecAllocate, Admitted, FdInv, Typed
<1>17. FdInv' /\ Levels' = Levels /\ Sink' = Sink /\ Desc' = e
  BY <1>12, <1>15, <1>16, TableOnly DEF ExecAllocate, d
<1>18. Posix!Allocate(r, f)
  <2>1. \E x \in Posix!Gaps(Posix!Occupied(c)) : Desc' = [c EXCEPT ![x] = Posix!File(f)]
    BY <1>7, <1>9, <1>17, SameRedirects, SameObjects DEF e
  <2> QED BY <1>5, <1>17, <2>1, SameRedirects, SameObjects DEF Posix!Allocate, c, Desc, Levels, Sink
<1>19. r \in Program \cup {Posix!NoRedirect}
  BY SameRedirects
<1> QED BY <1>17, <1>18, <1>19 DEF Posix!KernelStep

-----------------------------------------------------------------------------
(* Entering a level.                                                       *)

LEMMA PushFrame ==
  ASSUME Typed, NEW f \in FrameType, frames' = Append(frames, f)
  PROVE  /\ frames' \in Seq(FrameType) /\ Len(frames') = Len(frames) + 1
         /\ DOMAIN frames' = 1 .. Len(frames) + 1
         /\ \A i \in 1 .. Len(frames) : frames'[i] = frames[i]
         /\ frames'[Len(frames) + 1] = f
         /\ Levels' = Append(Levels, ViewFrame(f))
<1>1. frames \in Seq(FrameType) /\ Len(frames) \in Nat
  BY LevelsSeq DEF Typed
<1>2. /\ frames' \in Seq(FrameType) /\ Len(frames') = Len(frames) + 1
      /\ \A i \in 1 .. Len(frames) : frames'[i] = frames[i]
      /\ frames'[Len(frames) + 1] = f
  BY <1>1, AppendProperties
<1>3. DOMAIN frames' = 1 .. Len(frames) + 1
  BY <1>2, LenProperties
<1> DEFINE S == {ViewFrame(x) : x \in FrameType}
           A == Append(Levels, ViewFrame(f))
<1>4. /\ A \in Seq(S) /\ Len(A) = Len(frames) + 1
      /\ \A i \in 1 .. Len(frames) : A[i] = Levels[i]
      /\ A[Len(frames) + 1] = ViewFrame(f)
  <2>1. Levels \in Seq(S) /\ ViewFrame(f) \in S /\ Len(Levels) = Len(frames)
    BY LevelsSeq
  <2> HIDE DEF S
  <2> QED BY <2>1, AppendProperties
<1>5. Levels' = [i \in 1 .. Len(frames) + 1 |-> ViewFrame(frames'[i])]
  BY <1>3 DEF Levels
<1>6. A = [i \in 1 .. Len(frames) + 1 |-> A[i]]
  BY <1>4, LenProperties
<1>7. \A i \in 1 .. Len(frames) + 1 : A[i] = ViewFrame(frames'[i])
  <2> SUFFICES ASSUME NEW i \in 1 .. Len(frames) + 1 PROVE A[i] = ViewFrame(frames'[i])
    OBVIOUS
  <2> HIDE DEF A
  <2>1. CASE i \in 1 .. Len(frames)
    <3>1. frames'[i] = frames[i] /\ A[i] = Levels[i]
      BY <1>2, <1>4, <2>1
    <3>2. Levels[i] = ViewFrame(frames[i])
      BY <2>1, LevelsSeq
    <3> QED BY <3>1, <3>2
  <2>2. CASE i = Len(frames) + 1
    BY <1>2, <1>4, <2>2
  <2> QED BY <1>1, <2>1, <2>2
<1> QED BY <1>2, <1>3, <1>5, <1>6, <1>7

LEMMA PushChain ==
  ASSUME FdInv, NEW f \in FrameType, frames' = Append(frames, f), f.depth = Generation,
         Pinned(f.saved, f.depth),
         f.kind \in {"subst", "subshell"} => DOMAIN f.saved = Fds /\ ~f.binding
  PROVE  /\ frames' # <<>> /\ frames'[Len(frames')] = f /\ frames'[1].depth = 0
         /\ \A i \in 1 .. Len(frames') - 1 : frames'[i + 1].depth = Deeper(frames'[i])
         /\ ChildrenWhole'
         /\ \A i \in DOMAIN frames' : Pinned(frames'[i].saved, frames'[i].depth)
<1>1. Typed
  BY DEF FdInv
<1>2. /\ Len(frames') = Len(frames) + 1 /\ DOMAIN frames' = 1 .. Len(frames) + 1
      /\ \A i \in 1 .. Len(frames) : frames'[i] = frames[i]
      /\ frames'[Len(frames) + 1] = f
  BY <1>1, PushFrame
<1>3. Len(frames) \in Nat /\ DOMAIN frames = 1 .. Len(frames) /\ (frames = <<>> <=> Len(frames) = 0)
  BY <1>1, LevelsSeq, EmptySeq DEF Typed
<1>4. frames'[1].depth = 0
  <2>1. CASE frames = <<>>
    BY <1>2, <1>3, <2>1 DEF FdInv, DepthsChain
  <2>2. CASE frames # <<>>
    BY <1>2, <1>3, <2>2 DEF FdInv, DepthsChain
  <2> QED BY <2>1, <2>2
<1>5. \A i \in 1 .. Len(frames') - 1 : frames'[i + 1].depth = Deeper(frames'[i])
  <2> SUFFICES ASSUME NEW i \in 1 .. Len(frames) PROVE frames'[i + 1].depth = Deeper(frames[i])
    BY <1>2, <1>3
  <2>1. CASE i = Len(frames)
    BY <1>2, <1>3, <2>1 DEF FdInv, DepthsChain
  <2>2. CASE i # Len(frames)
    <3>1. Len(frames) \in Nat
      BY <1>3
    <3>2. i \in 1 .. Len(frames) - 1 /\ i + 1 \in 1 .. Len(frames)
      BY <3>1, <2>2
    <3> QED BY <1>2, <3>2 DEF FdInv, DepthsChain
  <2> QED BY <2>1, <2>2
<1>6. ChildrenWhole'
  BY <1>2, <1>3 DEF FdInv, ChildrenWhole
<1>7. \A i \in DOMAIN frames' : Pinned(frames'[i].saved, frames'[i].depth)
  BY <1>2, <1>3 DEF FdInv, AliasesAreLive
<1>8. frames' # <<>>
  BY <1>2, <1>3, EmptySeq
<1> QED BY <1>2, <1>4, <1>5, <1>6, <1>7, <1>8

LEMMA FrameTyped ==
  ASSUME Typed, NEW kind \in {"scope", "subshell", "subst"}, NEW s \in PartialTable
  PROVE  /\ Frame(kind, s) \in FrameType
         /\ Frame(kind, s).kind = kind /\ Frame(kind, s).saved = s
         /\ Frame(kind, s).binding <=> kind = "scope"
         /\ Frame(kind, s).depth = Generation /\ Frame(kind, s).previous = active
         /\ ViewFrame(Frame(kind, s)) =
              [kind |-> kind, binding |-> kind = "scope", saved |-> View(s, Generation)]
<1>1. Generation \in Nat /\ active \in Nat
  BY SinkSeq DEF Typed
<1> HIDE DEF Generation
<1> QED BY <1>1 DEF Frame, FrameType, ViewFrame

\* A level that shares the captures of the one around it.
LEMMA PushFlat ==
  ASSUME FdInv, NEW kind \in {"scope", "subshell"}, NEW s \in PartialTable, Pinned(s, Generation),
         kind = "subshell" => DOMAIN s = Fds,
         frames' = Append(frames, Frame(kind, s)), UNCHANGED <<table, active, parked, length>>
  PROVE  /\ FdInv' /\ Desc' = Desc /\ Sink' = Sink
         /\ Levels' = Append(Levels, [kind |-> kind, binding |-> kind = "scope",
                                      saved |-> View(s, Generation)])
<1> DEFINE f == Frame(kind, s)
<1>1. Typed /\ Generation' = Generation
  BY DEF FdInv, Generation
<1>2. /\ f \in FrameType /\ f.kind = kind /\ f.saved = s /\ f.depth = Generation
      /\ f.binding <=> kind = "scope"
      /\ ViewFrame(f) = [kind |-> kind, binding |-> kind = "scope", saved |-> View(s, Generation)]
  BY <1>1, FrameTyped
<1> HIDE DEF f
<1>3. /\ frames' # <<>> /\ frames'[Len(frames')] = f /\ frames'[1].depth = 0
      /\ \A i \in 1 .. Len(frames') - 1 : frames'[i + 1].depth = Deeper(frames'[i])
      /\ ChildrenWhole'
      /\ \A i \in DOMAIN frames' : Pinned(frames'[i].saved, frames'[i].depth)
  BY <1>2, PushChain DEF f
<1>4. /\ frames' \in Seq(FrameType) /\ DOMAIN frames' = 1 .. Len(frames) + 1
      /\ \A i \in 1 .. Len(frames) : frames'[i] = frames[i]
      /\ frames'[Len(frames) + 1] = f
      /\ Levels' = Append(Levels, ViewFrame(f))
  BY <1>1, <1>2, PushFrame DEF f
<1>5. Typed'
  BY <1>1, <1>4 DEF Typed
<1>6. DepthsChain'
  BY <1>1, <1>2, <1>3 DEF DepthsChain, Deeper
<1>7. CopiesGrow'
  <2> SUFFICES ASSUME NEW i \in 1 .. Len(frames) + 1, frames'[i].kind = "subst"
               PROVE  /\ frames'[i].depth < Generation
                      /\ frames'[i].previous <= parked[frames'[i].depth + 1]
                      /\ \A j \in 1 .. Len(frames) + 1 :
                           i < j => frames'[i].depth < frames'[j].depth
    BY <1>1, <1>4 DEF CopiesGrow
  <2>1. Len(frames) \in Nat /\ DOMAIN frames = 1 .. Len(frames)
    BY <1>1, LevelsSeq
  <2>2. i \in DOMAIN frames /\ frames'[i] = frames[i]
    BY <1>2, <1>4, <2>1
  <2>3. /\ frames[i].depth < Generation
        /\ frames[i].previous <= parked[frames[i].depth + 1]
        /\ \A j \in DOMAIN frames : i < j => frames[i].depth < frames[j].depth
    BY <2>2 DEF FdInv, CopiesGrow
  <2>4. \A j \in 1 .. Len(frames) + 1 : i < j => frames'[i].depth < frames'[j].depth
    BY <1>2, <1>4, <2>1, <2>2, <2>3
  <2> QED BY <2>2, <2>3, <2>4
<1>8. AliasesAreLive'
  BY <1>1, <1>3 DEF FdInv, AliasesAreLive
<1>9. Desc' = Desc /\ Sink' = Sink
  BY <1>1 DEF Desc, Sink
<1> QED BY <1>2, <1>3, <1>4, <1>5, <1>6, <1>7, <1>8, <1>9 DEF FdInv

LEMMA EnterScopeStep ==
  ASSUME FdInv, EnterScope
  PROVE  FdInv' /\ Posix!KernelStep
<1>1. NoSlots \in PartialTable /\ Pinned(NoSlots, Generation)
  <2>1. NoSlots \in [{} -> SlotType] /\ {} \in SUBSET Fds
    BY DEF NoSlots
  <2> QED BY <2>1 DEF PartialTable, Pinned, NoSlots
<1>2. View(NoSlots, Generation) = [fd \in {} |-> Closed]
  BY DEF View, NoSlots
<1>3. /\ FdInv' /\ Desc' = Desc /\ Sink' = Sink
      /\ Levels' = Append(Levels, [kind |-> "scope", binding |-> TRUE,
                                   saved |-> [fd \in {} |-> Closed]])
  <2>1. /\ FdInv' /\ Desc' = Desc /\ Sink' = Sink
        /\ Levels' = Append(Levels, [kind |-> "scope", binding |-> "scope" = "scope",
                                     saved |-> View(NoSlots, Generation)])
    BY <1>1, PushFlat DEF EnterScope
  <2> QED BY <1>2, <2>1
<1>4. Posix!BeginCommand
  BY <1>3, SameObjects DEF Posix!BeginCommand, Desc, Sink, Levels
<1> QED BY <1>3, <1>4 DEF Posix!KernelStep

LEMMA WholeTable ==
  ASSUME Typed
  PROVE  table \in PartialTable /\ DOMAIN table = Fds
BY DEF Typed, PartialTable

LEMMA EnterSubshellStep ==
  ASSUME FdInv, EnterSubshell
  PROVE  FdInv' /\ Posix!KernelStep
<1>1. table \in PartialTable /\ DOMAIN table = Fds /\ Pinned(table, Generation)
  BY WholeTable DEF FdInv, AliasesAreLive
<1>2. /\ FdInv' /\ Desc' = Desc /\ Sink' = Sink
      /\ Levels' = Append(Levels, [kind |-> "subshell", binding |-> "subshell" = "scope",
                                   saved |-> View(table, Generation)])
  BY <1>1, PushFlat DEF EnterSubshell
<1>3. Levels' = Append(Levels, [kind |-> "subshell", binding |-> FALSE, saved |-> Desc])
  BY <1>2 DEF Desc
<1>4. Posix!Fork("subshell")
  BY <1>2, <1>3 DEF Posix!Fork, Desc, Sink, Levels
<1> QED BY <1>2, <1>4 DEF Posix!KernelStep

\* A new capture: the ones around it keep what they have.
LEMMA PushCapture ==
  ASSUME Typed, parked' = Append(parked, active), active' = 0
  PROVE  /\ parked' \in Seq(Nat) /\ Generation' = Generation + 1 /\ Generation \in Nat
         /\ \A g \in 1 .. Generation : parked'[g] = parked[g]
         /\ parked'[Generation + 1] = active
         /\ Sink' = Append(Sink, 0)
<1>1. parked \in Seq(Nat) /\ active \in Nat /\ Generation \in Nat /\ Len(parked) = Generation
  BY SinkSeq DEF Typed, Generation
<1>2. /\ parked' \in Seq(Nat) /\ Len(parked') = Generation + 1
      /\ \A g \in 1 .. Generation : parked'[g] = parked[g]
      /\ parked'[Generation + 1] = active
  BY <1>1, AppendProperties
<1>3. Generation' = Generation + 1
  BY <1>2 DEF Generation
<1> DEFINE A == Append(Sink, 0)
<1>4. /\ A \in Seq(Nat) /\ Len(A) = Generation + 1
      /\ \A g \in 1 .. Generation : A[g] = Sink[g]
      /\ A[Generation + 1] = 0
  <2>1. Sink \in Seq(Nat) /\ Len(Sink) = Generation
    BY SinkSeq
  <2> QED BY <2>1, AppendProperties
<1> HIDE DEF A, Generation
<1>5. Sink' = [g \in 1 .. Generation + 1 |-> IF g = Generation + 1 THEN 0 ELSE parked'[g + 1]]
  BY <1>3 DEF Sink
<1>6. A = [g \in 1 .. Generation + 1 |-> A[g]]
  BY <1>4, LenProperties
<1>7. \A g \in 1 .. Generation + 1 : A[g] = IF g = Generation + 1 THEN 0 ELSE parked'[g + 1]
  <2> SUFFICES ASSUME NEW g \in 1 .. Generation + 1, g # Generation + 1
               PROVE  A[g] = parked'[g + 1]
    BY <1>4
  <2>1. g \in 1 .. Generation
    BY <1>1
  <2>2. A[g] = IF g = Generation THEN active ELSE parked[g + 1]
    BY <1>4, <2>1, SinkSeq
  <2>3. CASE g = Generation
    BY <1>2, <2>2, <2>3
  <2>4. CASE g # Generation
    <3>1. g + 1 \in 1 .. Generation
      BY <1>1, <2>1, <2>4
    <3> QED BY <1>2, <2>2, <2>4, <3>1
  <2> QED BY <2>3, <2>4
<1> QED BY <1>1, <1>2, <1>3, <1>5, <1>6, <1>7 DEF A

\* A descriptor that names its stdout keeps its meaning in a deeper capture.
LEMMA DeeperResolves ==
  ASSUME NEW d \in Nat, NEW s \in SlotType, s.write = Stdout => s.record \in 0 .. d
  PROVE  Resolve(s, d + 1) = Resolve(s, d)
BY DEF Resolve, SlotType

LEMMA EnterSubstitutionStep ==
  ASSUME FdInv, EnterSubstitution
  PROVE  FdInv' /\ Posix!KernelStep
<1> DEFINE f == Frame("subst", table)
           d == Generation
           s == Slot(Stdout, Unrecorded)
           c == [Desc EXCEPT ![1] = Capture(d + 1)]
<1>1. /\ Typed /\ table \in PartialTable /\ DOMAIN table = Fds /\ Pinned(table, Generation)
      /\ table \in [Fds -> SlotType] /\ 1 \in Fds
  BY WholeTable, FdsAssumption DEF FdInv, AliasesAreLive, Typed
<1>2. /\ parked' \in Seq(Nat) /\ Generation' = d + 1 /\ d \in Nat
      /\ \A g \in 1 .. d : parked'[g] = parked[g]
      /\ parked'[d + 1] = active
      /\ Sink' = Append(Sink, 0)
  BY <1>1, PushCapture DEF EnterSubstitution
<1>3. /\ f \in FrameType /\ f.kind = "subst" /\ f.saved = table /\ f.depth = d
      /\ f.previous = active /\ ~f.binding
      /\ ViewFrame(f) = [kind |-> "subst", binding |-> FALSE, saved |-> Desc]
  BY <1>1, FrameTyped DEF Desc
<1>4. frames' = Append(frames, f) /\ active' = 0 /\ length' = length
  BY DEF EnterSubstitution
<1>5. table' = [table EXCEPT ![1] = s] /\ s \in SlotType /\ s.write = Stdout /\ s.record = Unrecorded
  <2>1. s \in SlotType /\ s.write = Stdout /\ s.record = Unrecorded
    BY SlotTyped, EndpointTypes DEF Unrecorded
  <2>2. table[1] \in [write : Endpoints, record : Int]
    BY <1>1 DEF SlotType
  <2>3. ForkedTable = [table EXCEPT ![1] = [table[1] EXCEPT !.record = Unrecorded]]
    BY DEF ForkedTable
  <2>4. ChildTable = [ForkedTable EXCEPT ![1] = [ForkedTable[1] EXCEPT !.write = Stdout]]
    BY DEF ChildTable
  <2>5. DOMAIN ForkedTable = Fds /\ ForkedTable[1] = [table[1] EXCEPT !.record = Unrecorded]
    BY <1>1, <2>3
  <2>6. [ForkedTable[1] EXCEPT !.write = Stdout] = s
    <3>1. PICK w \in Endpoints, n \in Int : table[1] = [write |-> w, record |-> n]
      BY <2>2
    <3>2. ForkedTable[1] = [write |-> w, record |-> Unrecorded]
      BY <2>5, <3>1
    <3> QED
      BY <3>2 DEF Slot
  <2>7. ChildTable = [table EXCEPT ![1] = s]
    BY <1>1, <2>3, <2>4, <2>6
  <2> QED
    BY <2>1, <2>7 DEF EnterSubstitution
<1> HIDE DEF f, d, s
<1>6. /\ frames' # <<>> /\ frames'[Len(frames')] = f /\ frames'[1].depth = 0
      /\ \A i \in 1 .. Len(frames') - 1 : frames'[i + 1].depth = Deeper(frames'[i])
      /\ ChildrenWhole'
      /\ \A i \in DOMAIN frames' : Pinned(frames'[i].saved, frames'[i].depth)
  BY <1>1, <1>3, <1>4, PushChain DEF d
<1>7. /\ frames' \in Seq(FrameType) /\ DOMAIN frames' = 1 .. Len(frames) + 1
      /\ \A i \in 1 .. Len(frames) : frames'[i] = frames[i]
      /\ frames'[Len(frames) + 1] = f
      /\ Levels' = Append(Levels, ViewFrame(f))
  BY <1>1, <1>3, <1>4, PushFrame
<1>8. Typed'
  <2>1. table' \in [Fds -> SlotType]
    BY <1>1, <1>5
  <2> QED BY <1>1, <1>2, <1>4, <1>7, <2>1 DEF Typed
<1>9. DepthsChain'
  BY <1>2, <1>3, <1>6 DEF DepthsChain, Deeper
<1>10. CopiesGrow'
  <2> SUFFICES ASSUME NEW i \in 1 .. Len(frames) + 1, frames'[i].kind = "subst"
               PROVE  /\ frames'[i].depth < d + 1
                      /\ frames'[i].previous <= parked'[frames'[i].depth + 1]
                      /\ \A j \in 1 .. Len(frames) + 1 :
                           i < j => frames'[i].depth < frames'[j].depth
    BY <1>2, <1>7 DEF CopiesGrow
  <2>1. Len(frames) \in Nat /\ DOMAIN frames = 1 .. Len(frames) /\ active \in Nat
    BY <1>1, LevelsSeq DEF Typed
  <2>2. CASE i = Len(frames) + 1
    BY <1>2, <1>3, <1>7, <2>1, <2>2
  <2>3. CASE i \in 1 .. Len(frames)
    <3>1. frames'[i] = frames[i] /\ frames[i].depth \in Nat
      BY <1>1, <1>7, <2>3, LevelsSeq DEF FrameType
    <3>2. /\ frames[i].depth < d
          /\ frames[i].previous <= parked[frames[i].depth + 1]
          /\ \A j \in DOMAIN frames : i < j => frames[i].depth < frames[j].depth
      BY <2>1, <2>3, <3>1 DEF FdInv, CopiesGrow, d
    <3>3. frames[i].depth + 1 \in 1 .. d
      <4>1. d \in Nat /\ frames[i].depth \in Nat /\ frames[i].depth < d
        BY <1>2, <3>1, <3>2
      <4> QED BY <4>1, NextIndex
    <3>4. ASSUME NEW j \in 1 .. Len(frames) + 1, i < j
          PROVE  frames'[i].depth < frames'[j].depth
      <4>1. CASE j = Len(frames) + 1
        BY <1>3, <1>7, <3>1, <3>2, <4>1
      <4>2. CASE j \in 1 .. Len(frames)
        BY <1>7, <2>1, <3>1, <3>2, <3>4, <4>2
      <4> QED BY <2>1, <4>1, <4>2
    <3>5. frames'[i].depth < d + 1
      BY <1>2, <3>1, <3>2
    <3>6. parked'[frames'[i].depth + 1] = parked[frames[i].depth + 1]
      <4>1. \A g \in 1 .. d : parked'[g] = parked[g]
        BY <1>2
      <4> QED BY <3>1, <3>3, <4>1
    <3>7. frames'[i].previous <= parked'[frames'[i].depth + 1]
      BY <3>1, <3>2, <3>6
    <3> QED BY <3>4, <3>5, <3>7
  <2> QED BY <2>1, <2>2, <2>3
<1>11. Pinned(table', d + 1) /\ View(table', d + 1) = c
  <2>1. \A x \in Fds : /\ Desc[x] = Resolve(table[x], d) /\ table[x] \in SlotType
                       /\ x # 1 => (table[x].write = Stdout => table[x].record \in 0 .. d)
    BY <1>1 DEF Desc, View, Pinned, d, SlotType
  <2>2. c = [x \in Fds |-> c[x]] /\ \A x \in Fds : c[x] = IF x = 1 THEN Capture(d + 1) ELSE Desc[x]
    BY <1>1 DEF Desc, View
  <2>3. Resolve(s, d + 1) = Capture(d + 1) /\ PinnedSlot(1, s, d + 1)
    BY <1>2, <1>5 DEF Resolve, LiveStdout, PinnedSlot, Unrecorded
  <2>4. \A x \in Fds : x # 1 => /\ Resolve(table[x], d + 1) = Desc[x]
                                 /\ PinnedSlot(x, table[x], d + 1)
    <3> SUFFICES ASSUME NEW x \in Fds, x # 1
                 PROVE  Resolve(table[x], d + 1) = Desc[x] /\ PinnedSlot(x, table[x], d + 1)
      OBVIOUS
    <3>1. Resolve(table[x], d + 1) = Resolve(table[x], d)
      BY <1>2, <2>1, DeeperResolves
    <3>2. PinnedSlot(x, table[x], d + 1)
      BY <1>2, <2>1 DEF PinnedSlot, Unrecorded, SlotType
    <3> QED BY <2>1, <3>1, <3>2
  <2> HIDE DEF c
  <2>5. \A x \in Fds : PinnedSlot(x, table'[x], d + 1) /\ Resolve(table'[x], d + 1) = c[x]
    BY <1>1, <1>5, <2>2, <2>3, <2>4
  <2>6. table' \in [Fds -> SlotType] /\ d + 1 \in Nat
    BY <1>2, <1>8 DEF Typed
  <2> QED BY <2>2, <2>5, <2>6, BySlots
<1>12. AliasesAreLive'
  BY <1>2, <1>6, <1>11 DEF AliasesAreLive
<1>13. Desc' = c
  BY <1>2, <1>11 DEF Desc
<1>14. Posix!Fork("subst")
  <2>1. Len(Sink) = d
    BY <1>1, SinkSeq DEF d
  <2>2. Desc' = [Desc EXCEPT ![1] = Posix!Capture(Len(Sink) + 1)]
    BY <1>13, <2>1, SameObjects
  <2>3. Levels' = Append(Levels, [kind |-> "subst", binding |-> FALSE, saved |-> Desc])
    BY <1>3, <1>7
  <2> QED BY <1>2, <2>2, <2>3 DEF Posix!Fork, Desc, Sink, Levels
<1> QED BY <1>6, <1>8, <1>9, <1>10, <1>12, <1>14 DEF FdInv, Posix!KernelStep

-----------------------------------------------------------------------------
(* Binding the redirections of a command, one by one.                      *)

\* A step that changes the top frame but neither its kind nor its depth.
LEMMA TopFrame ==
  ASSUME Typed, frames # <<>>, NEW f \in FrameType,
         frames' = [frames EXCEPT ![Len(frames)] = f]
  PROVE  LET n == Len(frames)
         IN /\ n \in Nat \ {0} /\ frames' \in Seq(FrameType) /\ Len(frames') = n
            /\ DOMAIN frames = 1 .. n /\ DOMAIN frames' = 1 .. n
            /\ \A i \in 1 .. n : frames'[i] = IF i = n THEN f ELSE frames[i]
            /\ frames[n] \in FrameType /\ Levels # <<>> /\ Levels[n] = ViewFrame(frames[n])
            /\ Levels' = [Levels EXCEPT ![n] = ViewFrame(f)] /\ Len(Levels) = n
<1> DEFINE n == Len(frames)
           E == [Levels EXCEPT ![n] = ViewFrame(f)]
<1>1. n \in Nat \ {0} /\ frames \in Seq(FrameType) /\ DOMAIN frames = 1 .. n /\ n \in 1 .. n
  BY EmptySeq, LevelsSeq DEF Typed
<1>2. /\ frames' \in Seq(FrameType) /\ Len(frames') = n
      /\ \A i \in 1 .. n : frames'[i] = IF i = n THEN f ELSE frames[i]
  BY <1>1, ExceptSeq
<1>3. DOMAIN frames' = 1 .. n
  BY <1>2, LenProperties
<1>4. /\ Len(Levels) = n /\ Levels \in Seq({ViewFrame(x) : x \in FrameType})
      /\ \A i \in 1 .. n : frames[i] \in FrameType /\ Levels[i] = ViewFrame(frames[i])
  BY LevelsSeq
<1>5. Levels # <<>> /\ DOMAIN Levels = 1 .. n
  BY <1>1, <1>4, EmptySeq, LenProperties
<1> HIDE DEF n
<1>6. Levels' = [i \in 1 .. n |-> ViewFrame(frames'[i])]
  BY <1>3 DEF Levels
<1>7. E = [i \in 1 .. n |-> IF i = n THEN ViewFrame(f) ELSE Levels[i]]
  BY <1>1, <1>5
<1>8. \A i \in 1 .. n : ViewFrame(frames'[i]) = IF i = n THEN ViewFrame(f) ELSE Levels[i]
  BY <1>2, <1>4
<1>9. Levels' = E
  BY <1>6, <1>7, <1>8
<1> QED BY <1>1, <1>2, <1>3, <1>4, <1>5, <1>9 DEF n

LEMMA BindingIsScope ==
  ASSUME FdInv, Binding
  PROVE  frames[Len(frames)].kind = "scope"
<1>1. Len(frames) \in DOMAIN frames /\ frames[Len(frames)] \in FrameType
  BY EmptySeq, LevelsSeq DEF FdInv, Typed, Binding
<1> QED BY <1>1 DEF FdInv, ChildrenWhole, Binding, FrameType

LEMMA TopStep ==
  ASSUME FdInv, frames # <<>>, NEW f \in FrameType,
         frames' = [frames EXCEPT ![Len(frames)] = f],
         f.kind = "scope", frames[Len(frames)].kind = "scope",
         f.depth = frames[Len(frames)].depth, Pinned(f.saved, Generation),
         table' \in [Fds -> SlotType], Pinned(table', Generation),
         UNCHANGED <<active, parked>>, length' \in Nat
  PROVE  /\ FdInv' /\ f.depth = Generation
         /\ Desc' = View(table', Generation) /\ Sink' = Sink
<1> DEFINE n == Len(frames)
<1>1. Typed /\ Generation' = Generation
  BY DEF FdInv, Generation
<1>2. /\ n \in Nat \ {0} /\ frames' \in Seq(FrameType) /\ Len(frames') = n
      /\ DOMAIN frames = 1 .. n /\ DOMAIN frames' = 1 .. n
      /\ \A i \in 1 .. n : frames'[i] = IF i = n THEN f ELSE frames[i]
  BY <1>1, TopFrame
<1>3. \A i \in 1 .. n : frames'[i].kind = frames[i].kind /\ frames'[i].depth = frames[i].depth
  BY <1>2
<1>4. f.depth = Generation
  BY DEF FdInv, DepthsChain, Deeper
<1> HIDE DEF n
<1>5. Typed'
  BY <1>1, <1>2 DEF Typed
<1>6. DepthsChain'
  <2>1. frames' # <<>>
    BY <1>2, EmptySeq
  <2>2. \A i \in 1 .. n : Deeper(frames'[i]) = Deeper(frames[i])
    BY <1>3 DEF Deeper
  <2>3. Generation = Deeper(frames'[n]) /\ frames'[1].depth = 0
    <3>1. 1 \in 1 .. n /\ n \in 1 .. n
      BY <1>2
    <3>2. Generation = Deeper(frames[n]) /\ frames[1].depth = 0
      BY DEF FdInv, DepthsChain, n
    <3>3. Deeper(frames'[n]) = Deeper(frames[n]) /\ frames'[1].depth = frames[1].depth
      BY <1>3, <2>2, <3>1
    <3> QED BY <3>2, <3>3
  <2>4. \A i \in 1 .. n - 1 : frames'[i + 1].depth = Deeper(frames'[i])
    <3> SUFFICES ASSUME NEW i \in 1 .. n - 1 PROVE frames'[i + 1].depth = Deeper(frames'[i])
      OBVIOUS
    <3>1. i \in 1 .. n /\ i + 1 \in 1 .. n
      BY <1>2
    <3>2. frames[i + 1].depth = Deeper(frames[i])
      BY DEF FdInv, DepthsChain, n
    <3> QED BY <1>3, <2>2, <3>1, <3>2
  <2> QED BY <1>1, <1>2, <2>1, <2>3, <2>4 DEF DepthsChain
<1>7. ChildrenWhole'
  BY <1>2 DEF FdInv, ChildrenWhole
<1>8. CopiesGrow'
  <2> SUFFICES ASSUME NEW i \in 1 .. n, frames'[i].kind = "subst"
               PROVE  /\ frames'[i].depth < Generation
                      /\ frames'[i].previous <= parked[frames'[i].depth + 1]
                      /\ \A j \in 1 .. n : i < j => frames'[i].depth < frames'[j].depth
    BY <1>1, <1>2 DEF CopiesGrow
  <2>1. frames'[i] = frames[i]
    BY <1>2
  <2> QED BY <1>2, <1>3, <2>1 DEF FdInv, CopiesGrow
<1>9. AliasesAreLive'
  BY <1>1, <1>2, <1>4 DEF FdInv, AliasesAreLive
<1> QED BY <1>1, <1>4, <1>5, <1>6, <1>7, <1>8, <1>9 DEF FdInv, Desc, Sink

LEMMA StopBinding ==
  ASSUME NEW k, NEW b, NEW w, NEW c
  PROVE  [[kind |-> k, binding |-> b, saved |-> w] EXCEPT !.binding = c]
           = [kind |-> k, binding |-> c, saved |-> w]
OBVIOUS

LEMMA RunBodyStep ==
  ASSUME FdInv, RunBody
  PROVE  FdInv' /\ Posix!KernelStep
<1> DEFINE n == Len(frames)
           f == [frames[n] EXCEPT !.binding = FALSE]
<1>1. Typed /\ frames # <<>> /\ frames[n].binding /\ table' = table
      /\ UNCHANGED <<active, parked>> /\ length' \in Nat
      /\ Pinned(table, Generation) /\ table \in [Fds -> SlotType]
  BY DEF FdInv, RunBody, Binding, Typed, AliasesAreLive
<1>2. frames[n] \in FrameType /\ n \in DOMAIN frames
  BY <1>1, EmptySeq, LevelsSeq DEF Typed
<1>3. frames' = [frames EXCEPT ![n] = f] /\ frames[n].kind = "scope"
  BY <1>1, <1>2, BindingIsScope DEF RunBody, Binding
<1>4. /\ f \in FrameType /\ f.kind = "scope" /\ f.depth = frames[n].depth
      /\ f.saved = frames[n].saved /\ f.binding = FALSE
  BY <1>2, <1>3 DEF FrameType
<1>5. Pinned(f.saved, f.depth) /\ f.depth = Generation
  BY <1>1, <1>2, <1>4 DEF FdInv, AliasesAreLive, DepthsChain, Deeper
<1> HIDE DEF f
<1>6. /\ FdInv' /\ Desc' = View(table', Generation) /\ Sink' = Sink
  BY <1>1, <1>3, <1>4, <1>5, TopStep
<1>7. /\ Levels # <<>> /\ Levels[n] = ViewFrame(frames[n]) /\ Len(Levels) = n
      /\ Levels' = [Levels EXCEPT ![n] = ViewFrame(f)]
  BY <1>1, <1>3, <1>4, TopFrame
<1>8. ViewFrame(f) = [ViewFrame(frames[n]) EXCEPT !.binding = FALSE]
  <2> DEFINE w == View(frames[n].saved, frames[n].depth)
  <2>1. f.kind = frames[n].kind /\ View(f.saved, f.depth) = w
    BY <1>3, <1>4
  <2> HIDE DEF w, n
  <2>2. ViewFrame(f) = [kind |-> frames[n].kind, binding |-> FALSE, saved |-> w]
    BY <1>4, <2>1 DEF ViewFrame
  <2>3. ViewFrame(frames[n]) = [kind |-> frames[n].kind, binding |-> frames[n].binding, saved |-> w]
    BY DEF ViewFrame, w
  <2>4. [[kind |-> frames[n].kind, binding |-> frames[n].binding, saved |-> w] EXCEPT !.binding = FALSE]
          = [kind |-> frames[n].kind, binding |-> FALSE, saved |-> w]
    BY StopBinding, Zenon
  <2> QED BY <2>2, <2>3, <2>4, Zenon
<1>9. Levels[n].binding
  BY <1>1, <1>7 DEF ViewFrame
<1> HIDE DEF n
<1>10. Levels' = [Levels EXCEPT ![Len(Levels)].binding = FALSE] /\ Levels[Len(Levels)].binding
  BY <1>7, <1>8, <1>9
<1>11. Desc' = Desc
  BY <1>1, <1>6 DEF Desc
<1>12. Posix!RunCommand
  BY <1>6, <1>7, <1>10, <1>11 DEF Posix!RunCommand, Posix!Top, Desc, Levels, Sink
<1> QED BY <1>6, <1>12 DEF Posix!KernelStep

\* The undo list of a redirection is the kernel's, and its first snapshot
\* of a slot is what the slot referred to.
LEMMA SavedView ==
  ASSUME Typed, Pinned(table, Generation), NEW s \in PartialTable, Pinned(s, Generation),
         NEW fds \in SUBSET Fds
  PROVE  LET v == View(s, Generation)
         IN /\ Saved(s, fds) \in PartialTable /\ Pinned(Saved(s, fds), Generation)
            /\ View(Saved(s, fds), Generation) =
                 [fd \in DOMAIN v \cup fds |-> IF fd \in DOMAIN v THEN v[fd] ELSE Desc[fd]]
<1> DEFINE u == Saved(s, fds)
           v == View(s, Generation)
<1>1. PICK S \in SUBSET Fds : s \in [S -> SlotType]
  BY DEF PartialTable
<1>2. DOMAIN s = S /\ DOMAIN v = S /\ \A x \in S : v[x] = Resolve(s[x], Generation)
  BY <1>1 DEF View
<1>3. table \in [Fds -> SlotType] /\ \A x \in Fds : Desc[x] = Resolve(table[x], Generation)
  BY DEF Typed, Desc, View
<1>4. u = [fd \in S \cup fds |-> IF fd \in S THEN s[fd] ELSE table[fd]]
  BY <1>2 DEF Saved
<1>5. u \in [S \cup fds -> SlotType] /\ S \cup fds \in SUBSET Fds /\ DOMAIN u = S \cup fds
  BY <1>1, <1>3, <1>4
<1>6. u \in PartialTable
  BY <1>5 DEF PartialTable
<1>7. \A x \in S \cup fds : u[x] = IF x \in S THEN s[x] ELSE table[x]
  BY <1>4
<1> HIDE DEF u, v
<1>8. Pinned(u, Generation)
  <2>1. \A x \in S : PinnedSlot(x, s[x], Generation)
    BY <1>2 DEF Pinned, PinnedSlot
  <2>2. \A x \in Fds : PinnedSlot(x, table[x], Generation)
    BY <1>3 DEF Pinned, PinnedSlot
  <2>3. \A x \in DOMAIN u : PinnedSlot(x, u[x], Generation)
    BY <1>5, <1>7, <2>1, <2>2
  <2> QED BY <2>3 DEF Pinned, PinnedSlot
<1>9. View(u, Generation) = [fd \in S \cup fds |-> IF fd \in S THEN v[fd] ELSE Desc[fd]]
  <2>1. View(u, Generation) = [fd \in S \cup fds |-> Resolve(u[fd], Generation)]
    BY <1>5 DEF View
  <2>2. \A x \in S \cup fds : Resolve(u[x], Generation) = IF x \in S THEN v[x] ELSE Desc[x]
    BY <1>2, <1>3, <1>5, <1>7
  <2> QED BY <2>1, <2>2
<1> QED BY <1>2, <1>6, <1>8, <1>9 DEF u, v

LEMMA BindRedirectStep ==
  ASSUME FdInv, NoDeviations, NEW r \in Program, BindRedirect(r)
  PROVE  FdInv' /\ Posix!KernelStep
<1> DEFINE n == Len(frames)
           s == frames[n].saved
           v == View(s, Generation)
           u == Saved(s, ToSave(r))
           f == [frames[n] EXCEPT !.saved = u]
<1>1. Typed /\ Pinned(table, Generation) /\ r \in Redirects \cup {NoRedirect} /\ ~Redups(r)
  BY ProgramAssumption DEF FdInv, AliasesAreLive, BindRedirect, Admitted, NoDeviations
<1>2. /\ table' \in [Fds -> SlotType] /\ Pinned(table', Generation)
      /\ View(table', Generation) = Posix!Redirected(Desc, r)
  BY <1>1, ApplyRedirects DEF BindRedirect, Desc
<1>3. /\ frames # <<>> /\ frames[n].binding /\ frames[n].kind = "scope"
      /\ UNCHANGED <<active, parked>> /\ length' \in Nat
  BY BindingIsScope DEF BindRedirect, Binding, Admitted, FdInv, Typed
<1>4. frames[n] \in FrameType /\ n \in DOMAIN frames
  BY <1>1, <1>3, EmptySeq, LevelsSeq DEF Typed
<1>5. frames[n].depth = Generation /\ s \in PartialTable
  BY <1>3, <1>4 DEF FdInv, DepthsChain, Deeper, FrameType
<1>6. Pinned(s, Generation)
  BY <1>4, <1>5 DEF FdInv, AliasesAreLive
<1>7. ToSave(r) \in SUBSET Fds /\ ToSave(r) = Posix!Undone(Desc, r)
  <2>1. r.op # "none"
    BY ProgramAssumption DEF Redirects
  <2>2. r.fd \in Fds /\ (r.op = "move" => r.from \in Fds)
    BY <1>1, <2>1, RedirectFields DEF Copies
  <2>3. Slots(r) \in SUBSET Fds
    BY <2>2, FdsAssumption DEF Slots
  <2>4. Desc[r.fd] # Closed <=> table[r.fd].write # Closed
    <3>1. table[r.fd] \in SlotType /\ Generation \in Nat /\ Desc[r.fd] = Resolve(table[r.fd], Generation)
      BY <1>1, <2>2, SinkSeq DEF Typed, Desc, View
    <3> QED BY <3>1, ClosedIsClosed
  <2> QED BY <2>2, <2>3, <2>4, SameRedirects, SameObjects DEF ToSave, Posix!Undone
<1>8. /\ u \in PartialTable /\ Pinned(u, Generation)
      /\ View(u, Generation) =
           [fd \in DOMAIN v \cup ToSave(r) |-> IF fd \in DOMAIN v THEN v[fd] ELSE Desc[fd]]
  BY <1>1, <1>5, <1>6, <1>7, SavedView
<1>9. frames' = [frames EXCEPT ![n] = f]
  BY DEF BindRedirect
<1> HIDE DEF u, v
<1>10. /\ f \in FrameType /\ f.kind = "scope" /\ f.depth = frames[n].depth
       /\ f.saved = u /\ f.binding = frames[n].binding
  BY <1>3, <1>4, <1>8 DEF FrameType
<1> HIDE DEF f
<1>11. /\ FdInv' /\ Desc' = View(table', Generation) /\ Sink' = Sink
  BY <1>2, <1>3, <1>8, <1>9, <1>10, TopStep
<1>12. /\ Levels # <<>> /\ Levels[n] = ViewFrame(frames[n]) /\ Len(Levels) = n
       /\ Levels' = [Levels EXCEPT ![n] = ViewFrame(f)]
  BY <1>1, <1>3, <1>9, <1>10, TopFrame
<1> HIDE DEF n, s
<1>13. ViewFrame(frames[n]) = [kind |-> "scope", binding |-> frames[n].binding, saved |-> v]
  BY <1>3, <1>5 DEF ViewFrame, v, s
<1>14. ViewFrame(f) = [kind |-> "scope", binding |-> frames[n].binding, saved |-> View(u, Generation)]
  BY <1>3, <1>5, <1>10 DEF ViewFrame
<1> DEFINE w == [fd \in DOMAIN Levels[n].saved \cup Posix!Undone(Desc, r) |->
                   IF fd \in DOMAIN Levels[n].saved THEN Levels[n].saved[fd] ELSE Desc[fd]]
<1>15. Levels[n].saved = v /\ Levels[n].binding /\ View(u, Generation) = w
  BY <1>3, <1>7, <1>8, <1>12, <1>13
<1>16. ViewFrame(f) = [Levels[n] EXCEPT !.saved = View(u, Generation)]
  BY <1>12, <1>13, <1>14
<1>17. Levels' = [Levels EXCEPT ![Len(Levels)] = [Levels[n] EXCEPT !.saved = w]]
  BY <1>12, <1>15, <1>16
<1>18. Copies(r) => Desc[r.from] # Closed
  BY <1>1, SourceIsOpen DEF BindRedirect, Admitted
<1>19. Desc' = Posix!Redirected(Desc, r)
  BY <1>2, <1>11
<1>20. Posix!BindFor(r)
  <2>1. Levels' = [Levels EXCEPT ![Len(Levels)].saved =
                    [fd \in DOMAIN @ \cup Posix!Undone(Desc, r) |->
                       IF fd \in DOMAIN @ THEN @[fd] ELSE Desc[fd]]]
    BY <1>12, <1>17
  <2>2. Levels # <<>> /\ Levels[Len(Levels)].binding
    BY <1>12, <1>15
  <2> QED BY <1>11, <1>18, <1>19, <2>1, <2>2, SameRedirects, SameObjects
          DEF Posix!BindFor, Posix!Top, Desc, Levels, Sink
<1> QED BY <1>11, <1>20 DEF Posix!KernelStep

-----------------------------------------------------------------------------
(* Leaving a level.                                                        *)

LEMMA PopFrame ==
  ASSUME Typed, frames # <<>>, frames' = SubSeq(frames, 1, Len(frames) - 1)
  PROVE  LET n == Len(frames)
         IN /\ n \in Nat \ {0} /\ frames' \in Seq(FrameType) /\ Len(frames') = n - 1
            /\ DOMAIN frames = 1 .. n /\ DOMAIN frames' = 1 .. n - 1
            /\ \A i \in 1 .. n - 1 : frames'[i] = frames[i]
            /\ frames[n] \in FrameType
            /\ Levels # <<>> /\ Len(Levels) = n /\ Levels[n] = ViewFrame(frames[n])
            /\ Levels' = SubSeq(Levels, 1, Len(Levels) - 1)
<1> DEFINE n == Len(frames)
           S == {ViewFrame(x) : x \in FrameType}
           L == SubSeq(Levels, 1, n - 1)
<1>1. n \in Nat \ {0} /\ DOMAIN frames = 1 .. n
  BY EmptySeq, LevelsSeq DEF Typed
<1>2. /\ Len(Levels) = n /\ Levels \in Seq(S)
      /\ \A i \in 1 .. n : frames[i] \in FrameType /\ Levels[i] = ViewFrame(frames[i])
  BY LevelsSeq
<1> HIDE DEF n
<1>3. /\ frames' \in Seq(FrameType) /\ Len(frames') = n - 1
      /\ \A i \in 1 .. n - 1 : frames'[i] = frames[i]
  <2>1. 1 \in Int /\ n - 1 \in Int /\ \A i \in 1 .. n - 1 : frames[i] \in FrameType
    BY <1>1, <1>2
  <2>2. /\ SubSeq(frames, 1, n - 1) \in Seq(FrameType)
        /\ Len(SubSeq(frames, 1, n - 1)) = IF 1 <= n - 1 THEN n - 1 - 1 + 1 ELSE 0
        /\ \A i \in 1 .. n - 1 - 1 + 1 : SubSeq(frames, 1, n - 1)[i] = frames[1 + i - 1]
    BY <2>1, SubSeqProperties
  <2>3. frames' = SubSeq(frames, 1, n - 1)
    BY DEF n
  <2> QED BY <1>1, <2>2, <2>3
<1>4. DOMAIN frames' = 1 .. n - 1
  BY <1>3, LenProperties
<1>5. /\ L \in Seq(S) /\ Len(L) = n - 1 /\ \A i \in 1 .. n - 1 : L[i] = Levels[i]
  <2>1. 1 \in Int /\ n - 1 \in Int /\ \A i \in 1 .. n - 1 : Levels[i] \in S
    BY <1>1, <1>2
  <2> HIDE DEF S
  <2>2. /\ L \in Seq(S)
        /\ Len(L) = IF 1 <= n - 1 THEN n - 1 - 1 + 1 ELSE 0
        /\ \A i \in 1 .. n - 1 - 1 + 1 : L[i] = Levels[1 + i - 1]
    BY <2>1, SubSeqProperties
  <2> HIDE DEF L
  <2> QED BY <1>1, <2>2
<1> HIDE DEF L
<1>6. L = [i \in 1 .. n - 1 |-> L[i]]
  <2> HIDE DEF S
  <2> QED BY <1>5, LenProperties
<1>7. Levels' = [i \in 1 .. n - 1 |-> ViewFrame(frames'[i])]
  BY <1>4 DEF Levels
<1>8. \A i \in 1 .. n - 1 : L[i] = ViewFrame(frames'[i])
  BY <1>1, <1>2, <1>3, <1>5
<1>9. Levels' = L
  BY <1>6, <1>7, <1>8
<1>10. Levels # <<>> /\ n \in 1 .. n
  BY <1>1, <1>2, EmptySeq
<1> QED BY <1>1, <1>2, <1>3, <1>4, <1>9, <1>10 DEF n, L

\* The level that is left puts back what it changed.
LEMMA PopStep ==
  ASSUME FdInv, frames # <<>>, frames' = SubSeq(frames, 1, Len(frames) - 1),
         table' = Restored(frames[Len(frames)].saved), parked' \in Seq(Nat), active' \in Nat,
         length' = length, Generation' = frames[Len(frames)].depth,
         \A g \in 1 .. Generation' : parked'[g] = parked[g]
  PROVE  /\ FdInv'
         /\ Levels # <<>> /\ Levels' = SubSeq(Levels, 1, Len(Levels) - 1)
         /\ Levels[Len(Levels)].kind = frames[Len(frames)].kind
         /\ LET saved == Levels[Len(Levels)].saved
            IN Desc' = [fd \in Fds |-> IF fd \in DOMAIN saved THEN saved[fd] ELSE Desc[fd]]
<1> DEFINE n == Len(frames)
           top == frames[n]
           s == top.saved
           d == top.depth
           v == View(s, d)
<1>1. Typed
  BY DEF FdInv
<1>2. /\ n \in Nat \ {0} /\ frames' \in Seq(FrameType) /\ Len(frames') = n - 1
      /\ DOMAIN frames = 1 .. n /\ DOMAIN frames' = 1 .. n - 1
      /\ \A i \in 1 .. n - 1 : frames'[i] = frames[i]
      /\ top \in FrameType
      /\ Levels # <<>> /\ Len(Levels) = n /\ Levels[n] = ViewFrame(top)
      /\ Levels' = SubSeq(Levels, 1, Len(Levels) - 1)
  BY <1>1, PopFrame
<1>3. s \in PartialTable /\ d \in Nat /\ top.kind \in {"scope", "subshell", "subst"}
  BY <1>2 DEF FrameType
<1>4. Generation = Deeper(top) /\ Generation' = d
  BY DEF FdInv, DepthsChain
<1>5. n \in DOMAIN frames
  BY <1>2
<1>6. top.kind = "subst" => DOMAIN s = Fds
  BY <1>5 DEF FdInv, ChildrenWhole
<1>7. Pinned(s, d) /\ Pinned(table, Generation)
  BY <1>5 DEF FdInv, AliasesAreLive
<1>8. Levels[Len(Levels)].kind = top.kind /\ Levels[Len(Levels)].saved = v
  BY <1>2 DEF ViewFrame
<1>9. DepthsChain'
  <2> HIDE DEF n
  <2>1. \A i \in 1 .. n - 1 : frames[i + 1].depth = Deeper(frames[i])
    BY DEF FdInv, DepthsChain, n
  <2>2. frames' = <<>> => d = 0
    <3> SUFFICES ASSUME frames' = <<>> PROVE d = 0
      OBVIOUS
    <3>1. n = 1
      <4>1. Len(frames') = 0
        BY EmptySeq
      <4> QED BY <1>2, <4>1
    <3>2. frames[1].depth = 0
      BY DEF FdInv, DepthsChain
    <3> QED BY <3>1, <3>2
  <2>3. frames' # <<>> => d = Deeper(frames'[Len(frames')]) /\ frames'[1].depth = 0
    <3> SUFFICES ASSUME frames' # <<>>
                 PROVE  d = Deeper(frames'[Len(frames')]) /\ frames'[1].depth = 0
      OBVIOUS
    <3>1. n - 1 \in 1 .. n - 1 /\ 1 \in 1 .. n - 1 /\ n - 1 + 1 = n
      <4>1. Len(frames') \in Nat \ {0}
        BY <1>2, EmptySeq
      <4> QED BY <1>2, <4>1
    <3>2. frames'[n - 1] = frames[n - 1] /\ frames'[1] = frames[1]
      BY <1>2, <3>1
    <3>3. frames[1].depth = 0
      BY DEF FdInv, DepthsChain
    <3>4. frames[n - 1 + 1].depth = Deeper(frames[n - 1])
      BY <2>1, <3>1
    <3> QED BY <1>2, <3>1, <3>2, <3>3, <3>4
  <2>4. \A i \in 1 .. Len(frames') - 1 : frames'[i + 1].depth = Deeper(frames'[i])
    <3> SUFFICES ASSUME NEW i \in 1 .. n - 1 - 1 PROVE frames'[i + 1].depth = Deeper(frames'[i])
      BY <1>2
    <3>1. i \in 1 .. n - 1 /\ i + 1 \in 1 .. n - 1
      BY <1>2
    <3> QED BY <1>2, <2>1, <3>1
  <2> QED BY <1>4, <2>2, <2>3, <2>4 DEF DepthsChain
<1>10. ChildrenWhole'
  <2>1. \A i \in DOMAIN frames' : i \in DOMAIN frames /\ frames'[i] = frames[i]
    BY <1>2
  <2> QED BY <2>1 DEF FdInv, ChildrenWhole
<1>11. CopiesGrow'
  <2> SUFFICES ASSUME NEW i \in 1 .. n - 1, frames'[i].kind = "subst"
               PROVE  /\ frames'[i].depth < d
                      /\ frames'[i].previous <= parked'[frames'[i].depth + 1]
                      /\ \A j \in 1 .. n - 1 : i < j => frames'[i].depth < frames'[j].depth
    BY <1>2, <1>4 DEF CopiesGrow
  <2>1. i \in 1 .. n /\ i < n /\ frames'[i] = frames[i]
    BY <1>2
  <2>2. frames[i].depth \in Nat
    BY <1>1, <2>1, LevelsSeq DEF FrameType
  <2>3. /\ frames[i].previous <= parked[frames[i].depth + 1]
        /\ \A j \in 1 .. n : i < j => frames[i].depth < frames[j].depth
    BY <1>2, <2>1 DEF FdInv, CopiesGrow
  <2>4. frames[i].depth < d
    BY <1>5, <1>2, <2>1, <2>3
  <2>5. frames[i].depth + 1 \in 1 .. Generation'
    BY <1>3, <1>4, <2>2, <2>4
  <2>6. parked'[frames[i].depth + 1] = parked[frames[i].depth + 1]
    BY <2>5
  <2>7. \A j \in 1 .. n - 1 : i < j => frames'[i].depth < frames'[j].depth
    BY <1>2, <2>1, <2>3
  <2> QED BY <2>1, <2>3, <2>4, <2>6, <2>7
<1> DEFINE u == Restored(s)
           c == [fd \in Fds |-> IF fd \in DOMAIN v THEN v[fd] ELSE Desc[fd]]
<1>12. u \in [Fds -> SlotType] /\ Pinned(u, d) /\ View(u, d) = c
  <2>1. PICK S \in SUBSET Fds : s \in [S -> SlotType]
    BY <1>3 DEF PartialTable
  <2>2. DOMAIN s = S /\ DOMAIN v = S /\ \A x \in S : v[x] = Resolve(s[x], d)
    BY <2>1 DEF View
  <2>3. table \in [Fds -> SlotType] /\ \A x \in Fds : Desc[x] = Resolve(table[x], Generation)
    BY <1>1 DEF Typed, Desc, View
  <2>4. S = Fds \/ Generation = d
    BY <1>3, <1>4, <1>6, <2>2 DEF Deeper
  <2>5. u = [x \in Fds |-> IF x \in S THEN s[x] ELSE table[x]]
    BY <2>2 DEF Restored
  <2>6. u \in [Fds -> SlotType] /\ \A x \in Fds : u[x] = IF x \in S THEN s[x] ELSE table[x]
    BY <2>1, <2>3, <2>5
  <2>7. \A x \in S : PinnedSlot(x, s[x], d)
    BY <1>7, <2>2 DEF Pinned, PinnedSlot
  <2>8. \A x \in Fds : PinnedSlot(x, table[x], Generation)
    BY <1>7, <2>3 DEF Pinned, PinnedSlot
  <2> HIDE DEF u, v, s, d
  <2>9. c = [x \in Fds |-> c[x]] /\ \A x \in Fds : c[x] = IF x \in S THEN v[x] ELSE Desc[x]
    BY <2>2
  <2> HIDE DEF c
  <2>10. \A x \in Fds : PinnedSlot(x, u[x], d) /\ Resolve(u[x], d) = c[x]
    BY <2>2, <2>3, <2>4, <2>6, <2>7, <2>8, <2>9
  <2>11. d \in Nat /\ u \in [Fds -> SlotType] /\ c = [x \in Fds |-> c[x]]
    BY <1>3, <2>6, <2>9
  <2> QED BY <2>10, <2>11, BySlots, Zenon
<1>13. table' = u
  OBVIOUS
<1> HIDE DEF u, c, v, s, d
<1>14. Typed'
  BY <1>1, <1>2, <1>12, <1>13 DEF Typed
<1>15. AliasesAreLive'
  <2>1. \A i \in DOMAIN frames' : i \in DOMAIN frames /\ frames'[i] = frames[i]
    BY <1>2
  <2> QED BY <1>4, <1>12, <1>13, <2>1 DEF FdInv, AliasesAreLive
<1>16. Desc' = c
  BY <1>4, <1>12, <1>13 DEF Desc
<1>17. Desc' = [fd \in Fds |-> IF fd \in DOMAIN Levels[Len(Levels)].saved
                               THEN Levels[Len(Levels)].saved[fd] ELSE Desc[fd]]
  BY <1>8, <1>16 DEF c
<1> QED BY <1>2, <1>8, <1>9, <1>10, <1>11, <1>14, <1>15, <1>17 DEF FdInv

LEMMA LeaveFlatStep ==
  ASSUME FdInv, LeaveScope \/ LeaveSubshell
  PROVE  FdInv' /\ Posix!KernelStep
<1> DEFINE top == frames[Len(frames)]
<1>1. /\ frames # <<>> /\ frames' = SubSeq(frames, 1, Len(frames) - 1)
      /\ table' = Restored(top.saved) /\ top.kind # "subst"
      /\ UNCHANGED <<active, parked, length>>
  BY DEF LeaveScope, LeaveSubshell
<1>2. Generation' = Generation /\ Generation = top.depth
  BY <1>1 DEF Generation, FdInv, DepthsChain, Deeper
<1>3. parked' \in Seq(Nat) /\ active' \in Nat /\ \A g \in 1 .. Generation' : parked'[g] = parked[g]
  BY <1>1 DEF FdInv, Typed
<1>4. /\ FdInv'
      /\ Levels # <<>> /\ Levels' = SubSeq(Levels, 1, Len(Levels) - 1)
      /\ Levels[Len(Levels)].kind = top.kind
      /\ Desc' = [fd \in Fds |-> IF fd \in DOMAIN Levels[Len(Levels)].saved
                                 THEN Levels[Len(Levels)].saved[fd] ELSE Desc[fd]]
  BY <1>1, <1>2, <1>3, PopStep
<1>5. Sink' = Sink
  BY <1>1, <1>2 DEF Sink
<1>6. Posix!EndLevel
  BY <1>1, <1>4, <1>5 DEF Posix!EndLevel, Posix!Top, Desc, Levels, Sink
<1> QED BY <1>4, <1>6 DEF Posix!KernelStep

\* The capture that was parked has all that was written to it meanwhile.
LEMMA LeaveSubstitutionStep ==
  ASSUME FdInv, LeaveSubstitution
  PROVE  FdInv' /\ Posix!KernelStep
<1> DEFINE n == Len(frames)
           top == frames[n]
           d == Generation
           P == SubSeq(parked, 1, d - 1)
           L == SubSeq(Sink, 1, d - 1)
<1>1. /\ frames # <<>> /\ frames' = SubSeq(frames, 1, n - 1)
      /\ table' = Restored(top.saved) /\ top.kind = "subst" /\ length' = length
      /\ parked' = P /\ active' = Merged(top.previous, parked[d])
  BY DEF LeaveSubstitution, Generation
<1>2. Typed /\ n \in DOMAIN frames /\ top \in FrameType
  <2>1. Typed
    BY DEF FdInv
  <2> QED BY <1>1, <2>1, EmptySeq, LevelsSeq DEF Typed
<1>3. d = top.depth + 1 /\ top.depth \in Nat /\ top.previous \in Nat
  BY <1>1, <1>2 DEF FdInv, DepthsChain, Deeper, FrameType
<1>4. /\ d \in Nat /\ Sink \in Seq(Nat) /\ Len(Sink) = d
      /\ \A g \in 1 .. d : Sink[g] = IF g = d THEN active ELSE parked[g + 1]
      /\ \A g \in 1 .. d : parked[g] \in Nat
  BY <1>2, SinkSeq
<1>5. top.previous <= parked[top.depth + 1]
  BY <1>1, <1>2 DEF FdInv, CopiesGrow
<1> HIDE DEF d, top, n
<1>6. active' = parked[d] /\ active' \in Nat
  <2>1. d \in 1 .. d
    BY <1>3, <1>4
  <2> QED BY <1>1, <1>3, <1>4, <1>5, <2>1 DEF Merged
<1>7. /\ P \in Seq(Nat) /\ Len(P) = d - 1 /\ \A g \in 1 .. d - 1 : P[g] = parked[g]
  <2>1. 1 \in Int /\ d - 1 \in Int /\ \A i \in 1 .. d - 1 : parked[i] \in Nat
    BY <1>4
  <2>2. /\ P \in Seq(Nat)
        /\ Len(P) = IF 1 <= d - 1 THEN d - 1 - 1 + 1 ELSE 0
        /\ \A i \in 1 .. d - 1 - 1 + 1 : P[i] = parked[1 + i - 1]
    BY <2>1, SubSeqProperties
  <2> HIDE DEF P
  <2> QED BY <1>3, <1>4, <2>2
<1>8. /\ L \in Seq(Nat) /\ Len(L) = d - 1 /\ \A g \in 1 .. d - 1 : L[g] = Sink[g]
  <2>1. 1 \in Int /\ d - 1 \in Int /\ \A i \in 1 .. d - 1 : Sink[i] \in Nat
    BY <1>4, ElementOfSeq
  <2>2. /\ L \in Seq(Nat)
        /\ Len(L) = IF 1 <= d - 1 THEN d - 1 - 1 + 1 ELSE 0
        /\ \A i \in 1 .. d - 1 - 1 + 1 : L[i] = Sink[1 + i - 1]
    BY <2>1, SubSeqProperties
  <2> HIDE DEF L
  <2> QED BY <1>3, <1>4, <2>2
<1> HIDE DEF P, L
<1>9. Generation' = d - 1 /\ d - 1 = top.depth
  BY <1>1, <1>3, <1>7 DEF Generation
<1>10. parked' \in Seq(Nat) /\ \A g \in 1 .. Generation' : parked'[g] = parked[g]
  BY <1>1, <1>7, <1>9
<1>11. /\ FdInv'
       /\ Levels # <<>> /\ Levels' = SubSeq(Levels, 1, Len(Levels) - 1)
       /\ Levels[Len(Levels)].kind = top.kind
       /\ Desc' = [fd \in Fds |-> IF fd \in DOMAIN Levels[Len(Levels)].saved
                                  THEN Levels[Len(Levels)].saved[fd] ELSE Desc[fd]]
  BY <1>1, <1>6, <1>9, <1>10, PopStep DEF top, n
<1>12. Sink' = L
  <2>1. Sink' = [g \in 1 .. d - 1 |-> IF g = d - 1 THEN active' ELSE parked'[g + 1]]
    BY <1>9 DEF Sink
  <2>2. L = [g \in 1 .. d - 1 |-> L[g]]
    BY <1>8, LenProperties
  <2>3. \A g \in 1 .. d - 1 : L[g] = IF g = d - 1 THEN active' ELSE parked'[g + 1]
    <3> SUFFICES ASSUME NEW g \in 1 .. d - 1
                 PROVE  L[g] = IF g = d - 1 THEN active' ELSE parked'[g + 1]
      OBVIOUS
    <3>1. L[g] = parked[g + 1]
      BY <1>4, <1>8
    <3>2. CASE g = d - 1
      BY <1>4, <1>6, <3>1, <3>2
    <3>3. CASE g # d - 1
      <4>1. g + 1 \in 1 .. d - 1
        BY <1>4, <3>3
      <4> QED BY <1>1, <1>7, <3>1, <3>3, <4>1
    <3> QED BY <3>2, <3>3
  <2> QED BY <2>1, <2>2, <2>3
<1>13. Posix!EndLevel
  <2>1. Sink' = SubSeq(Sink, 1, Len(Sink) - 1)
    BY <1>4, <1>12 DEF L
  <2> QED BY <1>1, <1>11, <2>1 DEF Posix!EndLevel, Posix!Top, Desc, Levels, Sink
<1> QED BY <1>11, <1>13 DEF Posix!KernelStep

-----------------------------------------------------------------------------
(* Output.                                                                 *)

\* A write reaches the capture the descriptor refers to, active or parked.
LEMMA WriteStep ==
  ASSUME FdInv, NEW fd \in Fds, Write(fd)
  PROVE  FdInv' /\ Posix!KernelStep
<1> DEFINE d == Generation
           g == IF table[fd].record = Unrecorded THEN d ELSE table[fd].record
           E == [Sink EXCEPT ![g] = @ + 1]
<1>1. /\ Typed /\ table[fd] \in SlotType /\ table[fd].write = Stdout /\ table[fd].record # 0
      /\ PinnedSlot(fd, table[fd], d)
  BY DEF FdInv, Typed, Write, AliasesAreLive, Pinned, PinnedSlot
<1>2. /\ d \in Nat /\ d > 0 /\ Sink \in Seq(Nat) /\ Len(Sink) = d
      /\ \A h \in 1 .. d : Sink[h] = IF h = d THEN active ELSE parked[h + 1]
      /\ \A h \in 1 .. d : parked[h] \in Nat
  BY <1>1, SinkSeq DEF Write
<1>3. g \in 1 .. d /\ Desc[fd] = Capture(g)
  <2>1. Desc[fd] = Resolve(table[fd], d)
    BY <1>1 DEF Desc, View, Typed
  <2>2. CASE table[fd].record = Unrecorded
    <3>1. Resolve(table[fd], d) = Capture(d)
      BY <1>1, <1>2, <2>2 DEF Resolve, LiveStdout, Unrecorded
    <3> QED BY <1>2, <2>1, <2>2, <3>1
  <2>3. CASE table[fd].record # Unrecorded
    <3>1. table[fd].record \in 1 .. d
      BY <1>1, <1>2, <2>3 DEF PinnedSlot
    <3>2. Resolve(table[fd], d) = Capture(table[fd].record)
      BY <1>1, <1>2, <3>1 DEF Resolve
    <3> QED BY <2>1, <2>3, <3>1, <3>2
  <2> QED BY <2>2, <2>3
<1>4. /\ UNCHANGED <<table, frames, length>>
      /\ IF g < d THEN parked' = [parked EXCEPT ![g + 1] = @ + 1] /\ active' = active
                  ELSE active' = active + 1 /\ parked' = parked
  BY DEF Write, WriteAt
<1> HIDE DEF g
<1>5. /\ parked \in Seq(Nat) /\ Len(parked) = d /\ active \in Nat
  BY <1>1 DEF Typed, Generation
<1> HIDE DEF d
<1>6. /\ parked' \in Seq(Nat) /\ Len(parked') = d /\ active' \in Nat
      /\ \A h \in 1 .. d : parked'[h] = IF g < d /\ h = g + 1 THEN parked[h] + 1 ELSE parked[h]
  <2>1. CASE g < d
    <3>1. g + 1 \in 1 .. d /\ parked[g + 1] + 1 \in Nat
      <4>1. g + 1 \in 1 .. d
        BY <1>2, <1>3, <2>1
      <4> QED BY <1>2, <4>1
    <3>2. parked' = [parked EXCEPT ![g + 1] = parked[g + 1] + 1] /\ active' = active
      BY <1>4, <2>1
    <3>3. /\ parked' \in Seq(Nat) /\ Len(parked') = d
          /\ \A h \in 1 .. d : parked'[h] = IF h = g + 1 THEN parked[g + 1] + 1 ELSE parked[h]
      BY <1>5, <3>1, <3>2, ExceptSeq
    <3> QED BY <1>5, <2>1, <3>2, <3>3
  <2>2. CASE ~(g < d)
    BY <1>4, <1>5, <2>2
  <2> QED BY <2>1, <2>2
<1>7. Generation' = d /\ Generation = d
  BY <1>6 DEF Generation, d
<1>8. Typed'
  BY <1>1, <1>4, <1>6 DEF Typed
<1>9. DepthsChain' /\ ChildrenWhole' /\ AliasesAreLive'
  BY <1>4, <1>7 DEF FdInv, DepthsChain, ChildrenWhole, AliasesAreLive
<1>10. CopiesGrow'
  <2> SUFFICES ASSUME NEW i \in DOMAIN frames, frames[i].kind = "subst"
               PROVE  frames[i].previous <= parked'[frames[i].depth + 1]
    BY <1>4, <1>7 DEF FdInv, CopiesGrow
  <2>1. frames[i] \in FrameType
    BY <1>1, LevelsSeq
  <2>2. /\ frames[i].depth \in Nat /\ frames[i].previous \in Nat /\ frames[i].depth < d
        /\ frames[i].previous <= parked[frames[i].depth + 1]
    BY <1>7, <2>1 DEF FdInv, CopiesGrow, FrameType
  <2>3. frames[i].depth + 1 \in 1 .. d
    BY <1>2, <2>2
  <2>4. /\ parked[frames[i].depth + 1] \in Nat
        /\ \/ parked'[frames[i].depth + 1] = parked[frames[i].depth + 1] + 1
           \/ parked'[frames[i].depth + 1] = parked[frames[i].depth + 1]
    BY <1>2, <1>6, <2>3
  <2> QED BY <2>2, <2>4
<1>11. FdInv'
  BY <1>8, <1>9, <1>10 DEF FdInv
<1>12. Desc' = Desc /\ Levels' = Levels
  BY <1>4, <1>7 DEF Desc, Levels
<1>13. Sink' = E
  <2>1. Sink' = [h \in 1 .. d |-> IF h = d THEN active' ELSE parked'[h + 1]]
    BY <1>7 DEF Sink
  <2>2. E = [h \in 1 .. d |-> IF h = g THEN Sink[g] + 1 ELSE Sink[h]]
    <3>1. DOMAIN Sink = 1 .. d /\ Sink = [h \in 1 .. d |-> Sink[h]]
      BY <1>2, LenProperties
    <3> QED BY <1>3, <3>1
  <2>3. \A h \in 1 .. d : (IF h = g THEN Sink[g] + 1 ELSE Sink[h])
                             = IF h = d THEN active' ELSE parked'[h + 1]
    <3> SUFFICES ASSUME NEW h \in 1 .. d
                 PROVE  (IF h = g THEN Sink[g] + 1 ELSE Sink[h])
                          = IF h = d THEN active' ELSE parked'[h + 1]
      OBVIOUS
    <3>1. Sink[h] = IF h = d THEN active ELSE parked[h + 1]
      BY <1>2
    <3>2. CASE h = d
      BY <1>2, <1>3, <1>4, <3>1, <3>2
    <3>3. CASE h # d
      <4>1. h + 1 \in 1 .. d
        BY <1>2, <3>3
      <4>2. parked'[h + 1] = IF g < d /\ h + 1 = g + 1 THEN parked[h + 1] + 1 ELSE parked[h + 1]
        BY <1>6, <4>1
      <4>3. h + 1 = g + 1 <=> h = g
        BY <1>2, <1>3
      <4>4. h = g => g < d
        BY <1>2, <3>3
      <4> QED BY <3>1, <3>3, <4>2, <4>3, <4>4
    <3> QED BY <3>2, <3>3
  <2> QED BY <2>1, <2>2, <2>3
<1>14. Posix!Output(fd)
  <2>1. Desc[fd].kind = "capture" /\ Desc[fd].id = g
    BY <1>3 DEF Capture
  <2>2. Sink' = [Sink EXCEPT ![Desc[fd].id] = @ + 1]
    BY <1>13, <2>1
  <2> QED BY <1>12, <2>1, <2>2 DEF Posix!Output, Desc, Levels, Sink
<1> QED BY <1>11, <1>14 DEF Posix!KernelStep

-----------------------------------------------------------------------------
(* The theorems.                                                           *)

LEMMA Start ==
  ASSUME FdInit
  PROVE  FdInv /\ Posix!Fresh
<1> DEFINE c == [fd \in Fds |-> IF fd = 1 THEN Stdout ELSE IF fd = 2 THEN Stderr ELSE Closed]
<1>1. /\ frames = <<>> /\ active = 0 /\ parked = <<>> /\ length = 0
      /\ table = [fd \in Fds |-> Slot(c[fd], Unrecorded)]
  BY DEF FdInit
<1>2. \A x \in Fds : c[x] \in Endpoints /\ (c[x] = Stdout <=> x = 1)
  BY EndpointTypes, Distinct
<1>3. Unrecorded \in Int /\ Generation = 0 /\ DOMAIN frames = {}
  <2>1. DOMAIN frames = 1 .. 0 /\ Len(parked) = 0
    BY <1>1, EmptySeq, LenProperties
  <2> QED BY <2>1 DEF Unrecorded, Generation
<1> HIDE DEF c
<1>4. table \in [Fds -> SlotType]
      /\ \A x \in Fds : table[x].write = c[x] /\ table[x].record = Unrecorded
  BY <1>1, <1>2, <1>3, SlotTyped
<1>5. Typed
  BY <1>1, <1>4, EmptySeq DEF Typed
<1>6. \A x \in Fds : PinnedSlot(x, table[x], 0) /\ Resolve(table[x], 0) = c[x]
  <2> SUFFICES ASSUME NEW x \in Fds
               PROVE  PinnedSlot(x, table[x], 0) /\ Resolve(table[x], 0) = c[x]
    OBVIOUS
  <2>1. table[x].write = c[x] /\ table[x].record = -1 /\ (c[x] = Stdout <=> x = 1)
    BY <1>2, <1>4 DEF Unrecorded
  <2>2. PinnedSlot(x, table[x], 0)
    BY <2>1 DEF PinnedSlot, Unrecorded
  <2>3. CASE c[x] = Stdout
    <3>1. Resolve(table[x], 0) = LiveStdout(0)
      BY <2>1, <2>3 DEF Resolve
    <3> QED BY <2>2, <2>3, <3>1 DEF LiveStdout
  <2>4. CASE c[x] # Stdout
    BY <2>1, <2>2, <2>4 DEF Resolve
  <2> QED BY <2>2, <2>3, <2>4
<1>7. Pinned(table, 0) /\ View(table, 0) = c
  <2>1. c = [x \in Fds |-> c[x]] /\ 0 \in Nat
    BY DEF c
  <2> QED BY <1>4, <1>6, <2>1, BySlots
<1>8. FdInv
  BY <1>1, <1>3, <1>5, <1>7, EmptySeq
     DEF FdInv, DepthsChain, ChildrenWhole, CopiesGrow, AliasesAreLive
<1>9. Len(Levels) = 0 /\ Len(Sink) = 0 /\ Desc = c
  <2>1. Len(frames) = 0
    BY <1>1, EmptySeq
  <2> QED BY <1>3, <1>5, <1>7, <2>1, LevelsSeq, SinkSeq DEF Desc
<1>10. Levels = <<>> /\ Sink = <<>>
  BY <1>5, <1>9, LevelsSeq, SinkSeq, EmptySeq
<1>11. Posix!Fresh
  BY <1>9, <1>10, SameObjects DEF Posix!Fresh, c, Desc, Levels, Sink
<1> QED BY <1>8, <1>11

LEMMA Step ==
  ASSUME FdInv, NoDeviations, FdNext
  PROVE  FdInv' /\ Posix!KernelStep
<1>1. CASE \E r \in Program : Exec(r)
  BY <1>1, RedirectStep
<1>2. CASE \E r \in Program \cup {NoRedirect}, f \in Files : ExecAllocate(r, f)
  BY <1>2, AllocateStep
<1>3. CASE EnterScope
  BY <1>3, EnterScopeStep
<1>4. CASE \E r \in Program : BindRedirect(r)
  BY <1>4, BindRedirectStep
<1>5. CASE RunBody
  BY <1>5, RunBodyStep
<1>6. CASE LeaveScope \/ LeaveSubshell
  BY <1>6, LeaveFlatStep
<1>7. CASE EnterSubshell
  BY <1>7, EnterSubshellStep
<1>8. CASE EnterSubstitution
  BY <1>8, EnterSubstitutionStep
<1>9. CASE LeaveSubstitution
  BY <1>9, LeaveSubstitutionStep
<1>10. CASE \E fd \in Fds : Write(fd)
  BY <1>10, WriteStep
<1> QED BY <1>1, <1>2, <1>3, <1>4, <1>5, <1>6, <1>7, <1>8, <1>9, <1>10 DEF FdNext

LEMMA Stutter ==
  ASSUME FdInv, UNCHANGED fdvars
  PROVE  FdInv' /\ UNCHANGED Posix!view
<1>1. UNCHANGED <<table, frames, active, parked, length>> /\ Generation' = Generation
  BY DEF fdvars, Generation
<1>2. FdInv'
  BY <1>1 DEF FdInv, Typed, DepthsChain, ChildrenWhole, CopiesGrow, AliasesAreLive
<1>3. Desc' = Desc /\ Levels' = Levels /\ Sink' = Sink
  BY <1>1 DEF Desc, Levels, Sink
<1> QED BY <1>2, <1>3 DEF Posix!view, Desc, Levels, Sink

\* The table of the shell implements the kernel's: read through the records
\* of stdout_alias_generation, every exec, redirected command, subshell,
\* substitution and write does to the descriptors what dup2, fork and exit
\* would, for every program, nesting depth and limit, as long as the program
\* triggers neither of the two known deviations.
THEOREM TableImplementsKernel ==
  ASSUME NoDeviations
  PROVE  FdSpec => ImplementsKernel
<1>1. FdInit => FdInv /\ Posix!Fresh
  BY Start
<1>2. FdInv /\ [FdNext]_fdvars => FdInv' /\ [Posix!KernelStep]_(Posix!view)
  BY Step, Stutter
<1> QED BY <1>1, <1>2, PTL DEF FdSpec, ImplementsKernel, Posix!Kernel

\* No descriptor, current or about to be put back by restore_compound_output
\* or by the end of a child shell, is left with the record of a capture that
\* has ended; and only fd 1 follows whatever stdout is at the moment.
THEOREM AliasesStayLive ==
  ASSUME NoDeviations
  PROVE  FdSpec => []AliasesAreLive
<1>1. FdInit => FdInv
  BY Start
<1>2. FdInv /\ [FdNext]_fdvars => FdInv'
  BY Step, Stutter
<1>3. FdInv => AliasesAreLive
  BY DEF FdInv
<1> QED BY <1>1, <1>2, <1>3, PTL DEF FdSpec

-----------------------------------------------------------------------------
(* Types.                                                                  *)

\* No level runs deeper than the levels within it.
DepthsOrdered ==
  \A i \in DOMAIN frames :
    /\ frames[i].depth <= Generation
    /\ \A j \in DOMAIN frames : i < j => frames[i].depth <= frames[j].depth

LEMMA OrderedPush ==
  ASSUME FdInv, DepthsOrdered, NEW kind \in {"scope", "subshell", "subst"}, NEW s \in PartialTable,
         frames' = Append(frames, Frame(kind, s)),
         Generation' \in Nat, Generation <= Generation'
  PROVE  DepthsOrdered'
<1> DEFINE f == Frame(kind, s)
           n == Len(frames)
<1>1. Typed /\ Generation \in Nat
  BY SinkSeq DEF FdInv
<1>2. f \in FrameType /\ f.depth = Generation
  BY <1>1, FrameTyped
<1> HIDE DEF f
<1>3. /\ DOMAIN frames' = 1 .. n + 1 /\ \A i \in 1 .. n : frames'[i] = frames[i]
      /\ frames'[n + 1] = f
  BY <1>1, <1>2, PushFrame DEF f
<1>4. /\ n \in Nat /\ DOMAIN frames = 1 .. n
      /\ \A i \in 1 .. n : frames[i].depth \in Nat /\ frames[i].depth <= Generation
  <2>1. n \in Nat /\ DOMAIN frames = 1 .. n /\ \A i \in 1 .. n : frames[i] \in FrameType
    BY <1>1, LevelsSeq
  <2> QED BY <2>1 DEF FrameType, DepthsOrdered
<1> HIDE DEF n
<1>5. ASSUME NEW i \in 1 .. n + 1
      PROVE  /\ frames'[i].depth <= Generation'
             /\ \A j \in 1 .. n + 1 : i < j => frames'[i].depth <= frames'[j].depth
  <2>1. CASE i = n + 1
    BY <1>1, <1>2, <1>3, <1>4, <2>1
  <2>2. CASE i \in 1 .. n
    <3>1. frames'[i] = frames[i] /\ frames[i].depth \in Nat /\ frames[i].depth <= Generation
      BY <1>3, <1>4, <2>2
    <3>2. ASSUME NEW j \in 1 .. n + 1, i < j PROVE frames'[i].depth <= frames'[j].depth
      <4>1. CASE j = n + 1
        BY <1>2, <1>3, <3>1, <4>1
      <4>2. CASE j \in 1 .. n
        BY <1>3, <1>4, <2>2, <3>1, <3>2, <4>2 DEF DepthsOrdered
      <4> QED BY <1>4, <4>1, <4>2
    <3>3. frames'[i].depth <= Generation'
      BY <1>1, <3>1
    <3> QED BY <3>2, <3>3
  <2> QED BY <1>4, <2>1, <2>2
<1> QED BY <1>3, <1>5 DEF DepthsOrdered

\* Frames that keep their depths, some of them dropped from the top.
LEMMA OrderedKept ==
  ASSUME DepthsOrdered, DOMAIN frames' \subseteq DOMAIN frames,
         \A i \in DOMAIN frames' : frames'[i].depth = frames[i].depth,
         \A i \in DOMAIN frames' : frames[i].depth <= Generation'
  PROVE  DepthsOrdered'
BY DEF DepthsOrdered

LEMMA OrderedPop ==
  ASSUME FdInv, DepthsOrdered, frames # <<>>, frames' = SubSeq(frames, 1, Len(frames) - 1),
         Generation' = frames[Len(frames)].depth
  PROVE  DepthsOrdered'
<1> DEFINE n == Len(frames)
<1>1. Typed
  BY DEF FdInv
<1>2. /\ n \in Nat \ {0} /\ DOMAIN frames = 1 .. n /\ DOMAIN frames' = 1 .. n - 1
      /\ \A i \in 1 .. n - 1 : frames'[i] = frames[i]
  BY <1>1, PopFrame
<1>3. \A i \in 1 .. n - 1 : frames[i].depth <= frames[n].depth
  BY <1>2 DEF DepthsOrdered
<1> QED BY <1>2, <1>3, OrderedKept

LEMMA OrderedStep ==
  ASSUME FdInv, FdInv', DepthsOrdered, [FdNext]_fdvars
  PROVE  DepthsOrdered'
<1>1. Typed /\ Typed' /\ Generation \in Nat /\ Generation' \in Nat
  <2>1. Typed /\ Typed'
    BY DEF FdInv
  <2> QED BY <2>1, LenProperties DEF Typed, Generation
<1>2. ASSUME UNCHANGED <<frames, parked>> PROVE DepthsOrdered'
  <2>1. Generation' = Generation
    BY <1>2 DEF Generation
  <2> QED BY <1>2, <2>1 DEF DepthsOrdered
<1>3. CASE \E r \in Program : Exec(r)
  BY <1>2, <1>3 DEF Exec
<1>4. CASE \E r \in Program \cup {NoRedirect}, f \in Files : ExecAllocate(r, f)
  BY <1>2, <1>4 DEF ExecAllocate
<1>5. CASE EnterScope \/ EnterSubshell \/ EnterSubstitution
  <2>1. Generation <= Generation'
    <3>1. CASE EnterScope \/ EnterSubshell
      BY <1>1, <3>1 DEF EnterScope, EnterSubshell, Generation
    <3>2. CASE EnterSubstitution
      <4>1. Generation' = Generation + 1
        BY <1>1, <3>2, PushCapture DEF EnterSubstitution
      <4> QED BY <1>1, <4>1
    <3> QED BY <1>5, <3>1, <3>2
  <2>2. NoSlots \in PartialTable /\ table \in PartialTable
    <3>1. NoSlots \in [{} -> SlotType] /\ {} \in SUBSET Fds
      BY DEF NoSlots
    <3>2. NoSlots \in PartialTable
      BY <3>1 DEF PartialTable
    <3> QED BY <1>1, <3>2, WholeTable
  <2>3. \E kind \in {"scope", "subshell", "subst"}, s \in PartialTable :
          frames' = Append(frames, Frame(kind, s))
    BY <1>5, <2>2 DEF EnterScope, EnterSubshell, EnterSubstitution
  <2> QED BY <1>1, <2>1, <2>3, OrderedPush
<1>6. CASE RunBody \/ \E r \in Program : BindRedirect(r)
  <2> DEFINE n == Len(frames)
  <2>1. frames # <<>> /\ parked' = parked
    BY <1>6 DEF RunBody, BindRedirect, Binding
  <2>2. n \in DOMAIN frames /\ frames[n] \in FrameType
    BY <1>1, <2>1, EmptySeq, LevelsSeq DEF Typed
  <2>3. \E b, s : frames' = [frames EXCEPT ![n] = [frames[n] EXCEPT !.binding = b]]
                   \/ frames' = [frames EXCEPT ![n] = [frames[n] EXCEPT !.saved = s]]
    BY <1>6 DEF RunBody, BindRedirect
  <2>4. DOMAIN frames' = DOMAIN frames /\ \A i \in DOMAIN frames : frames'[i].depth = frames[i].depth
    BY <2>2, <2>3 DEF FrameType
  <2>5. \A i \in DOMAIN frames : frames[i].depth <= Generation'
    BY <2>1 DEF DepthsOrdered, Generation
  <2> QED BY <2>4, <2>5, OrderedKept
<1>7. CASE LeaveScope \/ LeaveSubshell \/ LeaveSubstitution
  <2> DEFINE top == frames[Len(frames)]
  <2>1. frames # <<>> /\ frames' = SubSeq(frames, 1, Len(frames) - 1)
    BY <1>7 DEF LeaveScope, LeaveSubshell, LeaveSubstitution
  <2>2. Generation = Deeper(top) /\ top.depth \in Nat
    <3>1. Len(frames) \in 1 .. Len(frames)
      BY <1>1, <2>1, EmptySeq DEF Typed
    <3>2. top \in FrameType
      BY <1>1, <3>1, LevelsSeq
    <3> QED BY <2>1, <3>2 DEF FdInv, DepthsChain, FrameType
  <2>3. Generation' = top.depth
    <3>1. CASE LeaveScope \/ LeaveSubshell
      BY <2>2, <3>1 DEF LeaveScope, LeaveSubshell, Deeper, Generation
    <3>2. CASE LeaveSubstitution
      <4>1. top.kind = "subst" /\ parked' = SubSeq(parked, 1, Generation - 1)
        BY <3>2 DEF LeaveSubstitution, Generation
      <4>2. Generation = top.depth + 1
        BY <2>2, <4>1 DEF Deeper
      <4>3. \A i \in 1 .. Generation - 1 : parked[i] \in Nat
        BY <1>1, SinkSeq
      <4>4. Len(SubSeq(parked, 1, Generation - 1)) =
              IF 1 <= Generation - 1 THEN Generation - 1 - 1 + 1 ELSE 0
        BY <1>1, <4>3, SubSeqProperties
      <4>5. Generation' = Len(SubSeq(parked, 1, Generation - 1))
        BY <4>1 DEF Generation
      <4> HIDE DEF top
      <4> QED BY <1>1, <2>2, <4>2, <4>4, <4>5
    <3> QED BY <1>7, <3>1, <3>2
  <2> QED BY <2>1, <2>3, OrderedPop
<1>8. CASE \E fd \in Fds : Write(fd)
  <2>1. PICK fd \in Fds : Write(fd)
    BY <1>8
  <2>2. frames' = frames
    BY <2>1 DEF Write
  <2>3. Generation' = Generation
    BY <1>1, <2>1, LenProperties DEF Write, WriteAt, Typed, Generation
  <2> QED BY <2>2, <2>3 DEF DepthsOrdered
<1>9. CASE UNCHANGED fdvars
  BY <1>2, <1>9 DEF fdvars
<1> QED BY <1>3, <1>4, <1>5, <1>6, <1>7, <1>8, <1>9 DEF FdNext

\* Every slot, frame and buffer is what the operations of the table expect,
\* and no frame waits for a capture that is not running.
THEOREM FdTypes ==
  ASSUME NoDeviations
  PROVE  FdSpec => []FdTypeOK
<1>1. FdInit => FdInv /\ DepthsOrdered
  <2> SUFFICES ASSUME FdInit PROVE FdInv /\ DepthsOrdered
    OBVIOUS
  <2>1. FdInv
    BY Start
  <2>2. DOMAIN frames = 1 .. 0
    BY EmptySeq, LenProperties DEF FdInit
  <2> QED BY <2>1, <2>2 DEF DepthsOrdered
<1>2. (FdInv /\ DepthsOrdered) /\ [FdNext]_fdvars => (FdInv /\ DepthsOrdered)'
  BY Step, Stutter, OrderedStep
<1>3. FdInv /\ DepthsOrdered => FdTypeOK
  <2> SUFFICES ASSUME FdInv, DepthsOrdered PROVE FdTypeOK
    OBVIOUS
  <2>1. /\ Typed /\ Generation \in Nat /\ DOMAIN frames = 1 .. Len(frames)
        /\ \A i \in 1 .. Len(frames) : frames[i] \in FrameType
    BY LevelsSeq, SinkSeq DEF FdInv
  <2>2. ASSUME NEW i \in DOMAIN frames
        PROVE  /\ frames[i].kind \in {"scope", "subshell", "subst"}
               /\ frames[i].previous \in Nat /\ frames[i].depth \in 0 .. Generation
               /\ IsSaved(frames[i].saved)
    <3>1. frames[i] \in FrameType /\ frames[i].depth <= Generation
      BY <2>1 DEF DepthsOrdered
    <3>2. IsSaved(frames[i].saved)
      BY <3>1 DEF FrameType, PartialTable, IsSaved
    <3> QED BY <2>1, <3>1, <3>2 DEF FrameType
  <2> QED BY <2>1, <2>2 DEF FdTypeOK, Typed
<1> QED BY <1>1, <1>2, <1>3, PTL DEF FdSpec

=============================================================================
