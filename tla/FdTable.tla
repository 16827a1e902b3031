------------------------------ MODULE FdTable ------------------------------
(***************************************************************************)
(* The descriptor table of the shell (executor/fd_table.rs), its output    *)
(* side, with the commands that change it: exec with redirections, the     *)
(* redirected builtins that run a body in place, subshells and command     *)
(* substitutions.  All of them run in one process: a subshell is a copy of *)
(* the table, and a substitution a buffer the writes to stdout go to.      *)
(*                                                                         *)
(* An endpoint `Stdout` therefore does not say which stdout is meant.  The *)
(* record beside it (stdout_alias_generation) does: the capture that was   *)
(* active when the descriptor was duplicated, 0 for the stdout of the      *)
(* process, or nothing, which means whatever stdout is at the moment.      *)
(***************************************************************************)
EXTENDS Redirections, Sequences

CONSTANTS MaxLevels,  \* bound: nested commands and child shells
          MaxOutput,  \* bound: writes a buffer receives
          MaxLength,  \* bound: redirections made in one run
          Allowed     \* which of the known deviations a program may trigger

ASSUME BoundsAssumption == MaxLevels \in Nat /\ MaxOutput \in Nat /\ MaxLength \in Nat

VARIABLES table,   \* FdTable: endpoint and alias record of each descriptor
          frames,  \* what the running commands have to put back
          active,  \* STDOUT_CAPTURE: bytes in the capture being filled
          parked,  \* STDOUT_CAPTURE_PARKED: the outer captures meanwhile
          length   \* how many redirections were made, for the bound only

fdvars == <<table, frames, active, parked, length>>

Unrecorded == -1

Slot(write, record) == [write |-> write, record |-> record]

\* stdout_capture_generation; 0 also stands for "no capture is active".
Generation == Len(parked)

(***************************************************************************)
(* The operations of the table.                                            *)
(***************************************************************************)

open_output(t, fd, f) == [t EXCEPT ![fd] = Slot(File(f), Unrecorded)]

\* Bug for the mutant: the record of the source is copied, to whatever target.
MutRecordFor(t, target, source) ==
  IF t[source].write = Stdout THEN t[source].record ELSE Unrecorded

\* Which stdout a duplicate of a Stdout endpoint stands for.
RecordFor(t, target, source) ==
  IF t[source].write # Stdout THEN Unrecorded
  ELSE IF target = 1 THEN t[source].record
  ELSE Generation

dup_entry(t, target, source) ==
  [t EXCEPT ![target] = Slot(t[source].write, RecordFor(t, target, source))]

close_output(t, fd) == [t EXCEPT ![fd] = Slot(Closed, Unrecorded)]

\* close drops the endpoint and leaves the record.
close(t, fd) == [t EXCEPT ![fd].write = Closed]

\* N>&M and N>&M-; a move of a descriptor onto itself closes nothing.
Copy(t, r, persistent) ==
  LET copied == dup_entry(t, r.fd, r.from)
  IN IF r.op = "dup" \/ r.fd = r.from THEN copied
     ELSE IF persistent THEN close_output(copied, r.from)
     ELSE close(copied, r.from)

\* The redirections of exec (persistent) or of a command with a body.
Apply(t, r, persistent) ==
  IF Copies(r) THEN Copy(t, r, persistent)
  ELSE IF r.op = "open" THEN open_output(t, r.fd, r.from)
  ELSE IF r.op = "both" THEN open_output(open_output(t, 1, r.from), 2, r.from)
  ELSE IF r.op = "close" THEN close_output(t, r.fd)
  ELSE t

occupied(t) == {fd \in Fds : t[fd].write # Closed}

(***************************************************************************)
(* What a descriptor refers to: the resolution every write goes through.   *)
(***************************************************************************)

LiveStdout(depth) == IF depth > 0 THEN Capture(depth) ELSE Stdout

\* A record that names a capture which is gone falls back to the live one.
Resolve(slot, depth) ==
  IF slot.write # Stdout THEN slot.write
  ELSE IF slot.record = 0 THEN Stdout
  ELSE IF slot.record \in 1 .. depth THEN Capture(slot.record)
  ELSE LiveStdout(depth)

(***************************************************************************)
(* Known deviations, excluded unless Allowed names them.  "redup": a       *)
(* duplicate onto a descriptor other than 1 is recorded as the stdout of   *)
(* the moment even if its source holds an earlier one.  "reuse": {var}     *)
(* avoids a descriptor that the same command closed.                       *)
(***************************************************************************)

Redups(r) == /\ Copies(r) /\ r.fd # 1 /\ table[r.from].write = Stdout
             /\ Resolve(table[r.from], Generation) # LiveStdout(Generation)

Admitted(r) == /\ Copies(r) => table[r.from].write # Closed
               /\ "redup" \notin Allowed => ~Redups(r)
               /\ length < MaxLength /\ length' = length + 1

(***************************************************************************)
(* exec                                                                    *)
(***************************************************************************)

Binding == frames # <<>> /\ frames[Len(frames)].binding

\* Copying a descriptor onto itself is a no-op for exec.
Exec(r) ==
  /\ ~Binding /\ Admitted(r)
  /\ Copies(r) => r.fd # r.from
  /\ table' = Apply(table, r, TRUE)
  /\ UNCHANGED <<frames, active, parked>>

\* allocate_dynamic_with_limit_avoiding: the first gap, or nothing.
DynamicFds(t, avoid) == Gaps(occupied(t) \cup avoid)

\* exec r {var}>f: the slots the command has named so far count as taken.
ExecAllocate(r, f) ==
  /\ ~Binding /\ Admitted(r)
  /\ Copies(r) => r.fd # r.from
  /\ "reuse" \notin Allowed => r.op # "close"
  /\ \E t \in {Apply(table, r, TRUE)} :
       \E fd \in DynamicFds(t, IF r.op = "none" THEN {} ELSE {r.fd}) :
         table' = open_output(t, fd, f)
  /\ UNCHANGED <<frames, active, parked>>

(***************************************************************************)
(* eval, source and functions with redirections: the list is bound one     *)
(* entry at a time, each slot saved before its first change, and put back  *)
(* when the body is over or an entry fails.                                *)
(***************************************************************************)

Frame(kind, saved) ==
  [kind |-> kind, binding |-> kind = "scope", saved |-> saved,
   previous |-> active, depth |-> Generation]

NoSlots == [fd \in {} |-> Slot(Closed, Unrecorded)]

EnterScope ==
  /\ ~Binding /\ Len(frames) < MaxLevels
  /\ frames' = Append(frames, Frame("scope", NoSlots))
  /\ UNCHANGED <<table, active, parked, length>>

\* save_compound_output_fd: the first snapshot of a slot wins.
Saved(saved, fds) ==
  [fd \in DOMAIN saved \cup fds |-> IF fd \in DOMAIN saved THEN saved[fd] ELSE table[fd]]

\* A moved source is saved only if the redirector is open at this position.
ToSave(r) ==
  Slots(r) \cup IF r.op = "move" /\ table[r.fd].write # Closed THEN {r.from} ELSE {}

BindRedirect(r) ==
  /\ Binding /\ Admitted(r)
  /\ table' = Apply(table, r, FALSE)
  /\ frames' = [frames EXCEPT ![Len(frames)].saved = Saved(@, ToSave(r))]
  /\ UNCHANGED <<active, parked>>

RunBody ==
  /\ Binding
  /\ frames' = [frames EXCEPT ![Len(frames)].binding = FALSE]
  /\ UNCHANGED <<table, active, parked, length>>

Restored(saved) == [fd \in Fds |-> IF fd \in DOMAIN saved THEN saved[fd] ELSE table[fd]]

\* The end of the body, or the failure of an entry of the list.
LeaveScope ==
  /\ frames # <<>> /\ frames[Len(frames)].kind = "scope"
  /\ table' = Restored(frames[Len(frames)].saved)
  /\ frames' = SubSeq(frames, 1, Len(frames) - 1)
  /\ UNCHANGED <<active, parked, length>>

(***************************************************************************)
(* Subshells and substitutions: the whole table is copied and put back.    *)
(***************************************************************************)

EnterSubshell ==
  /\ ~Binding /\ Len(frames) < MaxLevels
  /\ frames' = Append(frames, Frame("subshell", table))
  /\ UNCHANGED <<table, active, parked, length>>

\* Bug for the mutant: a subshell ends a capture it has not begun.
MutLeaveSubshell ==
  /\ frames # <<>> /\ frames[Len(frames)].kind = "subshell"
  /\ table' = Restored(frames[Len(frames)].saved)
  /\ frames' = SubSeq(frames, 1, Len(frames) - 1)
  /\ parked' = SubSeq(parked, 1, Len(parked) - 1)
  /\ UNCHANGED <<active, length>>

LeaveSubshell ==
  /\ frames # <<>> /\ frames[Len(frames)].kind = "subshell"
  /\ table' = Restored(frames[Len(frames)].saved)
  /\ frames' = SubSeq(frames, 1, Len(frames) - 1)
  /\ UNCHANGED <<active, parked, length>>

\* command_substitution_executor, and the shortcut of $(f): the generation
\* record a 1>&N left on fd 1 is removed from the copy.
ForkedTable == [table EXCEPT ![1].record = Unrecorded]

\* Bug for the mutant: fd 1 of the child keeps the record of a 1>&N.
MutChildTable == [table EXCEPT ![1].write = Stdout]

\* fd 1 of the child is the live stdout.
ChildTable == [ForkedTable EXCEPT ![1].write = Stdout]

\* begin_stdout_capture around the body, in a copy of the table.
EnterSubstitution ==
  /\ ~Binding /\ Len(frames) < MaxLevels
  /\ frames' = Append(frames, Frame("subst", table))
  /\ table' = ChildTable
  /\ parked' = Append(parked, active)
  /\ active' = 0
  /\ UNCHANGED length

\* restore_stdout_capture: the parked copy has all the outer one had.
Merged(previous, copy) == IF copy >= previous THEN copy ELSE previous

LeaveSubstitution ==
  /\ frames # <<>> /\ frames[Len(frames)].kind = "subst"
  /\ table' = Restored(frames[Len(frames)].saved)
  /\ active' = Merged(frames[Len(frames)].previous, parked[Len(parked)])
  /\ parked' = SubSeq(parked, 1, Len(parked) - 1)
  /\ UNCHANGED length
  /\ frames' = SubSeq(frames, 1, Len(frames) - 1)

(***************************************************************************)
(* Output of a command to a descriptor that holds a Stdout endpoint.       *)
(***************************************************************************)

\* write_stdout_capture_at_generation: the active buffer or a parked one.
WriteAt(g) ==
  IF g < Generation
  THEN /\ parked[g + 1] < MaxOutput
       /\ parked' = [parked EXCEPT ![g + 1] = @ + 1] /\ UNCHANGED active
  ELSE /\ active < MaxOutput
       /\ active' = active + 1 /\ UNCHANGED parked

Write(fd) ==
  /\ table[fd].write = Stdout /\ Generation > 0 /\ table[fd].record # 0
  /\ WriteAt(IF table[fd].record = Unrecorded THEN Generation ELSE table[fd].record)
  /\ UNCHANGED <<table, frames, length>>

FdInit ==
  /\ table = [fd \in Fds |-> Slot(IF fd = 1 THEN Stdout ELSE IF fd = 2 THEN Stderr ELSE Closed,
                                  Unrecorded)]
  /\ frames = <<>> /\ active = 0 /\ parked = <<>> /\ length = 0

FdNext ==
  \/ \E r \in Program : Exec(r)
  \/ \E r \in Program \cup {NoRedirect}, f \in Files : ExecAllocate(r, f)
  \/ EnterScope
  \/ \E r \in Program : BindRedirect(r)
  \/ RunBody
  \/ LeaveScope
  \/ EnterSubshell
  \/ LeaveSubshell
  \/ EnterSubstitution
  \/ LeaveSubstitution
  \/ \E fd \in Fds : Write(fd)

FdSpec == FdInit /\ [][FdNext]_fdvars

(***************************************************************************)
(* Properties.                                                             *)
(***************************************************************************)

Endpoints == {Closed, Stdout, Stderr} \cup {File(f) : f \in Files}

SlotType == [write : Endpoints, record : Int]

IsSaved(s) == /\ DOMAIN s \subseteq Fds
              /\ \A fd \in DOMAIN s : s[fd] \in SlotType

\* Types: slots, frames and buffers are what their operations expect, and
\* there is one parked buffer for each substitution that is running.
FdTypeOK ==
  /\ table \in [Fds -> SlotType]
  /\ active \in Nat /\ parked \in Seq(Nat)
  /\ \A i \in DOMAIN frames :
       /\ frames[i].kind \in {"scope", "subshell", "subst"}
       /\ frames[i].previous \in Nat /\ frames[i].depth \in 0 .. Generation
       /\ IsSaved(frames[i].saved)

Pinned(t, depth) ==
  \A fd \in DOMAIN t : t[fd].write = Stdout =>
    IF t[fd].record = Unrecorded THEN fd = 1 ELSE t[fd].record \in 0 .. depth

\* A descriptor that holds a stdout names a capture that is still running
\* (never the fallback for one that is gone), and only fd 1 follows the live
\* stdout; so it is in the table and in everything a frame will put back.
AliasesAreLive ==
  /\ Pinned(table, Generation)
  /\ \A i \in DOMAIN frames : Pinned(frames[i].saved, frames[i].depth)

View(t, depth) == [fd \in DOMAIN t |-> Resolve(t[fd], depth)]

ViewFrame(f) == [kind |-> f.kind, binding |-> f.binding, saved |-> View(f.saved, f.depth)]

Posix == INSTANCE Descriptors
           WITH desc   <- View(table, Generation),
                levels <- [i \in DOMAIN frames |-> ViewFrame(frames[i])],
                sink   <- [g \in 1 .. Generation |->
                             IF g = Generation THEN active ELSE parked[g + 1]]

\* The table implements the kernel's: with the writes resolved through their
\* records, every command does to the descriptors what processes, dup2 and
\* the undo of redirections would do, a dynamic descriptor is the lowest free
\* one, and no byte written to an outer capture is lost.
ImplementsKernel == Posix!Kernel

=============================================================================
