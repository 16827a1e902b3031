---------------------------- MODULE Descriptors ----------------------------
(***************************************************************************)
(* What the descriptors of a shell are to its user: the table the kernel   *)
(* would keep if every subshell and substitution were a process, every     *)
(* redirection a dup2 or an open, and every redirected command put back    *)
(* what it redirected.  FdTable implements this inside one process.        *)
(***************************************************************************)
EXTENDS Redirections, Sequences

VARIABLES desc,    \* what each descriptor refers to
          levels,  \* the redirected commands and child shells being run
          sink     \* how much each capture of a substitution has received

view == <<desc, levels, sink>>

Redirected(d, r) ==
  [fd \in Fds |->
     IF fd \in Slots(r)
     THEN IF Copies(r) THEN d[r.from] ELSE IF r.op = "close" THEN Closed ELSE File(r.from)
     ELSE IF r.op = "move" /\ fd = r.from THEN Closed ELSE d[fd]]

\* What the command puts back afterwards: a moved source only if the target
\* was open, as the undo list of the reference shell has it.
Undone(d, r) ==
  Slots(r) \cup IF r.op = "move" /\ d[r.fd] # Closed THEN {r.from} ELSE {}

Occupied(d) == {fd \in Fds : d[fd] # Closed}

\* exec with redirections: they stay.
Redirect(r) ==
  /\ Copies(r) => desc[r.from] # Closed
  /\ UNCHANGED <<levels, sink>>
  /\ desc' = Redirected(desc, r)

\* exec r {var}>f
Allocate(r, f) ==
  /\ Copies(r) => desc[r.from] # Closed
  /\ \E fd \in Gaps(Occupied(Redirected(desc, r))) :
       desc' = [Redirected(desc, r) EXCEPT ![fd] = File(f)]
  /\ UNCHANGED <<levels, sink>>

Top == levels[Len(levels)]

\* A command with redirections begins; they are applied one by one, then the
\* command runs.
BeginCommand ==
  /\ levels' = Append(levels, [kind |-> "scope", binding |-> TRUE, saved |-> [fd \in {} |-> Closed]])
  /\ UNCHANGED <<desc, sink>>

BindFor(r) ==
  /\ levels # <<>> /\ Top.binding
  /\ Copies(r) => desc[r.from] # Closed
  /\ desc' = Redirected(desc, r)
  /\ levels' = [levels EXCEPT ![Len(levels)].saved =
                  [fd \in DOMAIN @ \cup Undone(desc, r) |->
                     IF fd \in DOMAIN @ THEN @[fd] ELSE desc[fd]]]
  /\ UNCHANGED sink

RunCommand ==
  /\ levels # <<>> /\ Top.binding
  /\ levels' = [levels EXCEPT ![Len(levels)].binding = FALSE]
  /\ UNCHANGED <<desc, sink>>

\* A child shell; the child of a substitution writes to a new capture.
Fork(kind) ==
  /\ levels' = Append(levels, [kind |-> kind, binding |-> FALSE, saved |-> desc])
  /\ IF kind = "subst" THEN /\ sink' = Append(sink, 0)
                            /\ desc' = [desc EXCEPT ![1] = Capture(Len(sink) + 1)]
                       ELSE UNCHANGED <<desc, sink>>

\* The command is over or has failed, or the child has exited.
EndLevel ==
  /\ levels # <<>>
  /\ desc' = [fd \in Fds |-> IF fd \in DOMAIN Top.saved THEN Top.saved[fd] ELSE desc[fd]]
  /\ levels' = SubSeq(levels, 1, Len(levels) - 1)
  /\ sink' = IF Top.kind = "subst" THEN SubSeq(sink, 1, Len(sink) - 1) ELSE sink

\* Output to a descriptor reaches the capture the descriptor refers to.
Output(fd) ==
  /\ desc[fd].kind = "capture"
  /\ sink' = [sink EXCEPT ![desc[fd].id] = @ + 1]
  /\ UNCHANGED <<desc, levels>>

Fresh == /\ desc = [fd \in Fds |-> IF fd = 1 THEN Stdout ELSE IF fd = 2 THEN Stderr ELSE Closed]
         /\ levels = <<>> /\ sink = <<>>

KernelStep ==
  \/ BeginCommand \/ RunCommand \/ EndLevel
  \/ \E kind \in {"subst", "subshell"} : Fork(kind)
  \/ \E fd \in Fds : Output(fd)
  \/ \E r \in Program : Redirect(r) \/ BindFor(r)
  \/ \E r \in Program \cup {NoRedirect}, f \in Files : Allocate(r, f)

Kernel == Fresh /\ [][KernelStep]_view

=============================================================================
