---------------------------- MODULE Redirections ----------------------------
(***************************************************************************)
(* The vocabulary the descriptor table and its specification share: what a *)
(* descriptor can refer to, and what a redirection can ask for.            *)
(***************************************************************************)
EXTENDS Integers

CONSTANTS Fds,    \* descriptor numbers
          Files,  \* what a redirection can open
          Base,   \* SHELL_FD_BASE: where {var} descriptors start
          Limit,  \* the soft limit on open files
          Program \* the redirections written in the program that is run

ASSUME FdsAssumption == /\ Fds \subseteq Nat /\ {1, 2} \subseteq Fds
                        /\ Base \in Nat /\ Limit \in Nat
                        /\ Base .. (Limit - 1) \subseteq Fds

Closed     == [kind |-> "closed", id |-> 0]
Stdout     == [kind |-> "stdout", id |-> 0]
Stderr     == [kind |-> "stderr", id |-> 0]
File(f)    == [kind |-> "file", id |-> f]
Capture(g) == [kind |-> "capture", id |-> g]

\* One redirection: N>file, &>file, N>&M, N>&M- or N>&-.
Redirects ==
  [op : {"open"}, fd : Fds, from : Files] \cup [op : {"both"}, fd : {1}, from : Files]
    \cup [op : {"dup", "move"}, fd : Fds, from : Fds] \cup [op : {"close"}, fd : Fds, from : {0}]

ASSUME ProgramAssumption == Program \subseteq Redirects

NoRedirect == [op |-> "none", fd |-> 0, from |-> 0]

Copies(r) == r.op \in {"dup", "move"}

\* The descriptors a redirection binds.
Slots(r) == IF r.op = "both" THEN {1, 2} ELSE IF r.op = "none" THEN {} ELSE {r.fd}

\* The lowest free descriptor from Base on, when it is below the limit.
Gaps(occupied) ==
  {fd \in Base .. (Limit - 1) : fd \notin occupied /\ Base .. (fd - 1) \subseteq occupied}

=============================================================================
