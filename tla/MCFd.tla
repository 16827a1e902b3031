-------------------------------- MODULE MCFd --------------------------------
(* Small instances of FdTable: fd 1, fd 2 and two descriptors from Base on. *)
EXTENDS FdTable

CONSTANTS f1

Descs == 1 .. 4

Do(op, fd, from) == [op |-> op, fd |-> fd, from |-> from]

\* Saving, moving and restoring stdout, as scripts that juggle streams do.
Juggling == {Do("dup", 3, 1), Do("dup", 1, 3), Do("dup", 2, 1), Do("move", 1, 4),
             Do("both", 1, f1), Do("close", 3, 0)}

=============================================================================
