CONSTANTS
  Fds <- Descs
  f1 = f1
  Files = {f1}
  Base = 3
  Limit = 5
  Program <- Juggling
  MaxLevels = 3
  MaxOutput = 1
  MaxLength = 3
  Allowed = {}
SPECIFICATION FdSpec
INVARIANTS FdTypeOK AliasesAreLive
PROPERTIES ImplementsKernel
CHECK_DEADLOCK FALSE
