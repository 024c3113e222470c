SPECIFICATION RunsSpec
CONSTANTS
  Runs = {b1}
  Users = {u1}
  Clients = {c1}
  Windows = 1
  NSymbols = 1
  RunsMayCrash = FALSE
  Labels = FALSE
INVARIANT ActiveHasLoop
