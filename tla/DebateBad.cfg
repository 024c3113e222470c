SPECIFICATION Spec
CONSTANTS
  Clients = {c1, c2}
  Loops = {d1, d2}
  NoLoop = NoLoop
  NSpeakers = 2
  MaxRounds = 2
  Actions = {"open_long", "wait"}
  AutoExecute = TRUE
  MayCrash = TRUE
SYMMETRY Symmetry
INVARIANT OneDebate
