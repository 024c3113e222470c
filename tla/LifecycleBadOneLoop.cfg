SPECIFICATION Spec
CONSTANTS
  Starters = {c1}
  Stoppers = {c2}
  Runners = {r1, r2}
  NoRunner = NoRunner
  Configs = {k1}
  ResumeFrom = {"paused"}
  StoreMayFail = FALSE
  MayCrash = FALSE
INVARIANT OneLoop
