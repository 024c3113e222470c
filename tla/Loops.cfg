SPECIFICATION LoopsSpec
CONSTANTS
  Starters = {c1}
  Stoppers = {c2}
  Runners = {r1, r2}
  NoRunner = NoRunner
  Configs = {k1}
  ResumeFrom = {"idle", "paused", "stopped"}
  StoreMayFail = TRUE
  MayCrash = TRUE
  Runs = {b1}
  Users = {u1}
  Clients = {c1, c2}
  Windows = 2
  NSymbols = 2
  RunsMayCrash = TRUE
  Labels = TRUE
INVARIANTS
  RegistryTruthful
  NoCycleAfterStop
  RunsTypeOK
  CompletedCoversPeriod
  TradesAccountForPositions
PROPERTIES
  StoppedQuiesces
  StopReturns
  RunLoopEnds
