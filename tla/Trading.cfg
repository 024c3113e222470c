SPECIFICATION TradingSpec
CONSTANTS
  c1 = c1
  c2 = c2
  k1 = k1
  NoRunner = NoRunner
  VenueNames = {"binance", "okx", "bybit", "gate", "kucoin", "bitget", "hyperliquid"}
  Callers = {c1, c2}
  Amounts = {1, 3, 6}
  Leverages = {2, 3}
  MaxHeld = 6
  MaxResting = 1
  Figures = 2
  Scales = {1, 2, 4}
  Starters = {h1}
  Stoppers = {h1}
  Runners = {c1, c2, r3}
  Configs = {k1, k2}
  ResumeFrom = {"paused"}
  StoreMayFail = FALSE
  MayCrash = TRUE
  Syncs = {c1, c2}
  Quantities = {2}
  Sides = {"long"}
  MaxOrders = 2
  ByHand = TRUE
  Guard = TRUE
  SplitFills = TRUE
  LostReplies = TRUE
  ApiCloses = TRUE
  MaxCrashes = 1
  OneAtATime = FALSE
SYMMETRY Symmetry
INVARIANTS
  TypesOK
  ExactlyOneLoop
  BuiltOnce
  MetricsCoverClosed
PROPERTIES
  OrdersAsAsked
  ClosingsClose
  ClosedOnce
  StatusUnlessTrampled
CHECK_DEADLOCK FALSE
