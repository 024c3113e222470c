SPECIFICATION BookSpec
CONSTANTS
  Syncs = {s1}
  Quantities = {1}
  Sides = {"long"}
  MaxOrders = 2
  ByHand = FALSE
  Guard = TRUE
  SplitFills = FALSE
  LostReplies = FALSE
  ApiCloses = FALSE
  MaxCrashes = 0
  OneAtATime = TRUE
INVARIANT BookMatches
