SPECIFICATION ProgressSpec
CONSTANTS
  b1 = b1
  b2 = b2
  Clients = {c1}
  Loops = {d1, d2}
  NoLoop = NoLoop
  NSpeakers = 2
  MaxRounds = 2
  Actions = {"open_long", "wait"}
  AutoExecute = TRUE
  MayCrash = TRUE
  Calls = {c1, c2}
  MaxLogins = 1
  MaxTokens = 3
  Conversations <- MCConversations
  MaxContext = 7
  MaxRetries = 2
  MaxLines = 3
  IdleLimit = 2
  Streams = {s1}
  QueueSize = 1
  MaxEvents = 3
  Sockets = {s1, s2}
  SocketUsers = {u1}
  NoUser = NoUser
  MaxTotal = 2
  MaxPerUser = 1
  Syncs = {b1, b2}
  Quantities = {1}
  Sides = {"long"}
  MaxOrders = 6
  ByHand = FALSE
  Guard = FALSE
  SplitFills = FALSE
  LostReplies = FALSE
  ApiCloses = FALSE
  MaxCrashes = 0
  OneAtATime = TRUE
INVARIANTS
  TypesOK
  ConsensusHeardAll
  BookMatches
  CallIsWhole
  DialsClean
PROPERTIES
  OneClientOrder
  LoopEnds
  EveryFillRecorded
  CallsReturn
  StreamsDeliver
  QuotaHolds
  ConnectionsEnd
CHECK_DEADLOCK FALSE
