SPECIFICATION Spec
CONSTANTS
  c1 = c1
  c2 = c2
  i1 = i1
  i2 = i2
  StrategyUsers = {u1}
  StrategyIds = {i1, i2}
  StrategyClients = {c1, c2}
  StrategyTraders = {t1}
  Sections = {"risk_control"}
  Settings = {"a", "b"}
  DefaultSetting = "a"
  NoStrategy = NoStrategy
  ModelIds = {m1}
  ModelClients = {c1, c2}
  Keys = {k1, k2}
  NoKey = NoKey
  NoBinding = NoBinding
  KeyInEnv = FALSE
  MaxRestarts = 1
  BotModels = {m1, m2}
  BotClients = {c1, c2}
  BotTokens = {k1, k2}
  MaxAccounts = 2
  AccountClients = {a1}
  AccountTypes = {"okx", "hyperliquid"}
  AccountFields = {"api_key", "secret_key", "passphrase", "hyperliquid_wallet",
                   "hyperliquid_private_key"}
  GivenFields <- MCGiven
  AccountTraders = {t1}
  NoAccount = NoAccount
  MaxNewKeys = 1
  Emails = {e1, e2}
  Requesters = {c1, c2}
  Passwords = {k1, k2}
  NoPassword = NoPassword
  ResetTokens = {i1, i2}
  Calls = {c1, c2}
  MaxLogins = 2
  MaxTokens = 3
  Traders = {t1, t2}
  Users = {u1, u2}
  NoUser = NoUser
  AllTraders = AllTraders
  Walker = u1
  Size = 2
  MaxLedger = 4
  Requests = {c1, c2, g1}
  Limit = 1
  Window = 2
  MaxTime = 3
  MaxUnderWay = 2
  Symbols = {"BTC", "ALT"}
  Majors = {"BTC"}
  NoSymbol = "none"
  Said <- MCSaid
  MaxSaid = 2
  RiskControls <- MCRisks
  Equities = {20, 30, 100}
  Sources <- MCSources
  MaxRows = 3
  Writes = {c1, c2}
  Nonces = {n1}
  SignWindow = 2
  MaxSeconds = 3
  MaxStarts = 1
SYMMETRY Symmetry
INVARIANTS
  TypesOK
  OneActiveUnlessBehind
  OncePerAddressAndToken
  TabAndServerAgree
  WalkShowsOwnRows
  NonceUsedOnce
PROPERTIES
  OrdersFollowRules
  TradersKeepTheirStrategy
  StoredAsTold
  AccountsServeTraders
  LoginsFollowChain
  LimiterKeepsLimit
CHECK_DEADLOCK FALSE
