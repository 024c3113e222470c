SPECIFICATION SessionsSpec
CONSTANTS
  Calls = {c1}
  MaxLogins = 2
  MaxTokens = 3
PROPERTY ExpiryIsRenewed
CHECK_DEADLOCK FALSE
