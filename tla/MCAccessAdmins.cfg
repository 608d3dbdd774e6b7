SPECIFICATION AccessSpec
CONSTANTS
  Accounts = {"u1", "u2"}
  Founder = "u1"
  Clients = {"c1"}
  Admins = {"h1", "h2"}
  MaxTokens = 2
  CacheLimit = 1
  MaxSecret = 2
INVARIANT AdminRemains
CHECK_DEADLOCK FALSE
