SPECIFICATION Spec
CONSTANTS
  Scenarios = {"accounts", "migrate", "conf", "launch"}
  Seeds = {sd1, sd2}
  MaxIndex = 0
  Imported = {z1}
  RpcCalls = {c1, c2}
  TipHeight = 1
  RequireBackup = TRUE
  InboxSize = 2
  Runs = {r1, r2}
  Documents <- Wallets
  Activation = 2
  Network = "main"
  ConfLines <- SomeLines
  MaxLines = 2
  MaxRuns = 2
  Tokens <- SomeTokens
  MaxArgs = 3
  MaxFiles = 1
  Backends = {"zebra", "zaino"}
INVARIANTS
  KeysAreSafe
  AnsweredMeansLoaded
  
  LaunchedAsConfigured
 
SYMMETRY Sym
CHECK_DEADLOCK FALSE
