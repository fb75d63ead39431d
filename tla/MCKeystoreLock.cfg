\* Three calls and two decrypting requests; three requests over two connections.
SPECIFICATION FairSpec
CONSTANTS
  Calls = {c1, c2, c3}
  Readers = {d1, d2}
  NoCall = NoCall
  FromFile = FromFile
  Encrypted = TRUE
  Requests = {1, 2, 3}
  Called = {"listaddresses", "z_viewtransaction", "getwalletinfo", "z_getbalances", "z_getbalanceforaccount", "z_sendmany"}
  RpcHandles = 2
  QueueLimit = 1
  MaxFlips = 1
  Scenarios = {"lock", "dispatch"}
INVARIANTS
  UnlockedHasDeadline
PROPERTIES
  SessionsUndisturbed
  EventuallyRelocked
  RequestsAnswered
CHECK_DEADLOCK FALSE
