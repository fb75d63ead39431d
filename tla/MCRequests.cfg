SPECIFICATION Spec
CONSTANTS
  Scenarios = {"policy", "checks", "shield", "pczt", "amounts", "front", "views", "unspent", "balances", "book"}
  Sapling = "sapling"
  Orchard = "orchard"
  Ironwood = "ironwood"
  Transparent = "transparent"
  Pools = {"sapling", "orchard", "ironwood"}
  Proposals <- SomeProposals
  OrchardPool = "ironwood"
  Requests <- SomeRequests
  Sources <- SomeSources
  MaxMoney = 2
  ActionsLimit = 2
  MaxNotes = 3
  MaxChange = 1
  AddressOwner <- SomeOwners
  Coins <- SomeCoins
  Froms <- SomeFroms
  Limits = {0, 1, 2}
  OrchardActions = 1
  ValueCap = 4
  Own <- OwnPlans
  Plans <- AllPlans
  Acks = {"FullPrivacy", "AllowRevealedSenders"}
  SeedHeld = TRUE
  MaxCopies = 2
  Digits = 4
  Decimals = 2
  Texts <- SomeTexts
  MaxZat = 500
  Entries <- SomeEntries
  MaxUsers = 2
  Transactions = {"t1", "t2", "t3"}
  TxData <- SomeTxData
  ExpiringSoon = 1
  MaxChain = 3
  MaxRewinds = 1
  Holders = {"a", "b"}
  Outs = {"mined", "change", "note"}
  OutData <- SomeOutData
  Moves = {"m1", "m2"}
  MoveData <- SomeMoves
  MaxScan = 2
  MaxUndone = 1
  Confs = {0, 1}
  MoneyCap = 9
  Summaries <- SomeSummaries
  AccountData <- SomeAccounts
  AddressData <- SomeAddresses
  Asks <- SomeAsks
  LegacySeeds = {"legacy"}
  LegacyAccount = 2
INVARIANTS
  PolicyCorrect
  SendsAreChecked
  SigningSound
  
  AmountsExact
  FrontHolds
  StatusIsRight
  HistoryIsRight
  
  TotalsAgree
CHECK_DEADLOCK FALSE
