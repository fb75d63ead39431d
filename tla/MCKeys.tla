-------------------------------- MODULE MCKeys --------------------------------
(* The commands and calls that set a wallet up, one scenario to a behaviour:   *)
(* accounts and key imports beside the sync engine ("accounts"), the migration *)
(* of a zcashd wallet ("migrate") and of its configuration ("conf"), and the   *)
(* launcher choosing a backend ("launch").  The other components stay in one   *)
(* initial state.                                                              *)
EXTENDS WalletKeys, ZcashdMigration, ConfMigration, Launcher

CONSTANT Scenarios

VARIABLE scenario

all == <<keyVars, migVars, confVars, launchVars, scenario>>

\* An HD wallet with a key that cannot be registered, a pre-mnemonic one, two without a seed, and one of
\* another network.
Hd ==
  [seed |-> "mnemonic", legacyAccount |-> TRUE, keys |-> {"k", "uncompressed"}, sprout |-> FALSE,
   watch |-> TRUE, blocks |-> {"b1", "b2"}, expiry |-> {0, 3}, net |-> "main", file |-> "plain"]
Legacy == [Hd EXCEPT !.seed = "legacy", !.keys = {"k"}, !.blocks = {"b1"}, !.expiry = {},
                     !.file = "encrypted"]
Seedless == [Hd EXCEPT !.seed = "none", !.keys = {"k"}, !.watch = FALSE, !.blocks = {}]
Sprout == [Hd EXCEPT !.seed = "none", !.legacyAccount = FALSE, !.keys = {}, !.sprout = TRUE,
                     !.blocks = {}]
Foreign == [Seedless EXCEPT !.net = "test", !.file = "flawed"]
Wallets == {Hd, Legacy, Seedless, Sprout, Foreign}

\* A line of every kind of option, and lines that exclude or repeat one another.
Option(o, v) == [option |-> o, value |-> v]
SomeLines ==
  {Option("regtest", "1"), Option("testnet", "1"), Option("testnet", "0"),
   Option("walletbroadcast", "0"), Option("walletbroadcast", "text"), Option("txexpirydelta", "4"),
   Option("txexpirydelta", "1"), Option("rpcauth", "pair"), Option("flushwallet", "0"),
   Option("flushwallet", "1"), Option("paytxfee", "text"), Option("addnode", "text"), Option("unknown", "1")}

Token(form, option, text) == [form |-> form, opt |-> option, text |-> text]
SomeTokens ==
  {Token("split", "datadir", "flag"), Token("split", "config", "flag"),
   Token("joined", "datadir", "a"), Token("joined", "config", "a"),
   Token("cluster", "datadir", "flag"), Token("end", "none", "flag"), Token("word", "none", "a")}
LaunchRests == args = <<>> /\ files = <<>> /\ phase = "launch" /\ direct = FALSE /\ binary = DefaultBackend

Init ==
  /\ scenario \in Scenarios
  /\ scenario = "migrate" \/ wallet = Sprout
  /\ KeysInit /\ MigInit
  /\ scenario = "conf" \/ (conf = <<>> /\ onDisk = [p \in Paths |-> "absent"])
  /\ ConfInit
  /\ IF scenario = "launch" THEN LaunchInit ELSE LaunchRests

Next ==
  /\ UNCHANGED scenario
  /\ \/ scenario = "accounts" /\ KeysNext /\ UNCHANGED <<migVars, confVars, launchVars>>
     \/ scenario = "migrate" /\ MigNext /\ UNCHANGED <<keyVars, confVars, launchVars>>
     \/ scenario = "conf" /\ ConfNext /\ UNCHANGED <<keyVars, migVars, launchVars>>
     \/ scenario = "launch" /\ LaunchNext /\ UNCHANGED <<keyVars, migVars, confVars>>

Spec == Init /\ [][Next]_all

Sym == Permutations(Seeds) \cup Permutations(RpcCalls) \cup Permutations(Runs)
=============================================================================
