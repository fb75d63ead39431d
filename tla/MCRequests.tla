------------------------------ MODULE MCRequests ------------------------------
(* What the RPC methods are asked and answer, one scenario to a behaviour:     *)
(* the layers around every method ("front"), the amounts of a request          *)
(* ("amounts"), the checks before a send ("checks") and its privacy policy     *)
(* ("policy"), the shielding of coinbase outputs ("shield"), PCZTs that pass   *)
(* between signers ("pczt"), and the reports: transactions ("views"), unspent  *)
(* outputs ("unspent"), balances ("balances") and accounts ("book").  The      *)
(* components of the other scenarios stay in one initial state.                *)
EXTENDS PolicyCheck, SendChecks, Shielding, Pczt, FixedPoint, RpcFront, TxViews, Holdings, AccountBook

CONSTANT Scenarios

VARIABLE scenario

-----------------------------------------------------------------------------
\* Proposals of one step over two shielded pools, and of two that both pay into Orchard.
SmallSteps ==
  [taddrs : 0..2, tout : BOOLEAN, tchange : BOOLEAN,
   from : SUBSET {Sapling, Orchard}, to : SUBSET {Sapling, Orchard}]
Reduced(s) == s.to = {Orchard} /\ s.taddrs # 1
SomeProposals ==
  {<<>>} \cup {<<s>> : s \in SmallSteps} \cup {<<s, t>> : s, t \in {u \in SmallSteps : Reduced(u)}}

\* Requests of up to two payments to one address of each form.
Address(form, receivers) == [form |-> form, receivers |-> receivers]
Addresses ==
  {Address("unknown", {}), Address("bare", {Transparent}), Address("tex", {Transparent}),
   Address("bare", {Sapling}), Address("unified", {Orchard, Sapling, Transparent}),
   Address("unified", {Sapling, Transparent}), Address("unified", {Transparent})}
Payments == {a \in [to : Addresses, value : 0..(MaxMoney + 1), memo : BOOLEAN] : a.value # 1 => ~a.memo}
Ordinary == {a \in Payments : a.value \in 1..MaxMoney /\ ~a.memo /\ a.to.form # "unknown"}
SomeRequests ==
  {<<>>} \cup {<<a>> : a \in Payments} \cup {<<a, b>> : a, b \in Ordinary}
SomeSources ==
  {Address("any_taddr", {}), Address("bare", {Transparent}), Address("bare", {Sapling}),
   Address("unified", {Orchard, Transparent}), Address("unified", {Sapling, Orchard, Transparent})}

-----------------------------------------------------------------------------
\* Account a has two addresses, account b one.
SomeOwners == [x \in {"x1", "x2", "y"} |-> IF x = "y" THEN "b" ELSE "a"]
Coin(addr, value) == [addr |-> addr, value |-> value]
SomeCoins ==
  [c \in {"c1", "c2", "c3", "c4"} |->
     CASE c = "c1" -> Coin("x1", 1) [] c = "c2" -> Coin("x1", 2) [] c = "c3" -> Coin("x2", 2) [] OTHER -> Coin("y", 1)]
From(kind, of) == [kind |-> kind, of |-> of]
SomeFroms ==
  {From("account", "a"), From("account", "z"), From("taddr", "x1"), From("taddr", "z"),
   From("wildcard", "z"), From("shielded", "z"), From("garbage", "z")}

-----------------------------------------------------------------------------
Input(pool, id) == [pool |-> pool, id |-> id]
T1 == Input("t", 1)
S1 == Input("sapling", 1)
O1 == Input("orchard", 1)
O2 == Input("orchard", 2)
I1 == Input("ironwood", 1)

\* One Orchard note and one padding action.
Padded ==
  [ins |-> {O1, O2}, dummies |-> {O2}, ours |-> {O1}, hinted |-> {}, reveals |-> "FullPrivacy",
   recorded |-> "FullPrivacy", info |-> TRUE, hints |-> "seed", known |-> TRUE]
\* Inputs of every other kind.
Mixed ==
  [Padded EXCEPT !.ins = {O2, I1, T1, S1}, !.ours = {I1, T1, S1}, !.hinted = {T1},
                 !.reveals = "AllowRevealedSenders", !.recorded = "AllowRevealedSenders"]
\* Another party's, with an input of each, without a recorded policy.
Joint ==
  [Padded EXCEPT !.ins = {O1, S1, T1}, !.dummies = {}, !.ours = {O1, T1}, !.recorded = "none",
                 !.reveals = "AllowRevealedSenders", !.info = FALSE]
Malformed == [Padded EXCEPT !.recorded = "bad", !.info = FALSE, !.hints = "bad"]
UnknownBranch ==
  [Padded EXCEPT !.known = FALSE, !.info = FALSE, !.recorded = "none", !.hints = "none"]
OwnPlans == {Padded, Mixed}
AllPlans == OwnPlans \cup {Joint, Malformed, UnknownBranch}

\* Texts of up to two digits, three decimals and an exponent.
Numerals(n) == UNION {[1..k -> {0, 1, 9}] : k \in 0..n}
SomeTexts ==
  [neg : BOOLEAN, int : Numerals(2), frac : Optional(Numerals(3)),
   exp : Optional({<<>>, <<0>>, <<1>>, <<2>>, <<5>>}), expNeg : BOOLEAN, garbage : {FALSE}]
Zero == [neg |-> FALSE, int |-> <<0>>, frac |-> {}, exp |-> {}, expNeg |-> FALSE, garbage |-> FALSE]

Entry(user, password, pwhash) == [user |-> user, password |-> password, pwhash |-> pwhash]
SomeEntries ==
  {Entry("alice", "right", "absent"), Entry("alice", "absent", "wrong"),
   Entry("alice", "absent", ""), Entry("alice", "", "absent"), Entry("alice", "right", "wrong"),
   Entry("alice", "absent", "undecodable"), Entry(CookieUser, "wrong", "absent")}

-----------------------------------------------------------------------------
\* One transaction pays change and a recipient, one spends from it, one is a coinbase.
Out(pool, owner, scope, ovk) ==
  [pool |-> pool, owner |-> owner, scope |-> scope, ovk |-> ovk, cached |-> owner = "other"]
Note(pool, ours) == [pool |-> pool, ours |-> ours]
SomeTxData ==
  [t \in Transactions |->
     CASE t = "t1" -> [expiry |-> 1, coinbase |-> FALSE, inputs |-> {}, spends |-> {Note("ironwood", TRUE), Note("sapling", FALSE)},
                       outputs |-> {Out("transparent", "account", "internal", "none"),
                                    Out("orchard", "account", "internal", "wallet"),
                                    Out("ironwood", "other", "external", "wallet")}]
       [] t = "t2" -> [expiry |-> 2, coinbase |-> FALSE, inputs |-> {"t1"}, spends |-> {Note("orchard", FALSE)},
                       outputs |-> {Out("transparent", "other", "external", "none"),
                                    Out("sapling", "other", "external", "legacy")}]
       [] t = "t3" -> [expiry |-> 1, coinbase |-> TRUE, inputs |-> {}, spends |-> {},
                       outputs |-> {Out("transparent", "account", "external", "none"),
                                    Out("transparent", "nobody", "external", "none"),
                                    Out("transparent", "other", "external", "none")}]]

\* A coinbase output is spent into a note of the other account and a change output.
Held(account, kind, coinbase, address) ==
  [account |-> account, kind |-> kind, coinbase |-> coinbase, address |-> address]
SomeOutData ==
  [o \in Outs |->
    CASE o = "mined" -> Held("a", "coin", TRUE, "x")
      [] o = "change" -> Held("a", "coin", FALSE, "x")
      [] o = "note" -> Held("b", "note", FALSE, "y")]
SomeMoves ==
  [m \in Moves |-> IF m = "m1" THEN [ins |-> {}, outs |-> {"mined"}]
                              ELSE [ins |-> {"mined"}, outs |-> {"note", "change"}]]

\* Account a has any of three balances in each bucket, account b some that is pending.
Balance(s, c, p, d) == [spendable |-> s, change |-> c, pending |-> p, dust |-> d]
Balances == {Balance(0, 0, 0, 0), Balance(1, 0, 1, 1), Balance(2, 1, 0, 0)}
SomeSummaries ==
  {[h \in Holders |-> IF h = "a" THEN f ELSE [k \in Buckets |-> Balance(0, 0, 1, 0)]] :
     f \in [Buckets -> Balances]}

-----------------------------------------------------------------------------
PolicyRests == given = "FullPrivacy" /\ steps = <<>>
ChecksRest == source = Address("any_taddr", {}) /\ amounts = <<>> /\ policy = "FullPrivacy"
ShieldRests ==
  /\ coin = [c \in DOMAIN Coins |-> "unknown"] /\ moved = FALSE
  /\ shielding = Asked(From("garbage", "z"), 0, "omitted", TRUE)
FrontRests ==
  /\ users = {} /\ at = "refused" /\ dialect = "Unknown" /\ reached = FALSE /\ answer = NoAnswer
  /\ request = [header |-> [user |-> Nothing, password |-> Nothing], type |-> Nothing, body |-> Body("batch")]
HoldRests ==
  height = 0 /\ heightOf = [m \in Moves |-> 0] /\ made = {} /\ undone = 0 /\ query = NoQuery /\ summary = {}

\* Accounts of a mnemonic seed, of a second one, of a legacy seed, and of an imported key.
Account(seed, nth) == [seed |-> seed, index |-> nth]
SomeAccounts ==
  [first |-> Account("mnemonic", 0), odd |-> Account("mnemonic", 2), second |-> Account("other", 0),
   old |-> Account("legacy", 0), imported |-> Account("none", 0)]
Place(account, type, scope, receivers) == [account |-> account, type |-> type, scope |-> scope, receivers |-> receivers]
SomeAddresses ==
  [u1 |-> Place("first", "unified", "external", {"orchard", "sapling", "p2pkh"}),
   u2 |-> Place("first", "unified", "external", {"orchard"}),
   u3 |-> Place("old", "unified", "external", {"orchard", "sapling", "p2pkh"}),
   u4 |-> Place("second", "unified", "external", {"orchard", "sapling", "p2pkh"}),
   u5 |-> Place("imported", "unified", "external", {"orchard"}),
   z1 |-> Place("old", "sapling", "external", {"sapling"}),
   t1 |-> Place("first", "transparent", "ephemeral", {"p2pkh"}),
   t2 |-> Place("imported", "transparent", "ephemeral", {"p2pkh"}),
   t3 |-> Place("imported", "transparent", "imported", {"p2pkh"}),
   t4 |-> Place("second", "transparent", "internal", {"p2pkh"})]
SomeAsks ==
  {[kind |-> "list", by |-> "none"]}
    \cup {[kind |-> "address", by |-> "number", number |-> n, receivers |-> {}] : n \in {0, 1, 2}}
    \cup {[kind |-> "address", by |-> "uuid", account |-> a, receivers |-> r] :
            a \in {"first", "imported"}, r \in {{}, {"orchard"}, {"p2pkh"}, {"orchard", "p2sh"}}}
BookRests ==
  /\ present = {} /\ knownSeeds = {} /\ confirmed = {} /\ backedUp = {} /\ known = {}
  /\ ask = [kind |-> "list", by |-> "none"] /\ step = "new" /\ sawLegacy = {} /\ before = NoWallet
  /\ picked = "none" /\ todo = {} /\ listed = {} /\ handed = "none"

Init ==
  /\ scenario \in Scenarios
  /\ scenario = "policy" \/ PolicyRests
  /\ CheckInit
  /\ scenario = "checks" \/ ChecksRest
  /\ RequestInit
  /\ IF scenario = "shield" THEN ShieldInit ELSE ShieldRests
  /\ scenario = "pczt" \/ walletLocked = FALSE
  /\ PcztInit
  /\ scenario = "amounts" \/ text = Zero
  /\ FixedInit
  /\ IF scenario = "front" THEN FrontInit ELSE FrontRests
  /\ TxInit
  /\ IF scenario = "balances" THEN HoldInit ELSE HoldRests
  /\ IF scenario = "book" THEN BookInit ELSE BookRests

checkSide == <<checkVars, requestVars, shieldVars>>
textSide == <<fixedVars, frontVars>>
reportSide == <<txVars, holdVars, bookVars>>

Next ==
  /\ UNCHANGED scenario
  /\ \/ scenario = "policy" /\ CheckNext /\ UNCHANGED <<requestVars, shieldVars, pcztVars, textSide, reportSide>>
     \/ scenario = "checks" /\ RequestNext /\ UNCHANGED <<checkVars, shieldVars, pcztVars, textSide, reportSide>>
     \/ scenario = "shield" /\ ShieldNext /\ UNCHANGED <<checkVars, requestVars, pcztVars, textSide, reportSide>>
     \/ scenario = "pczt" /\ PcztNext /\ UNCHANGED <<checkSide, textSide, reportSide>>
     \/ scenario = "amounts" /\ FixedNext /\ UNCHANGED <<frontVars, checkSide, pcztVars, reportSide>>
     \/ scenario = "front" /\ FrontNext /\ UNCHANGED <<fixedVars, checkSide, pcztVars, reportSide>>
     \/ scenario = "views" /\ TxNext /\ UNCHANGED <<holdVars, bookVars, checkSide, pcztVars, textSide>>
     \/ scenario = "unspent" /\ HoldNext /\ UNCHANGED <<txVars, bookVars, checkSide, pcztVars, textSide>>
     \/ scenario = "book" /\ BookNext /\ UNCHANGED <<txVars, holdVars, checkSide, pcztVars, textSide>>

Spec == Init /\ [][Next]_<<scenario, checkSide, pcztVars, textSide, reportSide>>

\* Neither kind of send gets past its checks with more than was asked for or allowed: what the
\* checks of z_sendmany refuse early could not have been sent, what they let through is permitted,
\* and z_shieldcoinbase links and accounts for what it said (propose_and_check, call).
SendsAreChecked == ChecksAreRight /\ ShieldingSound

\* What the wallet lists is what it has: unspent outputs while blocks are scanned and
\* transactions made (list_unspent), and accounts and addresses while others are added
\* (parse_account_parameter, get_address_for_account, list_addresses).
ListingsRight == ListingConsistent /\ AccountBookRight
=============================================================================
