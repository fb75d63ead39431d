------------------------------ MODULE Shielding ------------------------------
(* What z_shieldcoinbase does before it has a transaction to build: classify *)
(* the source, choose or refuse the privacy policy, have the wallet select   *)
(* coinbase outputs, check the selection, and count in a second query what   *)
(* it leaves behind.  The wallet scans and spends in between.                *)
EXTENDS Integers, FiniteSets, FiniteSetsExt

CONSTANTS AddressOwner,    \* the account of each transparent address
          Coins,           \* coinbase output -> its address and value
          Froms,           \* fromaddress arguments: [kind, of]
          Limits,          \* limit arguments, 0 when omitted
          OrchardActions,  \* builder.limits.orchard_actions
          ValueCap         \* MAX_MONEY

VARIABLES coin,      \* each coin: "unknown" to the wallet, "eligible" or "spent"
          shielding, \* the call
          moved      \* whether a coin changed since the proposal

shieldVars == <<coin, shielding, moved>>

Nil == [count |-> 0, value |-> 0]

Asked(from, limit, asked, fee) ==
  [pc |-> "parse", from |-> from, limit |-> limit, asked |-> asked, fee |-> fee, policy |-> "none",
   addrs |-> {}, selected |-> {}, remaining |-> Nil, error |-> "none"]

ShieldInit ==
  /\ coin \in [DOMAIN Coins -> {"unknown", "eligible"}]
  /\ moved = FALSE
  /\ \E from \in Froms, limit \in Limits,
        asked \in {"omitted", "AllowRevealedSenders", "AllowLinkingAccountAddresses", "FullPrivacy"},
        fee \in BOOLEAN :
       shielding = Asked(from, limit, asked, fee)

\* A scan finds a coin, a send spends one, a rewind takes one back.
CoinMoves ==
  /\ shielding.pc \in {"propose", "check", "count"}
  /\ \E c \in DOMAIN Coins :
       \E to \in CASE coin[c] = "unknown" -> {"eligible"}
                   [] coin[c] = "eligible" -> {"spent", "unknown"}
                   [] OTHER -> {"eligible"} :
         coin' = [coin EXCEPT ![c] = to]
  /\ moved' = TRUE /\ UNCHANGED shielding

Refuse(e) == shielding' = [shielding EXCEPT !.pc = "refused", !.error = e]
ParsesFrom(from) == from.kind \in {"account", "taddr"}

\* The default by the shape of the source; only two policies can be met.
ShieldPolicy(asked, from) ==
  CASE asked # "omitted" -> asked
    [] asked = "omitted" /\ from.kind = "taddr" -> "AllowRevealedSenders"
    [] OTHER -> "AllowLinkingAccountAddresses"

\* All receivers of an account, or the one address if an account owns it.
ResolveFrom(from) ==
  {a \in DOMAIN AddressOwner : IF from.kind = "account" THEN AddressOwner[a] = from.of ELSE a = from.of}

ParseShield ==
  /\ shielding.pc = "parse"
  /\ LET s == shielding
     IN CASE s.fee -> Refuse("Fee")
          [] ~s.fee /\ ~ParsesFrom(s.from) -> Refuse("From")
          [] ~s.fee /\ ParsesFrom(s.from) /\ s.asked = "FullPrivacy" -> Refuse("Policy")
          [] ~s.fee /\ ParsesFrom(s.from) /\ s.asked # "FullPrivacy" /\ ResolveFrom(s.from) = {} ->
               Refuse("NotOwned")
          [] OTHER -> shielding' = [s EXCEPT !.pc = "propose", !.addrs = ResolveFrom(s.from),
                                             !.policy = ShieldPolicy(s.asked, s.from)]
  /\ moved' = FALSE /\ UNCHANGED coin

Eligible(addrs) == {c \in DOMAIN Coins : coin[c] = "eligible" /\ Coins[c].addr \in addrs}

\* external: all eligible coins, or as many as the limit; one shielded output takes the value.
ProposeShielding ==
  /\ shielding.pc = "propose"
  /\ LET all == Eligible(shielding.addrs)
         n == IF shielding.limit = 0 THEN Cardinality(all) ELSE Min({shielding.limit, Cardinality(all)})
     IN IF all = {} THEN Refuse("Propose")
        ELSE \E chosen \in kSubset(n, all) : shielding' = [shielding EXCEPT !.pc = "check", !.selected = chosen]
  /\ moved' = FALSE /\ UNCHANGED coin

SourcesOf(coins) == {Coins[c].addr : c \in coins}

\* enforce_privacy_policy and check_shielded_action_limits, of one step with one shielded output.
CheckShielding ==
  /\ shielding.pc = "check"
  /\ IF Cardinality(SourcesOf(shielding.selected)) > 1 /\ shielding.policy # "AllowLinkingAccountAddresses"
     THEN Refuse("IncompatiblePrivacyPolicy")
     ELSE IF OrchardActions < 1 THEN Refuse("ExcessActions")
     ELSE shielding' = [shielding EXCEPT !.pc = "count"]
  /\ UNCHANGED <<coin, moved>>

SumSelected(coins) ==
  [count |-> Cardinality(coins), value |-> MapThenSumSet(LAMBDA c : Coins[c].value, coins)]

EnumerateFirst(addrs) == SumSelected(Eligible({CHOOSE a \in addrs : TRUE}))

\* enumerate_eligible: address by address, as of the proposal's target height.
EnumerateEligible(addrs) == SumSelected(Eligible(addrs))

\* What remains, both subtractions checked; then the key, for which the keystore must be unlocked.
CountShielding ==
  /\ shielding.pc = "count"
  /\ LET taken == SumSelected(shielding.selected)
         total == EnumerateEligible(shielding.addrs)
     IN IF taken.value > ValueCap \/ total.value > ValueCap THEN Refuse("Overflow")
        ELSE IF total.count < taken.count \/ total.value < taken.value THEN Refuse("Accounting")
        ELSE \/ shielding' = [shielding EXCEPT !.pc = "ready",
                                !.remaining = [count |-> total.count - taken.count,
                                               value |-> total.value - taken.value]]
             \/ Refuse("WalletUnlockNeeded")
  /\ UNCHANGED <<coin, moved>>

ShieldNext == CoinMoves \/ ParseShield \/ ProposeShielding \/ CheckShielding \/ CountShielding

-----------------------------------------------------------------------------

\* A shielding takes coins of the named address only, or of one account only ("sweeping across
\* accounts would correlate them on-chain"), and links two addresses only under the policy that
\* says so, whichever policy was chosen by default (parse_privacy_policy, enforce_privacy_policy).
LinksAreAllowed ==
  shielding.pc = "ready" =>
    /\ \A a \in SourcesOf(shielding.selected) :
         IF shielding.from.kind = "taddr" THEN a = shielding.from.of ELSE AddressOwner[a] = shielding.from.of
    /\ Cardinality(SourcesOf(shielding.selected)) > 1 => shielding.policy = "AllowLinkingAccountAddresses"

\* The second query mirrors the candidates of the first: "likely a chain race" is said only when
\* a coin moved between the two, and without one the reply accounts for every eligible coin
\* (enumerate_eligible, sum_selected_inputs).
PreflightAccounts ==
  /\ shielding.error = "Accounting" => moved
  /\ (shielding.pc = "ready" /\ ~moved) =>
       shielding.remaining = SumSelected(Eligible(shielding.addrs) \ shielding.selected)

\* A shielding reveals what was allowed, and its reply adds up.
ShieldingSound == LinksAreAllowed /\ PreflightAccounts
=============================================================================
