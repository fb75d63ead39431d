----------------------------- MODULE SendChecks -----------------------------
(***************************************************************************)
(* What z_sendmany does before it has a transaction to build: parse the    *)
(* amounts into a request (build_request), bound the recipients, refuse    *)
(* what the privacy policy cannot permit, have the wallet propose a        *)
(* transfer, and check the proposal (propose_and_check).                   *)
(*                                                                         *)
(* An address is [form, receivers]; form is "bare", "tex", "unified"       *)
(* or "unknown" (does not parse).  An amount is [to, value, memo].         *)
(* A proposal step has the fields of PrivacyPolicy's steps, and the number *)
(* of notes it spends and outputs it makes in each shielded pool.          *)
(***************************************************************************)
EXTENDS PrivacyPolicy, Sequences, FiniteSetsExt

CONSTANTS
  Sapling, Orchard, Ironwood,   \* the shielded pools
  OrchardPool,      \* where an Orchard receiver is paid at the target height
  Requests,         \* the amounts arrays considered
  Sources,          \* the fromaddress arguments: [form, receivers], or any_taddr
  Transparent,      \* the transparent receiver
  MaxMoney,         \* MAX_MONEY
  ActionsLimit,     \* builder.limits.orchard_actions
  MaxNotes,         \* bound: notes a step spends per pool
  MaxChange         \* bound: change outputs a step has (note splitting)

ASSUME SendChecksAssumption ==
  /\ Pools = {Sapling, Orchard, Ironwood}
  /\ OrchardPool \in {Orchard, Ironwood}
  /\ {MaxMoney, ActionsLimit, MaxNotes, MaxChange} \subseteq Nat

VARIABLES
  source, amounts, policy,  \* the arguments
  pc,
  index,                    \* position in the loop that runs
  total,                    \* build_request: total_out
  sapling, orchard,         \* propose_and_check: max_{sapling,orchard}_available
  proposal,
  error

args == <<source, amounts, policy>>
requestVars == <<source, amounts, policy, pc, index, total, sapling, orchard, proposal, error>>

RequestInit ==
  /\ source \in Sources /\ amounts \in Requests /\ policy \in Policies
  /\ pc = "build" /\ index = 1 /\ total = 0
  /\ sapling = MaxMoney /\ orchard = MaxMoney
  /\ proposal = <<>> /\ error = "none"

Fail(e) ==
  /\ pc' = "refused" /\ error' = e
  /\ UNCHANGED <<args, index, total, sapling, orchard, proposal>>

-----------------------------------------------------------------------------
(* build_request                                                           *)

OnlyTransparent(addr) == addr.receivers = {Transparent}

\* build_request without the check on the total.
BuildPaymentUnsummed ==
  /\ pc = "build" /\ index <= Len(amounts)
  /\ LET a == amounts[index] IN
     IF a.to.form = "unknown" \/ a.value > MaxMoney THEN Fail("BadAmount")
     ELSE /\ index' = index + 1 /\ total' = total + a.value
          /\ UNCHANGED <<args, pc, sapling, orchard, proposal, error>>

\* One turn of build_request's loop, its early returns in their order.
BuildPayment ==
  /\ pc = "build" /\ index <= Len(amounts)
  /\ LET a == amounts[index] IN
     CASE a.to.form = "unknown" -> Fail("BadAddress")
       [] a.to \in {amounts[i].to : i \in 1..(index - 1)} -> Fail("Duplicate")
       [] a.value > MaxMoney -> Fail("BadAmount")
       [] a.memo /\ OnlyTransparent(a.to) -> Fail("TransparentMemo")
       [] a.value = 0 /\ OnlyTransparent(a.to) -> Fail("ZeroTransparent")
       [] total + a.value > MaxMoney -> Fail("TooLarge")
       [] OTHER -> /\ index' = index + 1 /\ total' = total + a.value
                   /\ UNCHANGED <<args, pc, sapling, orchard, proposal, error>>

\* build_request refuses an empty array before its loop and returns after it.
\* Then z_sendmany resolves the source (which may fail) and bounds the number
\* of recipients.
BuildDone ==
  /\ pc = "build" /\ index > Len(amounts)
  /\ \/ amounts = <<>> /\ Fail("Empty")
     \/ amounts # <<>> /\ Fail("NoSuchAccount")
     \/ amounts # <<>> /\ Len(amounts) > ActionsLimit /\ Fail("ExcessRecipients")
     \/ /\ amounts # <<>> /\ Len(amounts) <= ActionsLimit
        /\ pc' = "precheck" /\ index' = 1
        /\ UNCHANGED <<args, total, sapling, orchard, proposal, error>>

-----------------------------------------------------------------------------
(* propose_and_check: the recipients against the policy                    *)

\* One turn of the loop over the payments.  With amounts revealed nothing is
\* reserved; otherwise the payment is taken from the pool it would be paid in.
Precheck ==
  /\ pc = "precheck" /\ index <= Len(amounts)
  /\ LET a == amounts[index]
         hidden == ~RevealedAmountsAllowed(policy)
         Proceed(s, o) ==
           /\ index' = index + 1 /\ sapling' = s /\ orchard' = o
           /\ UNCHANGED <<args, pc, total, proposal, error>>
         inOrchard == Orchard \in a.to.receivers /\ (hidden => a.value <= orchard)
         inSapling == Sapling \in a.to.receivers /\ (hidden => a.value <= sapling)
         fromSapling == IF hidden THEN sapling - a.value ELSE sapling
         fromOrchard == IF hidden THEN orchard - a.value ELSE orchard
     IN  CASE a.to.form # "unified" /\ OnlyTransparent(a.to) ->
                IF RevealedRecipientsAllowed(policy) THEN Proceed(sapling, orchard)
                ELSE Fail("TransparentRecipient")
           [] a.to.form = "bare" /\ ~OnlyTransparent(a.to) ->
                IF inSapling THEN Proceed(fromSapling, orchard)
                ELSE Fail("RevealingShieldedAmount")
           [] a.to.form = "unified" ->
                CASE inOrchard -> Proceed(sapling, fromOrchard)
                  [] ~inOrchard /\ inSapling -> Proceed(fromSapling, orchard)
                  [] OTHER -> IF RevealedRecipientsAllowed(policy)
                                THEN Proceed(sapling, orchard)
                              ELSE Fail(IF hidden THEN "RevealingReceiverAmounts"
                                                  ELSE "TransparentReceiver")

-----------------------------------------------------------------------------
(* The proposal                                                            *)

\* spend_policy_for that lets a unified address's transparent receiver spend.
SpendPolicyLeaky(src) ==
  [pools |-> IF src.form = "unified" THEN src.receivers \ {Transparent} ELSE {},
   taddrs |-> IF Transparent \in src.receivers THEN 1 ELSE 0]

\* spend_policy_for, legacy_pool_spend_policy: the shielded pools, and how
\* many transparent addresses (0, 1 or more), inputs may come from.
SpendPolicyFor(src) ==
  CASE src.form = "any_taddr" -> [pools |-> {}, taddrs |-> 2]
    [] src.form = "bare" /\ OnlyTransparent(src) -> [pools |-> {}, taddrs |-> 1]
    [] src.form = "bare" /\ ~OnlyTransparent(src) -> [pools |-> {Sapling}, taddrs |-> 0]
    [] src.form = "unified" ->
         [pools |-> (src.receivers \cap {Sapling})
                      \cup (IF Orchard \in src.receivers THEN {Orchard, Ironwood} ELSE {}),
          taddrs |-> 0]

\* transparent_change_policy_for
TransparentChangeAllowed(src) == SpendPolicyFor(src).taddrs > 0

\* The pool the transfer pays an address in.
PaidIn(addr) ==
  CASE Orchard \in addr.receivers -> OrchardPool
    [] Orchard \notin addr.receivers /\ Sapling \in addr.receivers -> Sapling
    [] OTHER -> Transparent

PaidTo(pool) == {i \in 1..Len(amounts) : PaidIn(amounts[i].to) = pool /\ amounts[i].to.form # "tex"}
Tex == {i \in 1..Len(amounts) : amounts[i].to.form = "tex"}

\* propose_transfer: inputs the spend policy permits, one output per payment,
\* change in at most one pool, transparent only if no value is shielded.  The
\* TEX addresses are paid by a second step from an ephemeral transparent output
\* of the first (ZIP 320).
Transfers ==
  LET spend == SpendPolicyFor(source)
      First(spends, taddrs, change, n) ==
        LET outs == [p \in Pools |-> Cardinality(PaidTo(p)) + (IF change = p THEN n ELSE 0)]
        IN  [taddrs |-> taddrs, tout |-> PaidTo(Transparent) # {},
             tchange |-> change = Transparent \/ Tex # {},
             from |-> {p \in Pools : spends[p] > 0}, to |-> {p \in Pools : outs[p] > 0},
             spends |-> spends, outs |-> outs]
      zero == [p \in Pools |-> 0]
      second == [taddrs |-> 0, tout |-> TRUE, tchange |-> FALSE, from |-> {}, to |-> {},
                 spends |-> zero, outs |-> zero]
      firsts == {First(s, t, c, n) :
                   s \in {f \in [Pools -> 0..MaxNotes] : \A p \in Pools \ spend.pools : f[p] = 0},
                   t \in 0..spend.taddrs, c \in Pools \cup {Transparent}, n \in 0..MaxChange}
  IN  {IF Tex = {} THEN <<f>> ELSE <<f, second>> :
         f \in {g \in firsts :
                  /\ g.taddrs > 0 \/ g.from # {}
                  /\ g.tchange /\ Tex = {} =>
                       TransparentChangeAllowed(source) /\ g.from = {} /\ g.to = {}}}

Propose ==
  /\ pc = "precheck" /\ index > Len(amounts)
  /\ \/ Fail("ProposeFailed")
     \/ /\ proposal' \in Transfers
        /\ pc' = "check"
        /\ UNCHANGED <<args, index, total, sapling, orchard, error>>

\* enforce_privacy_policy
PolicyPermits(steps) ==
  \A i \in 1..Len(steps) : IsCompatibleWith(policy, StepRequirement(steps[i]))

\* check_shielded_action_limits counting spends only.
SpendsWithinLimits(steps) ==
  \A i \in 1..Len(steps) : \A p \in Pools : steps[i].spends[p] <= ActionsLimit

\* check_shielded_action_limits
WithinActionLimits(steps) ==
  \A i \in 1..Len(steps) : \A p \in Pools :
    Max({steps[i].spends[p], steps[i].outs[p]}) <= ActionsLimit

\* The checks on the proposal, then the account's key derivation and seed
\* (the keystore may be locked); past them the operation is handed over.
CheckProposal ==
  /\ pc = "check"
  /\ CASE ~PolicyPermits(proposal) -> Fail("IncompatiblePrivacyPolicy")
       [] PolicyPermits(proposal) /\ ~WithinActionLimits(proposal) -> Fail("ExcessActions")
       [] OTHER -> \/ Fail("WalletUnlockNeeded")
                   \/ /\ pc' = "ready"
                      /\ UNCHANGED <<args, index, total, sapling, orchard, proposal, error>>

RequestNext == BuildPayment \/ BuildDone \/ Precheck \/ Propose \/ CheckProposal

RequestSpec == RequestInit /\ [][RequestNext]_requestVars

-----------------------------------------------------------------------------
\* The amounts still available to the precheck never go below zero, and the
\* request never asks for more than there is money.
RequestTypeOK ==
  /\ pc \in {"build", "precheck", "check", "ready", "refused"}
  /\ index \in 1..Len(amounts) + 1
  /\ total \in 0..MaxMoney
  /\ sapling \in 0..MaxMoney /\ orchard \in 0..MaxMoney
  /\ pc = "refused" <=> error # "none"

\* The recipient check of propose_and_check only refuses early what
\* enforce_privacy_policy would refuse anyway: whatever transfer the wallet
\* could propose for the request, the policy does not permit it.
EarlyRefusalIsRight ==
  error \in {"TransparentRecipient", "TransparentReceiver", "RevealingShieldedAmount",
             "RevealingReceiverAmounts"}
    => \A t \in Transfers : ~PolicyPermits(t)

\* A transfer from a shielded source never spends transparent funds and never
\* leaves change in the transparent pool, and one from a single transparent
\* address never links it to another: spend_policy_for, whatever the policy.
SourceBoundsLeak ==
  pc = "ready" =>
    \A i \in 1..Len(proposal) :
      /\ source.form \in {"bare", "unified"} /\ ~OnlyTransparent(source)
           => "senders" \notin Reveals(proposal[i])
      /\ source.form # "any_taddr" => "links" \notin Reveals(proposal[i])

\* What z_sendmany hands to the prover is a transfer of every requested
\* payment that reveals no more than the caller's policy allows and fits the
\* action limit in each pool, on each side.
ReadyIsPermitted ==
  pc = "ready" =>
    \A i \in 1..Len(proposal) :
      /\ Reveals(proposal[i]) \subseteq Allows(policy)
      /\ \A p \in Pools : /\ proposal[i].spends[p] <= ActionsLimit
                          /\ proposal[i].outs[p] <= ActionsLimit

\* z_sendmany's bound on the number of recipients only refuses what the
\* per-pool limit of check_shielded_action_limits would refuse as well.
RecipientBoundIsRedundant ==
  error = "ExcessRecipients" => \A t \in Transfers : ~WithinActionLimits(t)

\* The checks before the prover are right in both directions: what they refuse
\* early could not have been sent, and what they let through is permitted.
ChecksAreRight == EarlyRefusalIsRight /\ SourceBoundsLeak /\ ReadyIsPermitted
=============================================================================
