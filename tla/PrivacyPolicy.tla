--------------------------- MODULE PrivacyPolicy ---------------------------
(***************************************************************************)
(* The lattice of privacy policies a spending call is made under, and what *)
(* one step of a transaction proposal reveals (json_rpc/payments.rs).      *)
(*                                                                         *)
(* A proposal step is a record                                             *)
(*   taddrs   how many distinct transparent addresses its inputs come from *)
(*   tout     it pays a transparent recipient                              *)
(*   tchange  it has transparent change (ZIP 320 ephemeral outputs too)    *)
(*   from, to the shielded pools its inputs come from and its payments and *)
(*            change go to                                                 *)
(***************************************************************************)
EXTENDS Naturals

CONSTANT Pools          \* all_shielded_pools(): Sapling, Orchard, Ironwood

Policies ==
  {"FullPrivacy", "AllowRevealedAmounts", "AllowRevealedRecipients",
   "AllowRevealedSenders", "AllowFullyTransparent",
   "AllowLinkingAccountAddresses", "NoPrivacy"}

\* PrivacyPolicy::meet, forgetting that linking addresses reveals senders.
MeetLinking(p, q) ==
  CASE p = "FullPrivacy" -> q
    [] q = "FullPrivacy" -> p
    [] p = "AllowRevealedAmounts" -> q
    [] q = "AllowRevealedAmounts" -> p
    [] OTHER -> IF p = q THEN p ELSE "AllowFullyTransparent"

\* PrivacyPolicy::meet
Meet(p, q) ==
  CASE p = "FullPrivacy" -> q
    [] p = "AllowRevealedAmounts" ->
         IF q = "FullPrivacy" THEN p ELSE q
    [] p = "AllowRevealedRecipients" ->
         CASE q \in {"FullPrivacy", "AllowRevealedAmounts"} -> p
           [] q = "AllowRevealedSenders" -> "AllowFullyTransparent"
           [] q = "AllowLinkingAccountAddresses" -> "NoPrivacy"
           [] OTHER -> q
    [] p = "AllowRevealedSenders" ->
         CASE q \in {"FullPrivacy", "AllowRevealedAmounts"} -> p
           [] q = "AllowRevealedRecipients" -> "AllowFullyTransparent"
           [] OTHER -> q
    [] p = "AllowFullyTransparent" ->
         CASE q \in {"FullPrivacy", "AllowRevealedAmounts",
                     "AllowRevealedRecipients", "AllowRevealedSenders"} -> p
           [] q = "AllowLinkingAccountAddresses" -> "NoPrivacy"
           [] OTHER -> q
    [] p = "AllowLinkingAccountAddresses" ->
         CASE q \in {"FullPrivacy", "AllowRevealedAmounts",
                     "AllowRevealedSenders"} -> p
           [] q \in {"AllowRevealedRecipients", "AllowFullyTransparent"} ->
                "NoPrivacy"
           [] OTHER -> q
    [] p = "NoPrivacy" -> p

\* PrivacyPolicy::is_compatible_with
IsCompatibleWith(p, q) == p = Meet(p, q)

\* PrivacyPolicy::{allow_revealed_amounts, allow_revealed_recipients}
RevealedAmountsAllowed(p) == IsCompatibleWith(p, "AllowRevealedAmounts")
RevealedRecipientsAllowed(p) == IsCompatibleWith(p, "AllowRevealedRecipients")

-----------------------------------------------------------------------------
Step ==
  [taddrs : Nat, tout : BOOLEAN, tchange : BOOLEAN,
   from : SUBSET Pools, to : SUBSET Pools]

\* shielded_pool_crossed_into
CrossesPools(step) == \E pool \in step.to : step.from \ {pool} # {}

\* step_privacy_requirement, looking only at explicit recipients.
StepRequirementNoChange(step) ==
  CASE step.taddrs > 1 ->
         IF step.tout THEN "NoPrivacy" ELSE "AllowLinkingAccountAddresses"
    [] step.taddrs = 1 ->
         IF step.tout THEN "AllowFullyTransparent" ELSE "AllowRevealedSenders"
    [] step.taddrs = 0 /\ step.tout -> "AllowRevealedRecipients"
    [] OTHER -> IF CrossesPools(step) THEN "AllowRevealedAmounts" ELSE "FullPrivacy"

\* step_privacy_requirement with its None, "no requirement", taken for a policy.
StepRequirementNone(step) ==
  LET p == StepRequirementNoChange(step)
  IN  IF p = "FullPrivacy" THEN "None" ELSE p

\* step_privacy_requirement; a step that reveals nothing requires FullPrivacy,
\* which every policy is compatible with.
StepRequirement(step) ==
  LET transparentOut == step.tout \/ step.tchange
  IN  CASE step.taddrs > 1 ->
             IF transparentOut THEN "NoPrivacy" ELSE "AllowLinkingAccountAddresses"
        [] step.taddrs = 1 ->
             IF transparentOut THEN "AllowFullyTransparent" ELSE "AllowRevealedSenders"
        [] step.taddrs = 0 /\ transparentOut -> "AllowRevealedRecipients"
        [] OTHER ->
             IF CrossesPools(step) THEN "AllowRevealedAmounts" ELSE "FullPrivacy"

-----------------------------------------------------------------------------
\* What the documentation of each policy says it permits to be revealed.
Allows(p) ==
  CASE p = "FullPrivacy" -> {}
    [] p = "AllowRevealedAmounts" -> {"amounts"}
    [] p = "AllowRevealedRecipients" -> {"amounts", "recipients"}
    [] p = "AllowRevealedSenders" -> {"amounts", "senders"}
    [] p = "AllowFullyTransparent" -> {"amounts", "recipients", "senders"}
    [] p = "AllowLinkingAccountAddresses" -> {"amounts", "senders", "links"}
    [] p = "NoPrivacy" -> {"amounts", "recipients", "senders", "links"}

\* What a step makes public on the chain.
Reveals(step) ==
  LET transparentOut == step.tout \/ step.tchange
  IN  {l \in {"amounts", "recipients", "senders", "links"} :
         \/ l = "recipients" /\ transparentOut
         \/ l = "senders" /\ step.taddrs > 0
         \/ l = "links" /\ step.taddrs > 1
         \/ l = "amounts" /\ (transparentOut \/ step.taddrs > 0 \/ CrossesPools(step))}
=============================================================================
