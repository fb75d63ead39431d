-------------------------------- MODULE Pczt --------------------------------
(***************************************************************************)
(* The pczt_* methods: a partially created transaction goes through        *)
(* creation, proving, signing, combining and extraction, in any order the  *)
(* callers choose and in any number of copies.                             *)
(*                                                                         *)
(* A plan is what a PCZT commits to and no role changes:                   *)
(*   ins       its inputs, [pool, id]; pool "t" is the transparent one     *)
(*   dummies   the padding actions, signed by the IO finalizer at creation *)
(*   ours      inputs whose key derives from the seed the hints name       *)
(*   hinted    transparent inputs with a recorded scope and address index  *)
(*   reveals   the least policy that permits what it reveals               *)
(*   recorded  the policy recorded in it, "none", or "bad" (unreadable)    *)
(*   info      it carries the backend's proposal_info                      *)
(*   hints     it names a seed and account: "none", "seed" or "bad"        *)
(*   known     its consensus branch has a circuit version                  *)
(* A copy is [plan, proven, signed, acks]; acks holds the policies under   *)
(* which this wallet signed it, for the properties.                        *)
(***************************************************************************)
EXTENDS PrivacyPolicy, Integers, FiniteSets

CONSTANTS
  Plans,        \* the transactions considered
  Own,          \* those among them this wallet creates
  Acks,         \* the policies callers permit and acknowledge
  SeedHeld,     \* the keystore has the seed the hints name
  MaxCopies     \* bound: copies of PCZTs in circulation

ASSUME PcztAssumption ==
  /\ SeedHeld \in BOOLEAN /\ MaxCopies \in Nat /\ Acks \subseteq Policies
  /\ \A plan \in Own : plan.info /\ plan.recorded = plan.reveals /\ plan.hints # "bad"
  /\ \A plan \in Own \cup Plans :
       /\ plan.recorded \in {"none", "bad", plan.reveals}   \* where one is recorded, pczt_create did it
       /\ IsFiniteSet(plan.ins) /\ \A i \in plan.dummies : i.pool \in {"orchard", "ironwood"}

VARIABLES
  copies,       \* the PCZTs in circulation
  extracted,    \* {[copy, stored]} of the last extraction, or {}
  walletLocked

pcztVars == <<copies, extracted, walletLocked>>

Shielded == {"sapling", "orchard", "ironwood"}
OrchardLike == {"orchard", "ironwood"}
Of(plan, pool) == {i \in plan.ins : i.pool = pool}
\* Prover::requires_*: the pools of the PCZT that still need a proof.
Unproven(copy) == {p \in Shielded : Of(copy.plan, p) # {}} \ copy.proven

PcztInit == copies = {} /\ extracted = {} /\ walletLocked \in BOOLEAN

Circulate(copy) ==
  /\ copies' = copies \cup {copy}
  /\ Cardinality(copies') <= MaxCopies
  /\ UNCHANGED <<extracted, walletLocked>>

-----------------------------------------------------------------------------
Fresh(plan) == [plan |-> plan, proven |-> {}, signed |-> plan.dummies, acks |-> {}]

\* build_pczt: the caller's policy must permit what the proposal reveals; the
\* least such policy is recorded, and the seed if the account has one.  The
\* padding is signed at once.
Create(plan, permitted) ==
  /\ IsCompatibleWith(permitted, plan.reveals)
  /\ Circulate(Fresh(plan))

\* A PCZT of another wallet arrives.
Receive(plan) == Circulate(Fresh(plan))

\* circuit_version_for_branch
CircuitKnown(copy) == copy.plan.known

\* pczt_prove: all missing proofs, or an error if the branch is unknown.
ProvePczt(copy) ==
  /\ Unproven(copy) \cap OrchardLike # {} => CircuitKnown(copy)
  /\ Circulate([copy EXCEPT !.proven = @ \cup Unproven(copy)])

\* check_privacy_policy comparing the wrong way round.
AcknowledgesReversed(copy, ack) ==
  copy.plan.recorded \in Policies => IsCompatibleWith(copy.plan.recorded, ack)

\* check_privacy_policy: a PCZT without a recorded requirement is accepted.
Acknowledges(copy, ack) ==
  /\ copy.plan.recorded # "bad"
  /\ copy.plan.recorded # "none" => IsCompatibleWith(ack, copy.plan.recorded)

\* pczt_sign attempting the padding actions too.
CandidatesWithDummies(copy) == copy.plan.ins

\* The inputs pczt_sign attempts: Orchard and Ironwood actions that carry a
\* signature already are left out.
Candidates(copy) == {i \in copy.plan.ins : i.pool \in OrchardLike => i \notin copy.signed}

\* read_signing_hints: none is no error, unreadable ones are.
HintsReadable(copy) == copy.plan.hints # "bad"
NamesSeed(copy) == copy.plan.hints = "seed"

\* A transparent input needs its scope and address index.
Derivable(copy, i) == i.pool = "t" => i \in copy.plan.hinted

\* Those it signs: with the key of the hinted seed, if the keystore has it.
Signable(copy) ==
  {i \in Candidates(copy) :
     NamesSeed(copy) /\ SeedHeld /\ i \in copy.plan.ours /\ Derivable(copy, i)}

\* Those it reports as unsigned.
Unsigned(copy) == Candidates(copy) \ Signable(copy)

\* pczt_sign.  A locked wallet refuses only if it is asked for a seed.
SignPczt(copy, ack, strict) ==
  /\ Acknowledges(copy, ack)
  /\ HintsReadable(copy)
  /\ NamesSeed(copy) => ~walletLocked
  /\ strict => Unsigned(copy) = {}
  /\ Circulate([copy EXCEPT !.signed = @ \cup Signable(copy),
                            !.acks = IF Signable(copy) = {} THEN @ ELSE @ \cup {ack}])

\* Another party signs its inputs.
OtherSigns(copy) ==
  Circulate([copy EXCEPT !.signed = @ \cup (copy.plan.ins \ copy.plan.ours)])

\* pczt_combine: copies of one transaction are merged, others are refused.
Combine(a, b) ==
  /\ a.plan = b.plan
  /\ Circulate([plan |-> a.plan, proven |-> a.proven \cup b.proven,
                signed |-> a.signed \cup b.signed, acks |-> a.acks \cup b.acks])

\* Extraction that leaves the shielded signatures to the network.
ExtractableUnverified(copy) ==
  CircuitKnown(copy) /\ Unproven(copy) = {} /\ Of(copy.plan, "t") \subseteq copy.signed

\* SpendFinalizer and TransactionExtractor: every transparent input has a
\* signature to put in its script, every shielded proof and signature verifies.
Extractable(copy) ==
  CircuitKnown(copy) /\ Unproven(copy) = {} /\ copy.plan.ins \subseteq copy.signed

\* pczt_extract records the transaction if the PCZT carries the backend's
\* proposal_info.
ExtractPczt(copy) ==
  /\ Extractable(copy)
  /\ extracted' = {[copy |-> copy, stored |-> copy.plan.info]}
  /\ UNCHANGED <<copies, walletLocked>>

\* orchard_info
OrchardInfo(copy, pool) ==
  [actions |-> Cardinality(Of(copy.plan, pool)),
   signedActions |-> Cardinality(Of(copy.plan, pool) \cap copy.signed),
   proofComplete |-> pool \notin Unproven(copy)]

\* pczt_inspect: what it reports of the roles still to be played.  Hints that
\* cannot be read are reported as none.
Inspect(copy) ==
  [policy |-> copy.plan.recorded, walletCreated |-> copy.plan.info, hints |-> NamesSeed(copy),
   pools |-> [p \in OrchardLike |-> OrchardInfo(copy, p)],
   saplingComplete |-> "sapling" \notin Unproven(copy)]

\* A caller throws a copy away.
Discard(copy) == copies' = copies \ {copy} /\ UNCHANGED <<extracted, walletLocked>>

LockOrUnlock == walletLocked' = ~walletLocked /\ UNCHANGED <<copies, extracted>>

PcztNext ==
  \/ \E plan \in Own, permitted \in Acks : Create(plan, permitted)
  \/ \E plan \in Plans \ Own : Receive(plan)
  \/ \E copy \in copies : ProvePczt(copy) \/ OtherSigns(copy) \/ ExtractPczt(copy) \/ Discard(copy)
  \/ \E copy \in copies, ack \in Acks, strict \in BOOLEAN : SignPczt(copy, ack, strict)
  \/ \E copy, other \in copies : Combine(copy, other)
  \/ LockOrUnlock

PcztSpec == PcztInit /\ [][PcztNext]_pcztVars

-----------------------------------------------------------------------------
\* Whatever copies were merged, a transaction with a signature of this wallet
\* reveals no more than the policy each signing call acknowledged, if the PCZT
\* came from pczt_create here or elsewhere (check_privacy_policy, "Signing is
\* the point of no return").
SignedIsAcknowledged ==
  \A copy \in copies : \A ack \in copy.acks :
    copy.plan.recorded # "none" => IsCompatibleWith(ack, copy.plan.reveals)

\* pczt_extract yields only complete transactions: each input is signed by
\* whoever holds its key and each pool proven, in whichever order and copies
\* the roles were played.
ExtractedIsComplete ==
  \A e \in extracted :
    /\ \A i \in e.copy.plan.ins :
         i \in e.copy.signed /\ (i \in e.copy.plan.ours \ e.copy.plan.dummies => e.copy.acks # {})
    /\ \A p \in Shielded : Of(e.copy.plan, p) # {} => p \in e.copy.proven

\* strict does not get in the way of what the wallet can do alone: a PCZT of
\* its own with every input its own, unlocked and acknowledged, can be signed
\* strictly however often it was signed before, and is complete then
\* (z_sendfromaccount relies on it).
StrictSignsOwn ==
  \A copy \in copies :
    LET plan == copy.plan
        alone == /\ plan.info /\ plan.hints = "seed" /\ SeedHeld
                 /\ plan.ins \ plan.dummies \subseteq plan.ours
                 /\ Of(plan, "t") \subseteq plan.hinted
    IN  alone => Unsigned(copy) = {} /\ plan.ins \subseteq copy.signed \cup Signable(copy)

\* pczt_inspect and pczt_extract agree: a PCZT of Orchard and Ironwood actions
\* that is reported proven, with all actions signed, is extractable on a known
\* branch, and only such a one is.
InspectPredictsExtract ==
  \A copy \in copies :
    LET report == Inspect(copy)
        complete(info) == info.proofComplete /\ info.signedActions = info.actions
    IN (\A i \in copy.plan.ins : i.pool \in OrchardLike) /\ CircuitKnown(copy) =>
         ((\A p \in OrchardLike : complete(report.pools[p])) <=> Extractable(copy))

\* pczt_sign signs what was acknowledged, and all of it when it can.
SigningSound == SignedIsAcknowledged /\ StrictSignsOwn

\* pczt_extract yields complete transactions, those that pczt_inspect foretells.
ExtractionSound == ExtractedIsComplete /\ InspectPredictsExtract
=============================================================================
