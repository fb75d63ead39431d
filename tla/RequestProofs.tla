---------------------------- MODULE RequestProofs ---------------------------
(***************************************************************************)
(* Theorems about what a request passes through and what its answer says.  *)
(***************************************************************************)
EXTENDS PolicyCheck, Pczt, RpcFront, FiniteSetTheorems, TLAPS

(***************************************************************************)
(* The privacy check and the privacy report agree, for every proposal.     *)
(***************************************************************************)
\* PrivacyPolicy::meet is closed, and allows what its arguments allow together.
LEMMA MeetAllows ==
  ASSUME NEW p \in Policies, NEW q \in Policies
  PROVE  Meet(p, q) \in Policies /\ Allows(Meet(p, q)) = Allows(p) \cup Allows(q)
<1>1. CASE p = "FullPrivacy"
  BY <1>1 DEF Policies, Meet, Allows
<1>2. CASE p = "AllowRevealedAmounts"
  BY <1>2 DEF Policies, Meet, Allows
<1>3. CASE p = "AllowRevealedRecipients"
  BY <1>3 DEF Policies, Meet, Allows
<1>4. CASE p = "AllowRevealedSenders"
  BY <1>4 DEF Policies, Meet, Allows
<1>5. CASE p = "AllowFullyTransparent"
  BY <1>5 DEF Policies, Meet, Allows
<1>6. CASE p = "AllowLinkingAccountAddresses"
  BY <1>6 DEF Policies, Meet, Allows
<1>7. CASE p = "NoPrivacy"
  BY <1>7 DEF Policies, Meet, Allows
<1> QED BY <1>1, <1>2, <1>3, <1>4, <1>5, <1>6, <1>7 DEF Policies

\* Policies that allow the same are the same.
LEMMA AllowsInjective ==
  ASSUME NEW p \in Policies, NEW q \in Policies, Allows(p) = Allows(q)
  PROVE  p = q
BY DEF Policies, Allows

\* PrivacyPolicy::is_compatible_with compares what two policies allow.
LEMMA CompatibleAllows ==
  ASSUME NEW p \in Policies, NEW q \in Policies
  PROVE  IsCompatibleWith(p, q) <=> Allows(q) \subseteq Allows(p)
<1>1. Meet(p, q) \in Policies /\ Allows(Meet(p, q)) = Allows(p) \cup Allows(q)
  BY MeetAllows
<1>2. ASSUME p = Meet(p, q) PROVE Allows(q) \subseteq Allows(p)
  BY <1>1, <1>2
<1>3. ASSUME Allows(q) \subseteq Allows(p) PROVE p = Meet(p, q)
  <2>1. Allows(p) = Allows(Meet(p, q))
    BY <1>1, <1>3
  <2> QED BY <2>1, <1>1, AllowsInjective
<1> QED BY <1>2, <1>3 DEF IsCompatibleWith

\* step_privacy_requirement returns a policy that allows what the step
\* reveals, and every policy that does allows all of it.
LEMMA RequirementAllows ==
  ASSUME NEW step \in Step
  PROVE  /\ StepRequirement(step) \in Policies
         /\ Allows(StepRequirement(step)) = Reveals(step)
<1> DEFINE out == step.tout \/ step.tchange
<1>1. step.taddrs \in Nat
  BY DEF Step
<1>2. CASE step.taddrs > 1
  BY <1>1, <1>2 DEF StepRequirement, Policies, Allows, Reveals
<1>3. CASE step.taddrs = 1
  BY <1>1, <1>3 DEF StepRequirement, Policies, Allows, Reveals
<1>4. CASE step.taddrs = 0 /\ out
  BY <1>1, <1>4 DEF StepRequirement, Policies, Allows, Reveals
<1>5. CASE step.taddrs = 0 /\ ~out
  BY <1>1, <1>5 DEF StepRequirement, Policies, Allows, Reveals
<1> QED BY <1>1, <1>2, <1>3, <1>4, <1>5

-----------------------------------------------------------------------------
\* What both loops have established about the steps they have passed.
CheckInv ==
  /\ CheckTypeOK
  /\ \A i \in 1..(next - 1) : IsCompatibleWith(given, StepRequirement(steps[i]))
  /\ verdict = "Ok" => next = Len(steps) + 1
  /\ verdict = "Err" =>
       \E i \in 1..Len(steps) : ~IsCompatibleWith(given, StepRequirement(steps[i]))
  /\ Allows(required) = UNION {Reveals(steps[i]) : i \in 1..(folded - 1)}

\* The arguments satisfy the invariant before either loop runs.
LEMMA CheckStarts == CheckInit => CheckInv
<1> SUFFICES ASSUME CheckInit PROVE CheckInv
  OBVIOUS
<1>1. CheckTypeOK
  BY ProposalsAssumption DEF CheckInit, CheckTypeOK, Policies
<1>2. Allows(required) = {}
  BY DEF CheckInit, Allows
<1> QED BY <1>1, <1>2 DEF CheckInit, CheckInv

\* A turn of enforce_privacy_policy's loop.
LEMMA EnforceInv == CheckInv /\ Enforce => CheckInv'
<1> SUFFICES ASSUME CheckInv, Enforce PROVE CheckInv'
  OBVIOUS
<1>1. CheckTypeOK'
  BY DEF CheckInv, CheckTypeOK, Enforce
<1>2. (\A i \in 1..(next - 1) : IsCompatibleWith(given, StepRequirement(steps[i])))'
  BY DEF CheckInv, CheckTypeOK, Enforce
<1>3. (verdict = "Ok" => next = Len(steps) + 1)'
  BY DEF CheckInv, CheckTypeOK, Enforce
<1>4. (verdict = "Err" =>
        \E i \in 1..Len(steps) : ~IsCompatibleWith(given, StepRequirement(steps[i])))'
  BY DEF CheckInv, CheckTypeOK, Enforce
<1>5. (Allows(required) = UNION {Reveals(steps[i]) : i \in 1..(folded - 1)})'
  BY DEF CheckInv, Enforce
<1> QED BY <1>1, <1>2, <1>3, <1>4, <1>5 DEF CheckInv

\* A turn of required_privacy_policy's fold.
LEMMA RequireInv == CheckInv /\ Require => CheckInv'
<1> SUFFICES ASSUME CheckInv, Require PROVE CheckInv'
  OBVIOUS
<1> DEFINE r == StepRequirement(steps[folded])
<1>1. steps[folded] \in Step /\ folded \in 1..Len(steps)
  BY DEF CheckInv, CheckTypeOK, Require
<1>2. r \in Policies /\ Allows(r) = Reveals(steps[folded])
  BY <1>1, RequirementAllows
<1>3. /\ required' \in Policies
      /\ Allows(required') = Allows(required) \cup Reveals(steps[folded])
  <2> HIDE DEF r
  <2>1. Meet(required, r) \in Policies /\ Allows(Meet(required, r)) = Allows(required) \cup Allows(r)
    BY <1>2, MeetAllows DEF CheckInv, CheckTypeOK
  <2>2. required' = Meet(required, r)
    BY DEF Require, r
  <2> QED BY <2>1, <2>2, <1>2
<1>4. CheckTypeOK'
  BY <1>1, <1>3 DEF CheckInv, CheckTypeOK, Require
<1>5. (Allows(required) = UNION {Reveals(steps[i]) : i \in 1..(folded - 1)})'
  <2>1. folded' - 1 = folded /\ 1..folded = 1..(folded - 1) \cup {folded} /\ steps' = steps
    BY <1>1 DEF Require
  <2>2. Allows(required) = UNION {Reveals(steps[i]) : i \in 1..(folded - 1)}
    BY DEF CheckInv
  <2> QED BY <2>1, <2>2, <1>3
<1> QED BY <1>4, <1>5 DEF CheckInv, Require

\* Every step preserves the invariant.
LEMMA CheckStep == CheckInv /\ [CheckNext]_checkVars => CheckInv'
<1> SUFFICES ASSUME CheckInv, UNCHANGED checkVars PROVE CheckInv'
  BY EnforceInv, RequireInv DEF CheckNext
<1> QED BY DEF CheckInv, CheckTypeOK, checkVars

\* The invariant gives the three properties once the loops have ended.
LEMMA InvImplies == CheckInv => CheckMatchesReport /\ ReportIsStrictest /\ NoUndeclaredLeak
<1> SUFFICES ASSUME CheckInv PROVE CheckMatchesReport /\ ReportIsStrictest /\ NoUndeclaredLeak
  OBVIOUS
<1> DEFINE r(i) == StepRequirement(steps[i])
           revealed == UNION {Reveals(steps[i]) : i \in 1..Len(steps)}
<1>1. given \in Policies /\ required \in Policies /\ Len(steps) \in Nat
  BY DEF CheckInv, CheckTypeOK
<1>2. \A i \in 1..Len(steps) :
        IsCompatibleWith(given, r(i)) <=> Reveals(steps[i]) \subseteq Allows(given)
  <2> SUFFICES ASSUME NEW i \in 1..Len(steps)
               PROVE  IsCompatibleWith(given, r(i)) <=> Reveals(steps[i]) \subseteq Allows(given)
    OBVIOUS
  <2>1. steps[i] \in Step
    BY DEF CheckInv, CheckTypeOK
  <2>2. r(i) \in Policies /\ Allows(r(i)) = Reveals(steps[i])
    BY <2>1, RequirementAllows
  <2> HIDE DEF r
  <2>3. IsCompatibleWith(given, r(i)) <=> Allows(r(i)) \subseteq Allows(given)
    BY <2>2, <1>1, CompatibleAllows
  <2> QED BY <2>2, <2>3
<1>3. verdict = "Ok" => \A i \in 1..Len(steps) : IsCompatibleWith(given, r(i))
  BY <1>1 DEF CheckInv
<1>4. NoUndeclaredLeak
  BY <1>2, <1>3 DEF NoUndeclaredLeak
<1>5. Reported => Allows(required) = revealed
  BY <1>1 DEF CheckInv, Reported
<1>6. ReportIsStrictest
  BY <1>5 DEF ReportIsStrictest
<1>7. CheckMatchesReport
  <2> SUFFICES ASSUME verdict # "Checking", Reported
               PROVE  verdict = "Ok" <=> revealed \subseteq Allows(given)
    BY <1>1, <1>5, CompatibleAllows DEF CheckMatchesReport
  <2>1. CASE verdict = "Ok"
    BY <2>1, <1>4 DEF NoUndeclaredLeak
  <2>2. CASE verdict = "Err"
    <3>1. PICK i \in 1..Len(steps) : ~IsCompatibleWith(given, r(i))
      BY <2>2 DEF CheckInv
    <3> QED BY <3>1, <1>2, <2>2
  <2> QED BY <2>1, <2>2 DEF CheckInv, CheckTypeOK
<1> QED BY <1>4, <1>6, <1>7

\* For every proposal, whatever its length, its steps and the set of shielded
\* pools: enforce_privacy_policy and required_privacy_policy agree, the
\* reported policy is the strictest sufficient one, and an accepted proposal
\* reveals nothing its caller does not allow.
THEOREM PolicyChecked ==
  CheckSpec => [](CheckTypeOK /\ PolicyCorrect)
<1>1. CheckInv => CheckTypeOK /\ PolicyCorrect
  BY InvImplies DEF CheckInv, PolicyCorrect
<1> QED BY <1>1, CheckStarts, CheckStep, PTL DEF CheckSpec
-----------------------------------------------------------------------------
(***************************************************************************)
(* Partially created transactions, in any number of copies that are        *)
(* proven, signed and combined in any order.  A copy carries the           *)
(* acknowledgements of the calls that signed it.                           *)
(***************************************************************************)
\* A copy in circulation: of a plan, its padding signed, and signed for this wallet's inputs only
\* by a call that acknowledged what it reveals.
CopyRight(c) ==
  /\ c = [plan |-> c.plan, proven |-> c.proven, signed |-> c.signed, acks |-> c.acks]
  /\ c.plan \in Own \cup Plans
  /\ c.plan.dummies \subseteq c.signed
  /\ \A ack \in c.acks : c.plan.recorded # "none" => IsCompatibleWith(ack, c.plan.reveals)
  /\ (\E i \in c.signed : i \in c.plan.ours \ c.plan.dummies) => c.acks # {}

\* The inductive invariant.
PcztInv ==
  /\ \A c \in copies : CopyRight(c)
  /\ \A e \in extracted : CopyRight(e.copy) /\ Extractable(e.copy)

\* Putting a copy that is right into circulation keeps it.
LEMMA CirculateKeeps ==
  ASSUME PcztInv, NEW c, CopyRight(c), Circulate(c)
  PROVE  PcztInv'
<1>1. \A d \in copies' : CopyRight(d)
  BY DEF PcztInv, Circulate
<1>2. extracted' = extracted
  BY DEF Circulate
<1> HIDE DEF CopyRight
<1> QED
  BY <1>1, <1>2 DEF PcztInv, CopyRight, Extractable, CircuitKnown, Unproven

\* A new PCZT keeps it: its padding is signed and nothing else is.
LEMMA FreshKeeps == ASSUME PcztInv, NEW plan \in Own \cup Plans, Circulate(Fresh(plan)) PROVE PcztInv'
<1>1. CopyRight(Fresh(plan))
  BY DEF CopyRight, Fresh
<1> QED
  BY <1>1, CirculateKeeps

\* pczt_prove keeps it.
LEMMA ProveKeeps == ASSUME PcztInv, NEW c \in copies, ProvePczt(c) PROVE PcztInv'
<1> DEFINE d == [c EXCEPT !.proven = @ \cup Unproven(c)]
<1>1. CopyRight(c)
  BY DEF PcztInv
<1>2. d = [plan |-> c.plan, proven |-> c.proven \cup Unproven(c), signed |-> c.signed, acks |-> c.acks]
  BY <1>1 DEF CopyRight
<1> HIDE DEF d
<1>3. CopyRight(d)
  BY <1>1, <1>2 DEF CopyRight
<1> QED
  BY <1>3, CirculateKeeps DEF ProvePczt, d

\* A signature of another wallet keeps it.
LEMMA OtherSignsKeeps == ASSUME PcztInv, NEW c \in copies, OtherSigns(c) PROVE PcztInv'
<1> DEFINE d == [c EXCEPT !.signed = @ \cup (c.plan.ins \ c.plan.ours)]
<1>1. CopyRight(c)
  BY DEF PcztInv
<1>2. d = [plan |-> c.plan, proven |-> c.proven, signed |-> c.signed \cup (c.plan.ins \ c.plan.ours), acks |-> c.acks]
  BY <1>1 DEF CopyRight
<1> HIDE DEF d
<1>3. CopyRight(d)
  BY <1>1, <1>2 DEF CopyRight
<1> QED
  BY <1>3, CirculateKeeps DEF OtherSigns, d

\* pczt_sign keeps it: it signs after the policy was acknowledged, for this wallet's
\* inputs.
LEMMA SignKeeps ==
  ASSUME PcztInv, NEW c \in copies, NEW ack \in Acks, NEW strict, SignPczt(c, ack, strict)
  PROVE  PcztInv'
<1> DEFINE d == [c EXCEPT !.signed = @ \cup Signable(c), !.acks = IF Signable(c) = {} THEN @ ELSE @ \cup {ack}]
<1>1. CopyRight(c)
  BY DEF PcztInv
<1>2. PICK new \in SUBSET {ack} :
        /\ d = [plan |-> c.plan, proven |-> c.proven, signed |-> c.signed \cup Signable(c), acks |-> c.acks \cup new]
        /\ Signable(c) = {} \/ new # {}
  <2>1. CASE Signable(c) = {}
    <3>1. d = [plan |-> c.plan, proven |-> c.proven, signed |-> c.signed \cup Signable(c), acks |-> c.acks]
      BY <1>1, <2>1 DEF CopyRight
    <3>2. c.acks = c.acks \cup {}
      OBVIOUS
    <3> HIDE DEF d
    <3> QED
      BY <2>1, <3>1, <3>2
  <2>2. CASE Signable(c) # {}
    <3>1. d = [plan |-> c.plan, proven |-> c.proven, signed |-> c.signed \cup Signable(c), acks |-> c.acks \cup {ack}]
      <4>1. (IF Signable(c) = {} THEN c.acks ELSE c.acks \cup {ack}) = c.acks \cup {ack}
        BY <2>2
      <4>2. d = [c EXCEPT !.signed = c.signed \cup Signable(c), !.acks = c.acks \cup {ack}]
        BY <4>1
      <4> HIDE DEF d
      <4> QED
        BY <1>1, <4>2 DEF CopyRight
    <3> HIDE DEF d
    <3> QED
      BY <2>2, <3>1
  <2> QED
    BY <2>1, <2>2
<1> HIDE DEF d
<1>3. c.plan.recorded # "none" => IsCompatibleWith(ack, c.plan.reveals)
  BY <1>1, PcztAssumption DEF SignPczt, Acknowledges, CopyRight
<1>4. CopyRight(d)
  BY <1>1, <1>2, <1>3 DEF CopyRight
<1> QED
  BY <1>4, CirculateKeeps DEF SignPczt, d

\* pczt_combine keeps it: copies of one plan carry acknowledgements of that plan.
LEMMA CombineKeeps == ASSUME PcztInv, NEW a \in copies, NEW b \in copies, Combine(a, b) PROVE PcztInv'
<1> DEFINE d == [plan |-> a.plan, proven |-> a.proven \cup b.proven,
                 signed |-> a.signed \cup b.signed, acks |-> a.acks \cup b.acks]
<1>1. CopyRight(a) /\ CopyRight(b) /\ a.plan = b.plan
  BY DEF PcztInv, Combine
<1>2. CopyRight(d)
  BY <1>1 DEF CopyRight
<1> QED
  BY <1>2, CirculateKeeps DEF Combine

\* pczt_extract keeps it.
LEMMA ExtractKeeps == ASSUME PcztInv, NEW c \in copies, ExtractPczt(c) PROVE PcztInv'
<1>1. \A e \in extracted' : e.copy = c
  BY DEF ExtractPczt
<1> QED
  BY <1>1 DEF ExtractPczt, PcztInv, CopyRight, Extractable, CircuitKnown, Unproven

\* It holds before the first PCZT.
LEMMA PcztStarts == PcztInit => PcztInv
BY DEF PcztInit, PcztInv

\* It is inductive.
LEMMA PcztStep == PcztInv /\ [PcztNext]_pcztVars => PcztInv'
<1> SUFFICES ASSUME PcztInv, [PcztNext]_pcztVars PROVE PcztInv'
  OBVIOUS
<1>1. CASE UNCHANGED pcztVars
  BY <1>1 DEF pcztVars, PcztInv, CopyRight, Extractable, CircuitKnown, Unproven
<1>2. ASSUME NEW plan \in Own \cup Plans, NEW permitted, Create(plan, permitted) \/ Receive(plan) PROVE PcztInv'
  BY <1>2, FreshKeeps DEF Create, Receive
<1>3. ASSUME NEW c \in copies, Discard(c) PROVE PcztInv'
  BY <1>3 DEF Discard, PcztInv, CopyRight, Extractable, CircuitKnown, Unproven
<1>4. CASE LockOrUnlock
  BY <1>4 DEF LockOrUnlock, PcztInv, CopyRight, Extractable, CircuitKnown, Unproven
<1> QED
  BY <1>1, <1>2, <1>3, <1>4, ProveKeeps, OtherSignsKeeps, SignKeeps, CombineKeeps, ExtractKeeps DEF PcztNext

\* Whatever copies are combined, in any order, a transaction this wallet signed reveals no
\* more than the policy each signing call acknowledged; and a strict pczt_sign leaves no
\* input out of a transaction that is wholly this wallet's, however often it was signed.
THEOREM SigningIsSound == PcztSpec => []SigningSound
<1>1. ASSUME PcztInv PROVE SigningSound
  <2>1. SignedIsAcknowledged
    BY <1>1 DEF PcztInv, CopyRight, SignedIsAcknowledged
  <2>2. ASSUME NEW c \in copies, c.plan.hints = "seed", SeedHeld,
               c.plan.ins \ c.plan.dummies \subseteq c.plan.ours, Of(c.plan, "t") \subseteq c.plan.hinted
        PROVE  Unsigned(c) = {} /\ c.plan.ins \subseteq c.signed \cup Signable(c)
    <3>1. CopyRight(c)
      BY <1>1 DEF PcztInv
    <3>2. ASSUME NEW i \in Candidates(c) PROVE i \in Signable(c)
      <4>1. i \in c.plan.ins /\ i \notin c.plan.dummies
        BY <3>1, PcztAssumption DEF Candidates, CopyRight, OrchardLike
      <4> QED
        BY <2>2, <4>1 DEF Signable, NamesSeed, Derivable, Of
    <3> QED
      BY <3>2 DEF Unsigned, Candidates
  <2>3. StrictSignsOwn
    BY <2>2 DEF StrictSignsOwn
  <2> QED
    BY <2>1, <2>3 DEF SigningSound
<1> QED
  BY <1>1, PcztStarts, PcztStep, PTL DEF PcztSpec

\* All of a finite set is signed iff as many are.
LEMMA AllSigned ==
  ASSUME NEW S, IsFiniteSet(S), NEW T
  PROVE  Cardinality(S \cap T) = Cardinality(S) <=> S \subseteq T
<1>1. Cardinality(S) = Cardinality(S \cap T) => S = S \cap T
  BY FS_Subset
<1>2. S \subseteq T => S \cap T = S
  OBVIOUS
<1> QED
  BY <1>1, <1>2

\* Of any copies, combined in any order, pczt_extract yields only transactions that are
\* proven, fully signed and acknowledged, and pczt_inspect foretells which.
THEOREM ExtractionIsSound == PcztSpec => []ExtractionSound
<1>1. ASSUME PcztInv PROVE ExtractionSound
  <2>1. ExtractedIsComplete
    <3> SUFFICES ASSUME NEW e \in extracted
                 PROVE  /\ \A i \in e.copy.plan.ins :
                             i \in e.copy.signed /\ (i \in e.copy.plan.ours \ e.copy.plan.dummies => e.copy.acks # {})
                        /\ \A p \in Shielded : Of(e.copy.plan, p) # {} => p \in e.copy.proven
      BY DEF ExtractedIsComplete
    <3>1. CopyRight(e.copy) /\ Extractable(e.copy)
      BY <1>1 DEF PcztInv
    <3> QED
      BY <3>1 DEF CopyRight, Extractable, Unproven
  <2>2. InspectPredictsExtract
    <3> SUFFICES ASSUME NEW c \in copies, \A i \in c.plan.ins : i.pool \in OrchardLike, CircuitKnown(c)
                 PROVE  (\A p \in OrchardLike :
                           /\ Inspect(c).pools[p].proofComplete
                           /\ Inspect(c).pools[p].signedActions = Inspect(c).pools[p].actions) <=> Extractable(c)
      BY DEF InspectPredictsExtract
    <3>1. ASSUME NEW p \in OrchardLike
          PROVE  /\ Inspect(c).pools[p].proofComplete <=> p \notin Unproven(c)
                 /\ Inspect(c).pools[p].signedActions = Inspect(c).pools[p].actions <=> Of(c.plan, p) \subseteq c.signed
      <4>1. IsFiniteSet(Of(c.plan, p))
        <5>1. IsFiniteSet(c.plan.ins)
          BY <1>1, PcztAssumption DEF PcztInv, CopyRight
        <5> QED
          BY <5>1, FS_Subset DEF Of
      <4>2. Inspect(c).pools[p] = OrchardInfo(c, p)
        BY DEF Inspect
      <4>3. OrchardInfo(c, p).proofComplete <=> p \notin Unproven(c)
        BY DEF OrchardInfo
      <4>4. /\ OrchardInfo(c, p).actions = Cardinality(Of(c.plan, p))
            /\ OrchardInfo(c, p).signedActions = Cardinality(Of(c.plan, p) \cap c.signed)
        BY DEF OrchardInfo
      <4>5. Cardinality(Of(c.plan, p) \cap c.signed) = Cardinality(Of(c.plan, p)) <=> Of(c.plan, p) \subseteq c.signed
        BY <4>1, AllSigned
      <4> QED
        BY <4>2, <4>3, <4>4, <4>5
    <3>2. (\A p \in OrchardLike : p \notin Unproven(c)) <=> Unproven(c) = {}
      BY DEF Unproven, Of, Shielded, OrchardLike
    <3>3. (\A p \in OrchardLike : Of(c.plan, p) \subseteq c.signed) <=> c.plan.ins \subseteq c.signed
      BY DEF Of
    <3> QED
      BY <3>1, <3>2, <3>3 DEF Extractable
  <2> QED
    BY <2>1, <2>2 DEF ExtractionSound
<1> QED
  BY <1>1, PcztStarts, PcztStep, PTL DEF PcztSpec
-----------------------------------------------------------------------------
(***************************************************************************)
(* The RPC server's layers, for any number of configured users and any     *)
(* request.                                                                *)
(***************************************************************************)
\* Every set of numbers up to a bound has a greatest one.
LEMMA Greatest ==
  ASSUME NEW B \in Nat, NEW C \in SUBSET (1..B), C # {}
  PROVE  \E m \in C : \A d \in C : d <= m
<1> DEFINE T == {n \in Nat : B - n \in C}
<1>1. \A c \in C : c \in Nat /\ B - c \in T
  OBVIOUS
<1>2. \A n \in T : n \in Nat /\ B - n \in C
  OBVIOUS
<1>3. T \in SUBSET Nat /\ T # {}
  BY <1>1
<1> HIDE DEF T
<1>4. PICK n \in T : \A x \in T : ~(<<x, n>> \in OpToRel(<, Nat))
  <2>1. IsWellFoundedOn(OpToRel(<, Nat), Nat)
    BY NatLessThanWellFounded, Zenon
  <2> QED
    BY <1>3, <2>1, WFMin, Zenon
<1>5. \A x \in T : <<x, n>> \in OpToRel(<, Nat) <=> x < n
  BY <1>3 DEF OpToRel
<1>6. \A x \in T : ~(x < n)
  BY <1>4, <1>5, Zenon
<1>7. ASSUME NEW d \in C PROVE d <= B - n
  <2>1. d \in Nat /\ n \in Nat /\ B - d \in Nat /\ ~(B - d < n)
    BY <1>1, <1>2, <1>3, <1>6
  <2> HIDE <1>4, <1>5
  <2> QED
    BY <2>1
<1> QED
  BY <1>2, <1>7

\* No configuration is accepted with an empty password: not of an entry, whose secret was checked,
\* and not of the cookie.
LEMMA NoEmptySecret ==
  ASSUME NEW n \in Nat, NEW entries \in [1..n -> Entries]
  PROVE  \A u \in Accepted(entries) : u.password # ""
<1> SUFFICES ASSUME NEW u \in Accepted(entries) PROVE u.password # ""
  OBVIOUS
<1> DEFINE names == {entries[i].user : i \in DOMAIN entries}
           is(m, i) == entries[i].user = m /\ \A j \in DOMAIN entries : entries[j].user = m => j <= i
           last(m) == CHOOSE i \in DOMAIN entries : is(m, i)
<1>1. DOMAIN entries = 1..n
  OBVIOUS
<1>2. CASE u = [user |-> CookieUser, password |-> "right"]
  BY <1>2
<1>3. ASSUME NEW m \in names, u = [user |-> m, password |-> Secret(entries[last(m)])],
             \A i \in DOMAIN entries : EntryValid(entries[i])
      PROVE  u.password # ""
  <2> DEFINE C == {i \in 1..n : entries[i].user = m}
  <2>1. C # {} /\ C \in SUBSET (1..n)
    BY <1>1
  <2>2. PICK i \in C : \A d \in C : d <= i
    <3> HIDE DEF C
    <3> QED
      BY <2>1, Greatest
  <2>3. i \in DOMAIN entries /\ is(m, i)
    BY <1>1, <2>2
  <2>4. last(m) \in DOMAIN entries
    <3> HIDE DEF is
    <3> QED
      BY <2>3, Zenon
  <2> HIDE DEF last
  <2>5. EntryValid(entries[last(m)])
    BY <1>3, <2>4
  <2> QED
    BY <1>3, <2>5 DEF EntryValid, Secret, Nothing
<1> QED
  BY <1>2, <1>3 DEF Accepted

\* The dialects that the translation tells apart from JSON-RPC 2.0.
OldDialects == {"Bitcoind", "Lightwalletd"}

\* A request whose dialect was not told is one the framework refuses, or a batch.
Untold(b) == b.kind \in {"batch", "garbage"} \/ b.jsonrpc # "2.0" \/ b.id = "list"

\* The inductive invariant.
FrontInv ==
  /\ \A u \in users : u.password # ""
  /\ request = [header |-> request.header, type |-> request.type, body |-> request.body]
  /\ reached \/ at \in {"authorized", "translated"} => request.header \in users
  /\ at = "translated" /\ dialect \notin OldDialects \cup {"TwoPointZero"} => Untold(request.body)
  /\ AnsweredInDialect

\* It holds of every request under every configuration accepted.
LEMMA FrontStarts == FrontInit => FrontInv
<1> SUFFICES ASSUME FrontInit PROVE FrontInv
  OBVIOUS
<1>1. \A u \in users : u.password # ""
  <2>1. PICK n \in 0..MaxUsers : \E entries \in [1..n -> Entries] : users = Accepted(entries)
    BY Zenon DEF FrontInit
  <2>2. n \in Nat
    OBVIOUS
  <2> QED
    BY <2>1, <2>2, NoEmptySecret
<1>2. request = [header |-> request.header, type |-> request.type, body |-> request.body]
  BY DEF FrontInit
<1> QED
  BY <1>1, <1>2 DEF FrontInit, FrontInv, AnsweredInDialect

\* An answer without a JSON body keeps it.
LEMMA PlainKeeps ==
  ASSUME FrontInv, NEW status, Plain(status), UNCHANGED <<users, request, dialect, reached>>
  PROVE  FrontInv'
<1>1. at' = "answered" /\ answer'.body.kind = "empty"
  BY DEF Plain, Respond, AnswerWith
<1> QED
  BY <1>1 DEF FrontInv, AnsweredInDialect

\* The authorization layer keeps it: what it lets through has a known user's header.
LEMMA AuthorizeKeeps == ASSUME FrontInv, Authorize PROVE FrontInv'
<1>1. CASE request.header \in users
  BY <1>1 DEF Authorize, FrontInv, AnsweredInDialect
<1>2. CASE request.header \notin users
  BY <1>2, PlainKeeps DEF Authorize
<1> QED
  BY <1>1, <1>2

\* The dialect layer keeps it.
LEMMA TranslateKeeps == ASSUME FrontInv, Translate PROVE FrontInv'
<1>1. at = "authorized" /\ UNCHANGED <<users, reached>> /\ request.header \in users
  BY DEF Translate, FrontInv
<1>2. CASE \E status : Plain(status) /\ UNCHANGED <<request, dialect>>
  BY <1>1, <1>2, PlainKeeps
<1>3. CASE /\ dialect' = IF request.body.kind \in {"batch", "garbage"} THEN "Unknown" ELSE Version(request.body)
           /\ request'.header = request.header
           /\ request' = [header |-> request'.header, type |-> request'.type, body |-> request'.body]
           /\ dialect' = "Unknown" => request'.body = request.body
           /\ at' = "translated"
  <2>1. dialect' \in OldDialects \cup {"TwoPointZero"} \/ Untold(request'.body)
    BY <1>3 DEF Version, Untold, OldDialects
  <2> QED
    BY <1>1, <1>3, <2>1 DEF FrontInv, AnsweredInDialect
<1>4. request = [header |-> request.header, type |-> request.type, body |-> request.body]
  BY DEF FrontInv
<1> QED
  BY <1>2, <1>3, <1>4 DEF Translate

\* What the framework's answer is, before it is translated back.
FrameworkSays(r) ==
  /\ r = [kind |-> "object", jsonrpc |-> "2.0", result |-> r.result, error |-> r.error]
  /\ r.error # "null" /\ r.result # "null"
  /\ r.error # Nothing => r.result = Nothing

\* What the framework answers has the fields of JSON-RPC 2.0, one of them filled.
LEMMA FrameworkAnswers ==
  ASSUME NEW outcome \in Outcomes, Framework(outcome).kind = "object"
  PROVE  /\ FrameworkSays(Framework(outcome))
         /\ Untold(request.body) => Framework(outcome).error # Nothing
<1> DEFINE failed(code) == [AnswerWith("object") EXCEPT !.error = code]
<1>1. ASSUME NEW code \in {"parse", "request", "method", "params:missing", "legacy", "internal"}
      PROVE  FrameworkSays(failed(code)) /\ failed(code).error # Nothing
  BY DEF FrameworkSays, AnswerWith, Nothing
<1>2. outcome \in {"value", "null"} \/ FixedCode(outcome) \in {"params:missing", "legacy", "internal"}
  BY DEF Outcomes, FixedCode
<1>3. FrameworkSays([AnswerWith("object") EXCEPT !.result = "value"]) /\ FrameworkSays(AnswerWith("object"))
  BY DEF FrameworkSays, AnswerWith, Nothing
<1>4. AnswerWith("unsupported").kind # "object" /\ AnswerWith("batch").kind # "object" /\ AnswerWith("empty").kind # "object"
  BY DEF AnswerWith
<1>5. CASE request.type # "application/json" \/ request.body.kind = "batch"
  BY <1>4, <1>5 DEF Framework
<1>6. CASE request.type = "application/json" /\ request.body.kind = "garbage"
  BY <1>1, <1>6 DEF Framework
<1>7. CASE /\ request.type = "application/json" /\ request.body.kind \notin {"batch", "garbage"}
           /\ request.body.jsonrpc # "2.0" \/ request.body.id = "list"
  BY <1>1, <1>7 DEF Framework
<1>8. CASE /\ request.type = "application/json" /\ ~Untold(request.body)
  <2>1. request.body.id # Nothing
    BY <1>4, <1>8 DEF Framework, Untold
  <2> HIDE DEF failed
  <2> QED
    BY <1>1, <1>2, <1>3, <1>8, <2>1 DEF Framework, Untold, failed
<1> QED
  BY <1>5, <1>6, <1>7, <1>8 DEF Untold

\* The call and the translation of its answer keep it.
LEMMA CallKeeps == ASSUME FrontInv, CallAndAnswer PROVE FrontInv'
<1>1. at = "translated" /\ UNCHANGED <<users, request, dialect>> /\ at' = "answered" /\ request.header \in users
  BY DEF CallAndAnswer, Respond, FrontInv
<1>2. PICK outcome \in Outcomes :
        IF Framework(outcome).kind = "object"
        THEN Respond(StatusOf(Framework(outcome)), IntoVersion(Framework(outcome)))
        ELSE Respond(IF Framework(outcome).kind = "unsupported" THEN 415 ELSE 200, Framework(outcome))
  BY DEF CallAndAnswer
<1>3. AnsweredInDialect'
  <2>1. CASE Framework(outcome).kind # "object"
    BY <1>2, <2>1 DEF Respond, AnsweredInDialect
  <2>2. CASE Framework(outcome).kind = "object"
    <3>1. PICK r : r = Framework(outcome)
      OBVIOUS
    <3>2. FrameworkSays(r) /\ (Untold(request.body) => r.error # Nothing)
      BY <2>2, <3>1, FrameworkAnswers
    <3>3. answer' = [status |-> StatusOf(r), body |-> IntoVersion(r)] /\ dialect' = dialect
      BY <1>1, <1>2, <2>2, <3>1 DEF Respond
    <3>4. ASSUME NEW v, (dialect = "Bitcoind" /\ v = Nothing) \/ (dialect = "Lightwalletd" /\ v = "1.0")
        PROVE  AnsweredInDialect'
      <4>1. /\ IntoVersion(r).jsonrpc = v
            /\ IntoVersion(r).result = Filled(r.result) /\ IntoVersion(r).error = Filled(r.error)
        <5>1. IntoVersion(r) = [r EXCEPT !.jsonrpc = v, !.result = Filled(@), !.error = Filled(@)]
          <6>1. CASE dialect = "Bitcoind"
            BY <3>4, <6>1 DEF IntoVersion
          <6>2. CASE dialect = "Lightwalletd"
            BY <3>4, <6>2 DEF IntoVersion
          <6> QED
            BY <3>4, <6>1, <6>2
        <5>2. DOMAIN r = {"kind", "jsonrpc", "result", "error"}
          BY <3>2 DEF FrameworkSays
        <5> QED
          BY <5>1, <5>2
      <4>2. /\ Filled(r.result) # Nothing /\ Filled(r.error) # Nothing
            /\ Filled(r.error) = "null" <=> r.error = Nothing
            /\ r.error # Nothing => Filled(r.result) = "null"
        BY <3>2 DEF FrameworkSays, Filled, Nothing
      <4>3. r.error = Nothing <=> StatusOf(r) = 200
        <5>1. CASE r.error = Nothing
          <6>1. r.error # "request" /\ r.error # "method"
            BY <5>1 DEF Nothing
          <6> QED
            BY <5>1, <6>1 DEF StatusOf
        <5>2. CASE r.error = "request"
          BY <3>4, <5>2 DEF StatusOf, Nothing
        <5>3. CASE r.error = "method"
          BY <3>4, <5>3 DEF StatusOf, Nothing
        <5>4. CASE r.error \notin {Nothing, "request", "method"}
          BY <3>4, <5>4 DEF StatusOf
        <5> QED
          BY <5>1, <5>2, <5>3, <5>4
      <4> QED
        BY <3>3, <3>4, <4>1, <4>2, <4>3 DEF AnsweredInDialect
    <3>5. CASE dialect \notin OldDialects
      <4>1. IntoVersion(r).jsonrpc = "2.0" /\ IntoVersion(r).error = r.error
        BY <3>2, <3>5 DEF IntoVersion, FrameworkSays, OldDialects
      <4>2. r.error = Nothing => IntoVersion(r).result # Nothing
        <5>1. r.error = Nothing => dialect = "TwoPointZero"
          BY <1>1, <3>2, <3>5 DEF FrontInv
        <5> QED
          BY <3>2, <5>1 DEF IntoVersion, FrameworkSays, Filled, Nothing
      <4>3. r.error # Nothing => IntoVersion(r).result = Nothing
        BY <3>2, <3>5 DEF IntoVersion, FrameworkSays, OldDialects
      <4>4. (IntoVersion(r).result = Nothing) # (IntoVersion(r).error = Nothing)
        BY <4>1, <4>2, <4>3
      <4> QED
        BY <3>3, <3>5, <4>1, <4>4 DEF AnsweredInDialect, OldDialects
    <3> QED
      BY <3>4, <3>5 DEF OldDialects
  <2> QED
    BY <2>1, <2>2
<1> QED
  BY <1>1, <1>3 DEF FrontInv

\* It is inductive.
LEMMA FrontStep == FrontInv /\ [FrontNext]_frontVars => FrontInv'
<1> SUFFICES ASSUME FrontInv, [FrontNext]_frontVars PROVE FrontInv'
  OBVIOUS
<1>1. CASE UNCHANGED frontVars
  BY <1>1 DEF frontVars, FrontInv, AnsweredInDialect
<1>2. CASE Expire
  BY <1>2 DEF Expire, FrontInv, AnsweredInDialect
<1> QED
  BY <1>1, <1>2, AuthorizeKeeps, TranslateKeeps, CallKeeps DEF FrontNext

\* For any number of configured users, no request without a password is ever
\* dispatched, and each is answered in its own dialect: one of result and error, and a
\* status that agrees.
THEOREM TheFrontHolds == FrontSpec => []FrontHolds
<1>1. FrontInv => FrontHolds
  BY DEF FrontInv, FrontHolds, EmptyNeverAuthorized
<1> QED
  BY <1>1, FrontStarts, FrontStep, PTL DEF FrontSpec
=============================================================================
