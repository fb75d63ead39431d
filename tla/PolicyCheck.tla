---------------------------- MODULE PolicyCheck ----------------------------
(***************************************************************************)
(* The two readings of what a proposal reveals (json_rpc/payments.rs):     *)
(* enforce_privacy_policy walks the proposal's steps and refuses at the    *)
(* first that the caller's policy does not permit; required_privacy_policy *)
(* walks them too and reports the policy they need together.               *)
(* One behaviour is one proposal and one caller's policy; the two loops    *)
(* are independent, and their steps interleave.                            *)
(***************************************************************************)
EXTENDS PrivacyPolicy, Sequences

CONSTANTS Proposals     \* the proposals considered: sequences of steps

ASSUME ProposalsAssumption == \A p \in Proposals : p \in Seq(Step)

VARIABLES
  given, steps,     \* the arguments
  next, verdict,        \* enforce_privacy_policy: loop index, result
  folded, required      \* required_privacy_policy: loop index, accumulator

checkVars == <<given, steps, next, verdict, folded, required>>

CheckInit ==
  /\ given \in Policies
  /\ steps \in Proposals
  /\ next = 1 /\ verdict = "Checking"
  /\ folded = 1 /\ required = "FullPrivacy"

\* enforce_privacy_policy: one turn of its loop, or Ok(()) after the last.
Enforce ==
  /\ verdict = "Checking"
  /\ \/ /\ next > Len(steps)
        /\ verdict' = "Ok"
        /\ UNCHANGED next
     \/ /\ next <= Len(steps)
        /\ IsCompatibleWith(given, StepRequirement(steps[next]))
        /\ next' = next + 1
        /\ UNCHANGED verdict
     \/ /\ next <= Len(steps)
        /\ ~IsCompatibleWith(given, StepRequirement(steps[next]))
        /\ verdict' = "Err"
        /\ UNCHANGED next
  /\ UNCHANGED <<given, steps, folded, required>>

\* required_privacy_policy that keeps the last requirement.
RequireLast ==
  /\ folded <= Len(steps)
  /\ required' = StepRequirement(steps[folded])
  /\ folded' = folded + 1
  /\ UNCHANGED <<given, steps, next, verdict>>

\* required_privacy_policy: one turn of its fold.
Require ==
  /\ folded <= Len(steps)
  /\ required' = Meet(required, StepRequirement(steps[folded]))
  /\ folded' = folded + 1
  /\ UNCHANGED <<given, steps, next, verdict>>

CheckNext == Enforce \/ Require

CheckSpec == CheckInit /\ [][CheckNext]_checkVars

-----------------------------------------------------------------------------
\* Both loops stay within the proposal and yield a policy and a verdict.
CheckTypeOK ==
  /\ given \in Policies
  /\ steps \in Seq(Step)
  /\ next \in 1..Len(steps) + 1
  /\ verdict \in {"Checking", "Ok", "Err"}
  /\ folded \in 1..Len(steps) + 1
  /\ required \in Policies

Reported == folded = Len(steps) + 1

\* enforce_privacy_policy succeeds exactly when the caller's policy is
\* compatible with the policy required_privacy_policy reports: what
\* pczt_create tells its caller to acknowledge is what a send accepts.
CheckMatchesReport ==
  verdict # "Checking" /\ Reported
    => (verdict = "Ok" <=> IsCompatibleWith(given, required))

\* The report is the strictest policy that permits the proposal:
\* required_privacy_policy allows exactly what the steps reveal together, or
\* no policy of the lattice allows just that.
ReportIsStrictest ==
  Reported =>
    LET revealed == UNION {Reveals(steps[i]) : i \in 1..Len(steps)}
    IN  /\ revealed \subseteq Allows(required)
        /\ \A p \in Policies :
             revealed \subseteq Allows(p) => Allows(required) \subseteq Allows(p)

\* A proposal that enforce_privacy_policy lets through reveals nothing its
\* caller's policy does not allow, in any of its steps.
NoUndeclaredLeak ==
  verdict = "Ok" =>
    \A i \in 1..Len(steps) : Reveals(steps[i]) \subseteq Allows(given)

\* A send accepts exactly what the report says, the report asks for no more
\* than it must, and nothing accepted is revealed against the caller's policy.
PolicyCorrect == CheckMatchesReport /\ ReportIsStrictest /\ NoUndeclaredLeak
=============================================================================
