----------------------------- MODULE Guardrails -----------------------------
(***************************************************************************)
(* One evaluation by the guardrails engine (guardrails/engine.py:118-278): *)
(* the risk score (risk.py), the policy rules that match (policy.py), the  *)
(* ladder cap (tiers.py), the approval gate (approval.py) and the kill     *)
(* switch.  Waiting for approvals takes long: operators trip and release   *)
(* the switch meanwhile, and its read may fail.  Evaluations share nothing *)
(* but the append-only audit file, so one of them is enough.               *)
(*                                                                         *)
(* Names, verbs and targets are compared, never built: they are members of *)
(* sets.  The penalties and ceilings are the numbers of the source.        *)
(***************************************************************************)
EXTENDS Integers, FiniteSets, FiniteSetsExt

CONSTANTS
  Action,     \* proposed actions (records, see ActionType)
  Extra,      \* sums of the deltas in context["extra_risk"]
  EnvRisk,    \* the table ENV_RISK
  CatRisk,    \* the table SENSITIVE_CATEGORIES
  Rule,       \* rules a policy file may hold
  Operator    \* who may approve

Tier == 0 .. 3
SUGGEST == 0
DRAFT == 1
PROPOSE == 2
EXECUTE == 3

Ladder == [t \in Tier |-> CASE t = SUGGEST -> [maxRisk |-> 100, approvals |-> 0]
                            [] t = DRAFT   -> [maxRisk |-> 80, approvals |-> 1]
                            [] t = PROPOSE -> [maxRisk |-> 60, approvals |-> 1]
                            [] t = EXECUTE -> [maxRisk |-> 40, approvals |-> 2]]

ASSUME EnvAssumption ==
  /\ "prod" \in DOMAIN EnvRisk /\ \A e \in DOMAIN EnvRisk : EnvRisk[e] \in Nat
  /\ \A c \in DOMAIN CatRisk : CatRisk[c] \in Nat
ASSUME ActionAssumption ==
  \A a \in Action : a.destructive \in BOOLEAN /\ a.reversible \in BOOLEAN
                    /\ a.blast \in Nat
ASSUME ExtraAssumption == Extra \subseteq Int
ASSUME RuleAssumption ==
  IsFiniteSet(Rule) /\ \A r \in Rule :
    r.cap \in Tier /\ r.approvals \in Nat /\ r.deny \in BOOLEAN /\ r.add \in Int

VARIABLES
  policy,    \* the rules of the loaded file
  job,       \* the request evaluated, NoJob before
  stage,     \* where evaluate is
  approvers, \* what the gate returned
  verdict,   \* the GuardrailDecision
  tripped,   \* the kill switch
  readable   \* the switch's backend answers

guardrailsVars == <<policy, job, stage, approvers, verdict, tripped, readable>>

NoJob == [none |-> TRUE]
Evaluation == [action : Action, extra : Extra, hours : BOOLEAN, tier : Tier,
        gate : BOOLEAN]    \* gate: an approval gate was passed to the call

NoVerdict == [outcome |-> "none", tier |-> SUGGEST, approved |-> FALSE]
Outcome == {"denied", "approval_denied", "killswitch_downgrade", "approved"}

GuardrailsTypeOK ==
  /\ policy \in SUBSET Rule
  /\ job \in Evaluation \union {NoJob}
  /\ stage \in {"idle", "approve", "switch", "done"}
  /\ approvers \in [Operator -> Nat]
  /\ verdict \in {NoVerdict} \union
       [outcome : Outcome, tier : Tier, approved : BOOLEAN]
  /\ tripped \in BOOLEAN /\ readable \in BOOLEAN

NoApprovers == [o \in Operator |-> 0]

GuardrailsInit ==
  /\ policy \in SUBSET Rule
  /\ job = NoJob /\ stage = "idle"
  /\ approvers = NoApprovers
  /\ verdict = NoVerdict
  /\ tripped \in BOOLEAN /\ readable = TRUE

-----------------------------------------------------------------------------
(* RiskAssessment.assess.                                                  *)
Clamp(n) == IF n < 0 THEN 0 ELSE IF n > 100 THEN 100 ELSE n

BlastPenalty(n) ==
  CASE n =< 1 -> 0 [] n \in 2 .. 5 -> 5 [] n \in 6 .. 20 -> 10
    [] n \in 21 .. 100 -> 15 [] n \in 101 .. 500 -> 20 [] n > 500 -> 25

RiskScore(a, extra) ==
  Clamp((IF a.env \in DOMAIN EnvRisk THEN EnvRisk[a.env] ELSE EnvRisk["prod"])
        + (IF a.category \in DOMAIN CatRisk THEN CatRisk[a.category] ELSE 0)
        + (IF a.destructive THEN 25 ELSE 0)
        + BlastPenalty(a.blast)
        + (IF a.reversible THEN 0 ELSE 10)
        + extra)

(* Faulty variants of definitions below, which the properties must reject: *)
(* the rule that asks for the fewest approvals wins, a rule's risk takes   *)
(* the place of the score, an approval overrides the switch, an approval   *)
(* that leaves the outcome open.                                           *)
FaultyPolicyApprovals(R) == IF R = {} THEN 0 ELSE Min({r.approvals : r \in R})

FaultyRisk(j) ==
  LET added == MapThenSumSet(LAMBDA r : r.add, policy)
  IN IF added = 0 THEN RiskScore(j.action, j.extra) ELSE Clamp(added)

FaultyCheckSwitch ==
  /\ stage = "switch" /\ stage' = "done"
  /\ verdict' = [outcome |-> "approved", tier |-> job.tier, approved |-> TRUE]
  /\ UNCHANGED <<policy, job, approvers, tripped, readable>>

OpenApprove ==
  /\ stage = "approve" /\ stage' = "done"
  /\ verdict' = [outcome |-> "pending", tier |-> SUGGEST, approved |-> FALSE]
  /\ UNCHANGED <<policy, job, approvers, tripped, readable>>

(* tier_cap_for_risk: the highest tier whose ceiling admits the score.     *)
TierCap(score) ==
  CHOOSE t \in Tier :
    /\ score =< Ladder[t].maxRisk
    /\ \A u \in Tier : score =< Ladder[u].maxRisk => u =< t

-----------------------------------------------------------------------------
(* _match: every key of the block holds; any needs one of its sub-blocks.  *)
Holds(m, a, hours) ==
  /\ a.env \in m.env /\ a.category \in m.category
  /\ a.destructive \in m.destructive /\ a.reversible \in m.reversible
  /\ hours \in m.hours /\ a.blast >= m.blast

Applies(r, a, hours) ==
  /\ Holds(r.match, a, hours)
  /\ r.any # {} => \E m \in r.any : Holds(m, a, hours)

Matched(j) == {r \in policy : Applies(r, j.action, j.hours)}

(* GuardrailsPolicy.evaluate: lowest cap, most approvals, any deny, sum.   *)
PolicyCap(R) == Min({EXECUTE} \union {r.cap : r \in R})
PolicyApprovals(R) == Max({0} \union {r.approvals : r \in R})
Denied(R) == \E r \in R : r.deny
AddedRisk(R) == MapThenSumSet(LAMBDA r : r.add, R)

Risk(j) == Clamp(RiskScore(j.action, j.extra) + AddedRisk(Matched(j)))

(* The tier after the request, the ladder and the policy had their say.    *)
Effective(j) == Min({j.tier, TierCap(Risk(j)), PolicyCap(Matched(j))})

Required(j) == Max({Ladder[Effective(j)].approvals, PolicyApprovals(Matched(j))})

-----------------------------------------------------------------------------
Conclude(outcome, tier, approved) ==
  /\ verdict' = [outcome |-> outcome, tier |-> tier, approved |-> approved]
  /\ stage' = "done"

(* Steps 1-4 of evaluate: risk, policy, cap, deny.                         *)
Submit(j) ==
  /\ stage = "idle"
  /\ job' = j
  /\ IF Denied(Matched(j)) THEN Conclude("denied", SUGGEST, FALSE)
     ELSE /\ stage' = IF Required(j) > 0 THEN "approve" ELSE "switch"
          /\ UNCHANGED verdict
  /\ UNCHANGED <<policy, approvers, tripped, readable>>

(* Step 5: the gate returns who approved, at most as many as it asked for. *)
(* Nothing makes them different people.  A SUGGEST without a gate of its   *)
(* own gets NoneApprovalGate, which collects nobody.                       *)
Collected(got) == MapThenSumSet(LAMBDA o : got[o], Operator)
Approve ==
  LET need == Required(job)
      ungated == Effective(job) = SUGGEST /\ ~job.gate
  IN /\ stage = "approve"
     /\ approvers' \in [Operator -> 0 .. IF ungated THEN 0 ELSE need]
     /\ Collected(approvers') =< need
     /\ IF Collected(approvers') = need THEN stage' = "switch" /\ UNCHANGED verdict
        ELSE Conclude("approval_denied", SUGGEST, FALSE)
     /\ UNCHANGED <<policy, job, tripped, readable>>

(* Steps 6 and 7: only EXECUTE reads the switch; an unreadable switch      *)
(* counts as clear (engine.py:45-56).                                      *)
CheckSwitch ==
  /\ stage = "switch"
  /\ IF Effective(job) = EXECUTE /\ tripped /\ readable
     THEN Conclude("killswitch_downgrade", SUGGEST, FALSE)
     ELSE Conclude("approved", Effective(job), TRUE)
  /\ UNCHANGED <<policy, job, approvers, tripped, readable>>

(* Operators and the switch's backend, while the evaluation runs.          *)
BackendChanges ==
  /\ stage # "done"
  /\ \/ tripped' = ~tripped /\ UNCHANGED readable
     \/ readable' = ~readable /\ UNCHANGED tripped
  /\ UNCHANGED <<policy, job, stage, approvers, verdict>>

GuardrailsNext == \/ \E j \in Evaluation : Submit(j)
        \/ Approve \/ CheckSwitch \/ BackendChanges

GuardrailsSpec == GuardrailsInit /\ [][GuardrailsNext]_guardrailsVars

-----------------------------------------------------------------------------
Approvals == Collected(approvers)

(* An approved EXECUTE was earned: it was asked for, no matching rule      *)
(* denies it or caps it lower, and the approvals reach the ladder's two    *)
(* and every matching rule's number (engine.py:118-278).                   *)
ExecuteEarned ==
  (verdict.approved /\ verdict.tier = EXECUTE) =>
    /\ job.tier = EXECUTE
    /\ \A r \in Matched(job) : ~r.deny /\ r.cap = EXECUTE
                                 /\ Approvals >= r.approvals
    /\ Approvals >= 2
    /\ Risk(job) =< 40

(* Rules that do not take risk away on the whole never loosen the ladder:  *)
(* the tier fits the risk of the action itself, whatever else they say     *)
(* (engine.py:118-278, tiers.py:128-159).                                  *)
PolicyNeverLoosens ==
  stage = "done" /\ AddedRisk(Matched(job)) >= 0
    => verdict.tier =< TierCap(RiskScore(job.action, job.extra))

(* What an evaluation answers was earned, and only a policy that takes     *)
(* risk away loosens the ladder (engine.py:118-278 with tiers.py:128-159). *)
DecisionEarned == GuardrailsTypeOK /\ ExecuteEarned /\ PolicyNeverLoosens

(* The switch is read after the approvals came in: an EXECUTE is never     *)
(* approved while the switch reads tripped, whenever it was tripped.       *)
SwitchReadLast ==
  [][(verdict # verdict' /\ verdict'.approved /\ verdict'.tier = EXECUTE)
       => ~(tripped /\ readable)]_guardrailsVars

-----------------------------------------------------------------------------
(* tier_cap_for_risk (tiers.py:146-147): "Policies may tighten it further, *)
(* never loosen it".  Not so for a rule with a negative add_risk, which    *)
(* policy.py:136 takes.                                                    *)
OnlyTightens == stage = "done" => verdict.tier =< TierCap(RiskScore(job.action, job.extra))

(* TIER_METADATA (tiers.py:90): "SUGGEST - always safe, no approval ever". *)
SuggestNeedsNoApproval ==
  (stage = "done" /\ job.tier = SUGGEST) => verdict.outcome # "approval_denied"
=============================================================================
