------------------------------ MODULE GuardProofs ----------------------------
(* Proofs about what stands between the models and the world: the          *)
(* guardrails' evaluation, the LLM router, the redacting proxy with its    *)
(* detector and the honey tokens with their scanner; for any policies,     *)
(* prompts, requests, texts, markers and threads.                          *)
EXTENDS Guardrails, Router, PIIProxy, Scans, AnalysisProofs

(* The risk added by the rules that apply.                                 *)
LEMMA AddedRiskSums ==
  ASSUME NEW R, IsFiniteSet(R), \A r \in R : r.add \in Int
  PROVE  /\ AddedRisk(R) \in Int
         /\ (\A r \in R : r.add \in Nat) => AddedRisk(R) \in Nat
<1> DEFINE f == [r \in R |-> r.add]
           It(g) == g = [s \in SUBSET R |-> IF s = {} THEN 0
                                 ELSE Pick(s).add + g[s \ {Pick(s)}]]
           h == CHOOSE g : It(g)
<1>1. AddedRisk(R) = h[R]
  BY DEF AddedRisk, MapThenSumSet, MapThenFoldSet, Pick
<1>2. \A g : g \in [SUBSET R -> Int] => (It(g) <=> Sums(g, f, R))
  <2> SUFFICES ASSUME NEW g \in [SUBSET R -> Int] PROVE It(g) <=> Sums(g, f, R)
    OBVIOUS
  <2>1. \A s \in SUBSET R : s # {} => Pick(s) \in R /\ f[Pick(s)] = Pick(s).add
    BY PickIn
  <2> HIDE DEF f
  <2> QED
    BY <2>1 DEF Sums
<1>3. \E g : Sums(g, f, R)
  BY SumsExist
<1>4. PICK g : It(g) /\ Sums(g, f, R)
  BY <1>2, <1>3 DEF Sums
<1>5. It(h)
  BY <1>4
<1>6. \A s \in SUBSET R : h[s] = g[s]
  <2> DEFINE T == {s \in SUBSET R : h[s] # g[s]}
  <2> SUFFICES ASSUME T # {} PROVE FALSE
    OBVIOUS
  <2>0. T \subseteq SUBSET R
    OBVIOUS
  <2> HIDE DEF T, h
  <2>1. PICK s \in T : \A u \in T : u \subseteq s => u = s
    BY <2>0, LeastSubset
  <2> USE DEF T
  <2>2. s # {} /\ s \in SUBSET R
    <3>1. {} \in SUBSET R /\ s \in SUBSET R
      BY <2>1
    <3>2. g[{}] = 0 /\ h[{}] = 0
      BY <1>4, <1>5, <3>1
    <3> QED
      BY <2>1, <3>1, <3>2
  <2>3. s \ {Pick(s)} \in SUBSET R /\ s \ {Pick(s)} # s /\ s \ {Pick(s)} \subseteq s
    BY <2>2, PickIn
  <2>4. g[s \ {Pick(s)}] = h[s \ {Pick(s)}]
    BY <2>1, <2>3
  <2> QED
    BY <1>4, <1>5, <2>1, <2>2, <2>4
<1> HIDE DEF h, f
<1>7. g[R] \in Int
  BY <1>4 DEF Sums
<1>8. (\A r \in R : f[r] \in Nat) => g[R] \in Nat
  BY <1>4, SumsNat
<1> QED
  BY <1>1, <1>6, <1>7, <1>8 DEF f
-----------------------------------------------------------------------------
(* The ladder: tiers are the numbers 0 to 3, each with its ceiling.        *)
LEMMA LeastTier ==
  ASSUME NEW S, S \subseteq Tier, S # {}
  PROVE  Min(S) \in S /\ \A t \in S : Min(S) =< t
<1>1. \E m \in S : \A t \in S : m =< t
  <2>1. CASE 0 \in S
    BY <2>1 DEF Tier
  <2>2. CASE 0 \notin S /\ 1 \in S
    BY <2>2 DEF Tier
  <2>3. CASE 0 \notin S /\ 1 \notin S /\ 2 \in S
    BY <2>3 DEF Tier
  <2>4. CASE 0 \notin S /\ 1 \notin S /\ 2 \notin S
    <3>1. \A t \in S : t = 3
      BY <2>4 DEF Tier
    <3> QED
      BY <3>1
  <2> QED
    BY <2>1, <2>2, <2>3, <2>4
<1> QED
  BY <1>1 DEF Min

LEMMA MostApprovals ==
  ASSUME NEW R, IsFiniteSet(R), \A r \in R : r.approvals \in Nat
  PROVE  /\ PolicyApprovals(R) \in Nat
         /\ \A r \in R : r.approvals =< PolicyApprovals(R)
<1> DEFINE B(s) == {0} \union {r.approvals : r \in s}
           Top(s) == \E m \in B(s) : \A k \in B(s) : m >= k
           T == {s \in SUBSET R : ~Top(s)}
<1>1. T = {}
  <2> SUFFICES ASSUME T # {} PROVE FALSE
    OBVIOUS
  <2>0. T \subseteq SUBSET R
    OBVIOUS
  <2> HIDE DEF T
  <2>1. PICK s \in T : \A u \in T : u \subseteq s => u = s
    BY <2>0, LeastSubset
  <2> USE DEF T
  <2>2. s \in SUBSET R /\ ~Top(s)
    BY <2>1
  <2>3. s # {}
    BY <2>2
  <2>4. PICK x \in s : TRUE
    BY <2>3
  <2>5. s \ {x} \in SUBSET R /\ s \ {x} \subseteq s /\ s \ {x} # s /\ x \in R
    BY <2>2, <2>4
  <2>6. Top(s \ {x})
    BY <2>1, <2>5
  <2>7. PICK m \in B(s \ {x}) : \A k \in B(s \ {x}) : m >= k
    BY <2>6
  <2>8. /\ B(s) = B(s \ {x}) \union {x.approvals}
        /\ m \in Nat /\ x.approvals \in Nat
        /\ \A k \in B(s \ {x}) : k \in Nat
    BY <2>2, <2>4, <2>5
  <2> HIDE DEF B
  <2>9. Top(s)
    <3>1. CASE m >= x.approvals
      BY <2>7, <2>8, <3>1
    <3>2. CASE ~(m >= x.approvals)
      <4>1. \A k \in B(s) : x.approvals >= k
        <5> SUFFICES ASSUME NEW k \in B(s) PROVE x.approvals >= k
          OBVIOUS
        <5>1. k = x.approvals \/ (m >= k /\ k \in Nat)
          BY <2>7, <2>8
        <5> QED
          BY <2>8, <3>2, <5>1
      <4> QED
        BY <2>8, <4>1
    <3> QED
      BY <3>1, <3>2
  <2> QED
    BY <2>2, <2>9
<1>2. Top(R)
  BY <1>1
<1>3. PolicyApprovals(R) \in B(R) /\ \A k \in B(R) : PolicyApprovals(R) >= k
  BY <1>2 DEF PolicyApprovals, Max
<1>4. \A k \in B(R) : k \in Nat
  OBVIOUS
<1>5. \A r \in R : r.approvals \in B(R)
  OBVIOUS
<1> HIDE DEF B
<1> QED
  BY <1>3, <1>4, <1>5

LEMMA CapOfScore ==
  ASSUME NEW s \in 0..100
  PROVE  /\ TierCap(s) \in Tier
         /\ s =< Ladder[TierCap(s)].maxRisk
         /\ \A u \in Tier : s =< Ladder[u].maxRisk => u =< TierCap(s)
<1>1. /\ Ladder[0].maxRisk = 100 /\ Ladder[1].maxRisk = 80
      /\ Ladder[2].maxRisk = 60 /\ Ladder[3].maxRisk = 40
  BY DEF Ladder, Tier, SUGGEST, DRAFT, PROPOSE, EXECUTE
<1>2. \E t \in Tier : /\ s =< Ladder[t].maxRisk
                      /\ \A u \in Tier : s =< Ladder[u].maxRisk => u =< t
  <2>1. CASE s =< 40
    BY <1>1, <2>1 DEF Tier
  <2>2. CASE 40 < s /\ s =< 60
    BY <1>1, <2>2 DEF Tier
  <2>3. CASE 60 < s /\ s =< 80
    BY <1>1, <2>3 DEF Tier
  <2>4. CASE 80 < s
    BY <1>1, <2>4 DEF Tier
  <2> QED
    BY <2>1, <2>2, <2>3, <2>4
<1> QED
  BY <1>2 DEF TierCap

(* A riskier score never earns a higher tier.                              *)
LEMMA CapFalls ==
  ASSUME NEW s \in 0..100, NEW r \in 0..100, s =< r
  PROVE  TierCap(r) =< TierCap(s)
<1>1. /\ TierCap(r) \in Tier /\ r =< Ladder[TierCap(r)].maxRisk
      /\ \A u \in Tier : s =< Ladder[u].maxRisk => u =< TierCap(s)
  BY CapOfScore
<1>2. \A t \in Tier : Ladder[t].maxRisk \in {100, 80, 60, 40}
  <2>1. /\ Ladder[0].maxRisk = 100 /\ Ladder[1].maxRisk = 80
        /\ Ladder[2].maxRisk = 60 /\ Ladder[3].maxRisk = 40
    BY DEF Ladder, Tier, SUGGEST, DRAFT, PROPOSE, EXECUTE
  <2> QED
    BY <2>1 DEF Tier
<1> QED
  BY <1>1, <1>2
(* What a rule set and a request lead to.                                  *)
LEMMA RiskOf ==
  ASSUME NEW j \in Evaluation, policy \in SUBSET Rule
  PROVE  /\ RiskScore(j.action, j.extra) \in 0..100 /\ Risk(j) \in 0..100
         /\ AddedRisk(Matched(j)) >= 0 => RiskScore(j.action, j.extra) =< Risk(j)
<1> DEFINE a == j.action
           env == IF a.env \in DOMAIN EnvRisk THEN EnvRisk[a.env] ELSE EnvRisk["prod"]
           cat == IF a.category \in DOMAIN CatRisk THEN CatRisk[a.category] ELSE 0
           score == RiskScore(j.action, j.extra)
           added == AddedRisk(Matched(j))
<1>1. env \in Int /\ cat \in Int
  BY EnvAssumption
<1>2. BlastPenalty(a.blast) \in Int
  <2>1. a.blast \in Nat
    BY ActionAssumption DEF Evaluation
  <2> DEFINE n == a.blast
  <2>2. n =< 1 \/ n \in 2..5 \/ n \in 6..20 \/ n \in 21..100 \/ n \in 101..500 \/ n > 500
    BY <2>1
  <2> HIDE DEF n
  <2>3. BlastPenalty(n) \in Int
    BY <2>1, <2>2 DEF BlastPenalty
  <2> QED
    BY <2>3 DEF n
<1>3. j.extra \in Int
  BY ExtraAssumption DEF Evaluation
<1>4. \A m \in Int : Clamp(m) \in 0..100
  BY DEF Clamp
<1>5. score \in 0..100
  <2> DEFINE dest == IF a.destructive THEN 25 ELSE 0
             rev == IF a.reversible THEN 0 ELSE 10
  <2>1. score = Clamp(env + cat + dest + BlastPenalty(a.blast) + rev + j.extra)
    BY DEF RiskScore
  <2>2. dest \in Int /\ rev \in Int
    OBVIOUS
  <2> HIDE DEF env, cat, dest, rev, a, score
  <2>3. env + cat + dest + BlastPenalty(a.blast) + rev + j.extra \in Int
    BY <1>1, <1>2, <1>3, <2>2
  <2> QED
    BY <1>4, <2>1, <2>3
<1>6. Matched(j) \subseteq Rule /\ IsFiniteSet(Matched(j))
  BY RuleAssumption, FS_Subset DEF Matched
<1>7. added \in Int
  BY <1>6, RuleAssumption, AddedRiskSums
<1>8. Risk(j) = Clamp(score + added)
  BY DEF Risk
<1> HIDE DEF score, added
<1>9. Risk(j) \in 0..100
  BY <1>4, <1>5, <1>7, <1>8
<1>10. added >= 0 => score =< Risk(j)
  BY <1>5, <1>7, <1>8 DEF Clamp
<1> QED
  BY <1>5, <1>9, <1>10 DEF score, added

LEMMA TierOf ==
  ASSUME NEW j \in Evaluation, policy \in SUBSET Rule
  PROVE  /\ Effective(j) \in Tier /\ Effective(j) =< j.tier /\ Effective(j) =< TierCap(Risk(j))
         /\ \A r \in Matched(j) : Effective(j) =< r.cap
         /\ Required(j) \in Nat /\ Required(j) >= Ladder[Effective(j)].approvals
         /\ \A r \in Matched(j) : Required(j) >= r.approvals
<1>1. Matched(j) \subseteq Rule /\ IsFiniteSet(Matched(j))
  BY RuleAssumption, FS_Subset DEF Matched
<1>2. TierCap(Risk(j)) \in Tier
  BY RiskOf, CapOfScore
<1>3. PolicyCap(Matched(j)) \in Tier /\ \A r \in Matched(j) : PolicyCap(Matched(j)) =< r.cap
  <2> DEFINE S == {EXECUTE} \union {r.cap : r \in Matched(j)}
  <2>1. S \subseteq Tier /\ S # {}
    BY <1>1, RuleAssumption DEF EXECUTE, Tier
  <2>2. \A r \in Matched(j) : r.cap \in S
    OBVIOUS
  <2>3. PolicyCap(Matched(j)) = Min(S)
    BY DEF PolicyCap
  <2> HIDE DEF S
  <2> QED
    BY <2>1, <2>2, <2>3, LeastTier
<1>4. /\ Effective(j) \in Tier /\ Effective(j) =< j.tier /\ Effective(j) =< TierCap(Risk(j))
      /\ Effective(j) =< PolicyCap(Matched(j))
  <2> DEFINE S == {j.tier, TierCap(Risk(j)), PolicyCap(Matched(j))}
  <2>1. S \subseteq Tier /\ S # {}
    BY <1>2, <1>3 DEF Evaluation
  <2>2. Effective(j) = Min(S)
    BY DEF Effective
  <2>3. Min(S) \in S /\ \A t \in S : Min(S) =< t
    BY <2>1, LeastTier
  <2> QED
    BY <2>1, <2>2, <2>3
<1>5. \A r \in Matched(j) : Effective(j) =< r.cap
  <2> SUFFICES ASSUME NEW r \in Matched(j) PROVE Effective(j) =< r.cap
    OBVIOUS
  <2>1. r.cap \in Tier
    BY <1>1, RuleAssumption
  <2> QED
    BY <1>3, <1>4, <2>1 DEF Tier
<1>6. Ladder[Effective(j)].approvals \in Nat
  <2>1. \A t \in Tier : Ladder[t].approvals \in {0, 1, 2}
    <3>1. /\ Ladder[0].approvals = 0 /\ Ladder[1].approvals = 1
          /\ Ladder[2].approvals = 1 /\ Ladder[3].approvals = 2
      BY DEF Ladder, Tier, SUGGEST, DRAFT, PROPOSE, EXECUTE
    <3> QED
      BY <3>1 DEF Tier
  <2> QED
    BY <1>4, <2>1
<1>7. /\ PolicyApprovals(Matched(j)) \in Nat
      /\ \A r \in Matched(j) : r.approvals \in Nat /\ r.approvals =< PolicyApprovals(Matched(j))
  BY <1>1, RuleAssumption, MostApprovals
<1>8. /\ Required(j) \in Nat /\ Required(j) >= Ladder[Effective(j)].approvals
      /\ Required(j) >= PolicyApprovals(Matched(j))
  <2> DEFINE p == Ladder[Effective(j)].approvals
             q == PolicyApprovals(Matched(j))
  <2>1. Required(j) = Max({p, q}) /\ p \in Nat /\ q \in Nat
    BY <1>6, <1>7 DEF Required
  <2> HIDE DEF p, q
  <2>2. \E m \in {p, q} : \A k \in {p, q} : m >= k
    BY <2>1
  <2>3. Max({p, q}) \in {p, q} /\ Max({p, q}) >= p /\ Max({p, q}) >= q
    BY <2>2 DEF Max
  <2> QED
    BY <2>1, <2>3 DEF p, q
<1>9. \A r \in Matched(j) : Required(j) >= r.approvals
  BY <1>7, <1>8
<1> QED
  BY <1>4, <1>5, <1>8, <1>9

(* The policy does not change under an evaluation.                         *)
LEMMA Frozen ==
  ASSUME NEW j, policy' = policy
  PROVE  /\ Matched(j)' = Matched(j) /\ Risk(j)' = Risk(j)
         /\ Effective(j)' = Effective(j) /\ Required(j)' = Required(j)
<1>1. Matched(j)' = Matched(j)
  BY DEF Matched
<1>2. Risk(j)' = Risk(j)
  BY <1>1 DEF Risk
<1>3. Effective(j)' = Effective(j)
  BY <1>1, <1>2 DEF Effective
<1> QED
  BY <1>1, <1>2, <1>3 DEF Required

(* What an evaluation has established where it is: nobody is asked for     *)
(* what a rule denies, and whoever was needed has approved when the switch *)
(* is read.                                                                *)
EnoughApproved == Required(job) = 0 \/ Approvals = Required(job)
Underway ==
  /\ stage = "idle" => verdict = NoVerdict
  /\ stage # "idle" => job \in Evaluation
  /\ stage \in {"approve", "switch"} => verdict = NoVerdict /\ ~Denied(Matched(job))
  /\ stage = "switch" => EnoughApproved
  /\ stage = "done" /\ ~verdict.approved => verdict.tier = SUGGEST
  /\ verdict.approved => /\ stage = "done" /\ verdict.tier = Effective(job)
                         /\ ~Denied(Matched(job)) /\ EnoughApproved
GuardrailsInv == GuardrailsTypeOK /\ Underway

LEMMA GuardrailsInitInv == GuardrailsInit => GuardrailsInv
BY DEF GuardrailsInit, GuardrailsInv, GuardrailsTypeOK, Underway, NoVerdict, NoApprovers, SUGGEST, Tier

LEMMA GuardrailsStep ==
  GuardrailsInv /\ [GuardrailsNext]_guardrailsVars =>
    /\ GuardrailsInv'
    /\ (verdict # verdict' /\ verdict'.approved /\ verdict'.tier = EXECUTE) => ~(tripped /\ readable)
<1> SUFFICES ASSUME GuardrailsInv, [GuardrailsNext]_guardrailsVars
             PROVE  /\ GuardrailsInv'
                    /\ (verdict # verdict' /\ verdict'.approved /\ verdict'.tier = EXECUTE)
                         => ~(tripped /\ readable)
  OBVIOUS
<1>0. GuardrailsTypeOK /\ Underway /\ policy \in SUBSET Rule
  BY DEF GuardrailsInv, GuardrailsTypeOK
<1>1. \A how \in Outcome, t \in Tier, yes \in BOOLEAN :
        Conclude(how, t, yes) => /\ stage' = "done" /\ verdict'.tier = t /\ verdict'.approved = yes
                               /\ verdict' \in [outcome : Outcome, tier : Tier, approved : BOOLEAN]
  BY DEF Conclude
<1>2. /\ {"denied", "approval_denied", "killswitch_downgrade", "approved"} = Outcome
      /\ SUGGEST \in Tier /\ TRUE \in BOOLEAN /\ FALSE \in BOOLEAN /\ ~NoVerdict.approved
  BY DEF Outcome, SUGGEST, Tier, NoVerdict
<1>3. ASSUME NEW j \in Evaluation, Submit(j)
      PROVE  GuardrailsInv' /\ ~verdict'.approved
  <2>1. /\ job' = j /\ UNCHANGED <<policy, approvers, tripped, readable>> /\ stage = "idle"
        /\ \/ Denied(Matched(j)) /\ Conclude("denied", SUGGEST, FALSE)
           \/ ~Denied(Matched(j)) /\ verdict' = verdict
              /\ stage' = IF Required(j) > 0 THEN "approve" ELSE "switch"
    BY <1>3 DEF Submit
  <2>2. Matched(j)' = Matched(j) /\ Required(j)' = Required(j) /\ Required(j) \in Nat
    BY <1>0, <2>1, Frozen, TierOf
  <2>3. Matched(job)' = Matched(j) /\ Required(job)' = Required(j)
    BY <2>1, <2>2
  <2>4. CASE Denied(Matched(j)) /\ Conclude("denied", SUGGEST, FALSE)
    BY <1>0, <1>1, <1>2, <2>1, <2>4 DEF GuardrailsInv, GuardrailsTypeOK, Underway
  <2>5. CASE /\ ~Denied(Matched(j)) /\ verdict' = verdict
             /\ stage' = IF Required(j) > 0 THEN "approve" ELSE "switch"
    <3>1. verdict = NoVerdict /\ ~verdict.approved
      BY <1>0, <1>2, <2>1 DEF Underway
    <3>2. ~Denied(Matched(job))'
      BY <2>3, <2>5 DEF Denied
    <3>3. stage' = "switch" => EnoughApproved'
      BY <2>2, <2>3, <2>5 DEF EnoughApproved
    <3> QED
      BY <1>0, <2>1, <2>5, <3>1, <3>2, <3>3 DEF GuardrailsInv, GuardrailsTypeOK, Underway
  <2> QED
    BY <2>1, <2>4, <2>5
<1>4. ASSUME UNCHANGED <<policy, job>>, stage # "idle"
      PROVE  /\ job \in Evaluation /\ job' \in Evaluation
             /\ Matched(job)' = Matched(job) /\ Required(job)' = Required(job)
             /\ Effective(job)' = Effective(job) /\ (Denied(Matched(job))' <=> Denied(Matched(job)))
             /\ Effective(job) \in Tier /\ Required(job) \in Nat
  <2>1. PICK j \in Evaluation : j = job /\ j = job'
    BY <1>0, <1>4 DEF Underway
  <2>2. /\ Matched(j)' = Matched(j) /\ Required(j)' = Required(j) /\ Effective(j)' = Effective(j)
        /\ Effective(j) \in Tier /\ Required(j) \in Nat
    BY <1>0, <1>4, Frozen, TierOf
  <2> QED
    BY <2>1, <2>2 DEF Denied
<1>5. CASE Approve
  <2>1. /\ stage = "approve" /\ UNCHANGED <<policy, job, tripped, readable>>
        /\ approvers' \in [Operator -> Nat]
        /\ \/ Collected(approvers') = Required(job) /\ stage' = "switch" /\ verdict' = verdict
           \/ Conclude("approval_denied", SUGGEST, FALSE)
    <3>1. stage = "approve"
      BY <1>5 DEF Approve
    <3>2. Required(job) \in Nat
      BY <1>0, <3>1, TierOf DEF Underway
    <3>3. approvers' \in [Operator -> 0..0] \/ approvers' \in [Operator -> 0..Required(job)]
      BY <1>5 DEF Approve
    <3>4. approvers' \in [Operator -> Nat]
      BY <3>2, <3>3
    <3> QED
      BY <1>5, <3>1, <3>4 DEF Approve
  <2>2. /\ job' \in Evaluation /\ Required(job)' = Required(job)
        /\ (Denied(Matched(job))' <=> Denied(Matched(job)))
    BY <1>4, <2>1
  <2>3. verdict = NoVerdict /\ ~Denied(Matched(job)) /\ ~verdict.approved
    BY <1>0, <1>2, <2>1 DEF Underway
  <2>4. CASE Collected(approvers') = Required(job) /\ stage' = "switch" /\ verdict' = verdict
    <3>1. EnoughApproved'
      BY <2>2, <2>4 DEF EnoughApproved, Approvals
    <3> QED
      BY <1>0, <2>1, <2>2, <2>3, <2>4, <3>1 DEF GuardrailsInv, GuardrailsTypeOK, Underway
  <2>5. CASE Conclude("approval_denied", SUGGEST, FALSE)
    BY <1>0, <1>1, <1>2, <2>1, <2>2, <2>5 DEF GuardrailsInv, GuardrailsTypeOK, Underway
  <2> QED
    BY <2>1, <2>3, <2>4, <2>5
<1>6. CASE CheckSwitch
  <2>1. /\ stage = "switch" /\ UNCHANGED <<policy, job, approvers, tripped, readable>>
        /\ \/ Conclude("killswitch_downgrade", SUGGEST, FALSE)
           \/ Conclude("approved", Effective(job), TRUE)
              /\ ~(Effective(job) = EXECUTE /\ tripped /\ readable)
    BY <1>6 DEF CheckSwitch
  <2>2. /\ job \in Evaluation /\ job' \in Evaluation /\ Required(job)' = Required(job)
        /\ Effective(job)' = Effective(job) /\ Effective(job) \in Tier
        /\ (Denied(Matched(job))' <=> Denied(Matched(job)))
    BY <1>4, <2>1
  <2>3. ~Denied(Matched(job)) /\ EnoughApproved
    BY <1>0, <2>1 DEF Underway
  <2>4. EnoughApproved'
    BY <2>1, <2>2, <2>3 DEF EnoughApproved, Approvals
  <2>5. CASE Conclude("killswitch_downgrade", SUGGEST, FALSE)
    BY <1>0, <1>1, <1>2, <2>1, <2>2, <2>5 DEF GuardrailsInv, GuardrailsTypeOK, Underway
  <2>6. CASE Conclude("approved", Effective(job), TRUE)
             /\ ~(Effective(job) = EXECUTE /\ tripped /\ readable)
    <3>1. /\ stage' = "done" /\ verdict'.tier = Effective(job) /\ verdict'.approved = TRUE
          /\ verdict' \in [outcome : Outcome, tier : Tier, approved : BOOLEAN]
      BY <1>1, <1>2, <2>2, <2>6
    <3> QED
      BY <1>0, <2>1, <2>2, <2>3, <2>4, <2>6, <3>1 DEF GuardrailsInv, GuardrailsTypeOK, Underway
  <2> QED
    BY <2>1, <2>5, <2>6
<1>7. CASE BackendChanges \/ UNCHANGED guardrailsVars
  <2>1. /\ UNCHANGED <<policy, job, stage, approvers, verdict>>
        /\ tripped' \in BOOLEAN /\ readable' \in BOOLEAN
    BY <1>0, <1>7 DEF BackendChanges, guardrailsVars, GuardrailsTypeOK
  <2>2. GuardrailsTypeOK'
    BY <1>0, <2>1 DEF GuardrailsTypeOK
  <2>3. Underway'
    <3>1. CASE stage = "idle"
      BY <1>0, <1>2, <2>1, <3>1 DEF Underway
    <3>2. CASE stage # "idle"
      <4>1. /\ Required(job)' = Required(job) /\ Effective(job)' = Effective(job)
            /\ (Denied(Matched(job))' <=> Denied(Matched(job)))
        BY <1>4, <2>1, <3>2
      <4>2. EnoughApproved' <=> EnoughApproved
        BY <2>1, <4>1 DEF EnoughApproved, Approvals
      <4> QED
        BY <1>0, <2>1, <3>2, <4>1, <4>2 DEF Underway
    <3> QED
      BY <3>1, <3>2
  <2> QED
    BY <2>1, <2>2, <2>3 DEF GuardrailsInv
<1> QED
  BY <1>3, <1>5, <1>6, <1>7 DEF GuardrailsNext

LEMMA Earned == GuardrailsInv => ExecuteEarned
<1> SUFFICES ASSUME GuardrailsInv, verdict.approved, verdict.tier = EXECUTE
             PROVE  /\ job.tier = EXECUTE
                    /\ \A r \in Matched(job) : ~r.deny /\ r.cap = EXECUTE /\ Approvals >= r.approvals
                    /\ Approvals >= 2 /\ Risk(job) =< 40
  BY DEF ExecuteEarned
<1>1. /\ policy \in SUBSET Rule /\ job \in Evaluation /\ Effective(job) = EXECUTE
      /\ ~Denied(Matched(job)) /\ EnoughApproved
  BY DEF GuardrailsInv, GuardrailsTypeOK, Underway
<1>2. PICK j \in Evaluation : j = job
  BY <1>1
<1>3. /\ Effective(j) =< j.tier /\ Effective(j) =< TierCap(Risk(j))
      /\ \A r \in Matched(j) : Effective(j) =< r.cap
      /\ Required(j) \in Nat /\ Required(j) >= Ladder[Effective(j)].approvals
      /\ \A r \in Matched(j) : Required(j) >= r.approvals
  BY <1>1, TierOf
<1>4. EXECUTE = 3 /\ Ladder[3].approvals = 2 /\ Ladder[3].maxRisk = 40 /\ j.tier \in 0..3
  BY DEF Ladder, Tier, SUGGEST, DRAFT, PROPOSE, EXECUTE, Evaluation
<1>5. Approvals = Required(j) /\ Approvals >= 2
  BY <1>1, <1>2, <1>3, <1>4 DEF EnoughApproved
<1>6. Risk(j) \in 0..100
  BY <1>1, RiskOf
<1>7. TierCap(Risk(j)) \in 0..3 /\ Risk(j) =< Ladder[TierCap(Risk(j))].maxRisk
  BY <1>6, CapOfScore DEF Tier
<1>8. TierCap(Risk(j)) = 3 /\ j.tier = 3
  BY <1>1, <1>2, <1>3, <1>4, <1>7
<1>9. \A r \in Matched(j) : r.cap \in 0..3
  BY <1>1, RuleAssumption DEF Matched, Tier
<1>10. \A r \in Matched(j) : ~r.deny /\ r.cap = 3
  BY <1>1, <1>2, <1>3, <1>4, <1>9 DEF Denied
<1> QED
  BY <1>2, <1>3, <1>4, <1>5, <1>7, <1>8, <1>10

LEMMA NeverLoosened ==
  GuardrailsInv => PolicyNeverLoosens
<1> SUFFICES ASSUME GuardrailsInv, stage = "done", AddedRisk(Matched(job)) >= 0
             PROVE  verdict.tier =< TierCap(RiskScore(job.action, job.extra))
  BY DEF PolicyNeverLoosens
<1>1. policy \in SUBSET Rule /\ job \in Evaluation
      /\ (verdict.tier = SUGGEST \/ verdict.tier = Effective(job))
  BY DEF GuardrailsInv, GuardrailsTypeOK, Underway
<1>2. PICK j \in Evaluation : j = job
  BY <1>1
<1> DEFINE s == RiskScore(j.action, j.extra)
<1>3. s \in 0..100 /\ Risk(j) \in 0..100 /\ s =< Risk(j)
  BY <1>1, <1>2, RiskOf
<1>4. /\ TierCap(s) \in 0..3 /\ TierCap(Risk(j)) \in 0..3 /\ TierCap(Risk(j)) =< TierCap(s)
  BY <1>3, CapOfScore, CapFalls DEF Tier
<1>5. Effective(j) \in 0..3 /\ Effective(j) =< TierCap(Risk(j))
  BY <1>1, TierOf DEF Tier
<1> HIDE DEF s
<1>6. SUGGEST =< TierCap(s) /\ Effective(j) =< TierCap(s)
  BY <1>4, <1>5 DEF SUGGEST
<1> QED
  BY <1>1, <1>2, <1>6 DEF s

(* The switch is read last, whatever the policy says (engine.py:231-278).  *)
THEOREM SwitchReadLastThm == GuardrailsSpec => SwitchReadLast
<1>1. GuardrailsInit => GuardrailsInv
  BY GuardrailsInitInv
<1>2. GuardrailsInv /\ [GuardrailsNext]_guardrailsVars => GuardrailsInv'
  BY GuardrailsStep
<1>3. GuardrailsInv /\ [GuardrailsNext]_guardrailsVars =>
        [(verdict # verdict' /\ verdict'.approved /\ verdict'.tier = EXECUTE)
           => ~(tripped /\ readable)]_guardrailsVars
  BY GuardrailsStep
<1> QED
  BY <1>1, <1>2, <1>3, PTL DEF GuardrailsSpec, SwitchReadLast

(* An approved EXECUTE was earned under every policy.                      *)
THEOREM ExecuteEarnedThm == GuardrailsSpec => []ExecuteEarned
<1>1. GuardrailsInit => GuardrailsInv
  BY GuardrailsInitInv
<1>2. GuardrailsInv /\ [GuardrailsNext]_guardrailsVars => GuardrailsInv'
  BY GuardrailsStep
<1> QED
  BY <1>1, <1>2, Earned, PTL DEF GuardrailsSpec

(* And no policy loosens the ladder but one whose matching rules, taken    *)
(* together, have a negative add_risk (tiers.py:146, policy.py:136).       *)
THEOREM DecisionEarnedThm == GuardrailsSpec => []DecisionEarned
<1>1. GuardrailsInit => GuardrailsInv
  BY GuardrailsInitInv
<1>2. GuardrailsInv /\ [GuardrailsNext]_guardrailsVars => GuardrailsInv'
  BY GuardrailsStep
<1>3. GuardrailsInv => DecisionEarned
  BY Earned, NeverLoosened DEF DecisionEarned, GuardrailsInv
<1> QED
  BY <1>1, <1>2, <1>3, PTL DEF GuardrailsSpec
-----------------------------------------------------------------------------
(* The router.  The weights are small numbers, and what is telling         *)
(* outweighs the markers.                                                  *)
LEMMA Weights ==
  /\ Signal = {"email", "krn", "card", "auth", "arn", "host", "pod", "account", "ip",
               "keyword", "codename", "markers", "large"}
  /\ \A s \in Signal : Weight[s] \in Int /\ (s # "markers" => Weight[s] \in Nat)
  /\ Weight["markers"] = -2
  /\ \A s \in Hard : s \in Signal /\ s # "markers" /\ Weight[s] >= 4
  /\ \A s \in Soft : s \in Signal /\ s # "markers" /\ Weight[s] >= 2
<1>1. Signal = {"email", "krn", "card", "auth", "arn", "host", "pod", "account", "ip",
                "keyword", "codename", "markers", "large"}
  BY DEF Signal, Weight
<1>2. /\ Weight["email"] = 3 /\ Weight["krn"] = 5 /\ Weight["card"] = 4 /\ Weight["auth"] = 4
      /\ Weight["arn"] = 4 /\ Weight["host"] = 2 /\ Weight["pod"] = 2 /\ Weight["account"] = 2
      /\ Weight["ip"] = 2 /\ Weight["keyword"] = 3 /\ Weight["codename"] = 3
      /\ Weight["markers"] = -2 /\ Weight["large"] = 1
  BY DEF Weight
<1>3. \A s \in Signal : Weight[s] \in Int /\ (s # "markers" => Weight[s] \in Nat)
  BY <1>1, <1>2
<1>4. \A s \in Hard : s \in Signal /\ s # "markers" /\ Weight[s] >= 4
  BY <1>1, <1>2 DEF Hard
<1>5. \A s \in Soft : s \in Signal /\ s # "markers" /\ Weight[s] >= 2
  BY <1>1, <1>2 DEF Soft, Keyword
<1> QED
  BY <1>1, <1>2, <1>3, <1>4, <1>5
LEMMA SignalsFinite == IsFiniteSet(Signal)
<1> DEFINE S1 == {} \union {"email"}     S2 == S1 \union {"krn"}      S3 == S2 \union {"card"}
           S4 == S3 \union {"auth"}      S5 == S4 \union {"arn"}      S6 == S5 \union {"host"}
           S7 == S6 \union {"pod"}       S8 == S7 \union {"account"}  S9 == S8 \union {"ip"}
           S10 == S9 \union {"keyword"}  S11 == S10 \union {"codename"}
           S12 == S11 \union {"markers"} S13 == S12 \union {"large"}
<1>1. S13 = Signal
  BY Weights
<1>2. \A S, x : IsFiniteSet(S) => IsFiniteSet(S \union {x})
  BY FS_AddElement
<1>3. IsFiniteSet({})
  BY FS_EmptySet
<1>4. IsFiniteSet(S4)
  BY <1>2, <1>3
<1> HIDE DEF S4
<1>5. IsFiniteSet(S8)
  BY <1>2, <1>4
<1> HIDE DEF S8
<1>6. IsFiniteSet(S13)
  BY <1>2, <1>5
<1> QED
  BY <1>1, <1>6

(* The score of a prompt is the sum of its signals' weights.               *)
LEMMA ScoreSums ==
  ASSUME NEW p \in SUBSET Signal
  PROVE  /\ Counted(p) \in SUBSET Signal /\ IsFiniteSet(Counted(p))
         /\ \E g : Sums(g, Weight, Counted(p)) /\ Score(p) = g[Counted(p)]
<1> DEFINE R == Counted(p)
           It(g) == g = [s \in SUBSET R |-> IF s = {} THEN 0 ELSE Weight[Pick(s)] + g[s \ {Pick(s)}]]
           h == CHOOSE g : It(g)
<1>1. R \in SUBSET Signal /\ IsFiniteSet(R)
  BY SignalsFinite, FS_Subset DEF Counted
<1>2. Score(p) = h[R]
  BY DEF Score, MapThenSumSet, MapThenFoldSet, Pick
<1> HIDE DEF R
<1>3. \E g : Sums(g, Weight, R)
  BY <1>1, Weights, SumsExist
<1>4. PICK g : It(g) /\ Sums(g, Weight, R)
  BY <1>3 DEF Sums
<1>5. It(h)
  BY <1>4
<1>6. h[R] = g[R]
  <2> DEFINE T == {s \in SUBSET R : h[s] # g[s]}
  <2> SUFFICES ASSUME T # {} PROVE FALSE
    OBVIOUS
  <2>0. T \subseteq SUBSET R
    OBVIOUS
  <2> HIDE DEF T, h
  <2>1. PICK s \in T : \A u \in T : u \subseteq s => u = s
    BY <1>1, <2>0, LeastSubset
  <2> USE DEF T
  <2>2. s # {} /\ s \in SUBSET R
    <3>1. {} \in SUBSET R /\ s \in SUBSET R
      BY <2>1
    <3>2. g[{}] = 0 /\ h[{}] = 0
      BY <1>4, <1>5, <3>1
    <3> QED
      BY <2>1, <3>1, <3>2
  <2>3. s \ {Pick(s)} \in SUBSET R /\ s \ {Pick(s)} # s /\ s \ {Pick(s)} \subseteq s
    BY <2>2, PickIn
  <2>4. g[s \ {Pick(s)}] = h[s \ {Pick(s)}]
    BY <2>1, <2>3
  <2> QED
    BY <1>4, <1>5, <2>1, <2>2, <2>4
<1> QED
  BY <1>1, <1>2, <1>4, <1>6 DEF R

(* No weighing lets a telling prompt pass for a sanitized one.             *)
LEMMA TellingIsSensitive ==
  ASSUME NEW p \in SUBSET Signal, Telling(p)
  PROVE  IsSensitive(p)
<1> DEFINE C == Counted(p)
           D == C \ {"markers"}
<1>1. C \in SUBSET Signal /\ IsFiniteSet(C)
  BY ScoreSums
<1>2. PICK g : Sums(g, Weight, C) /\ Score(p) = g[C]
  BY ScoreSums
<1>3. \A r \in C : Weight[r] \in Int
  BY <1>1, Weights
<1> HIDE DEF C
<1>4. \A s \in SUBSET C : \A x \in s : g[s] = Weight[x] + g[s \ {x}]
  <2> SUFFICES ASSUME NEW s \in SUBSET C, NEW x \in s
               PROVE  g[s] = Weight[x] + g[s \ {x}]
    OBVIOUS
  <2>1. PICK S : S = C
    OBVIOUS
  <2>2. PICK f : f = Weight
    OBVIOUS
  <2>3. IsFiniteSet(S) /\ Sums(g, f, S) /\ \A r \in S : f[r] \in Int
    BY <1>1, <1>2, <1>3, <2>1, <2>2
  <2>4. s \in SUBSET S
    BY <2>1
  <2>5. g[s] = f[x] + g[s \ {x}]
    BY <2>3, <2>4, SumsRemove
  <2> QED
    BY <2>2, <2>5
<1>5. \A s \in SUBSET C : g[s] \in Int
  BY <1>2 DEF Sums
<1>6. \A s \in SUBSET D : g[s] \in Nat
  <2>1. g[{}] = 0
    BY <1>2 DEF Sums
  <2> DEFINE T == {s \in SUBSET D : g[s] \notin Nat}
  <2> SUFFICES ASSUME T # {} PROVE FALSE
    OBVIOUS
  <2>0. T \subseteq SUBSET C
    OBVIOUS
  <2> HIDE DEF T
  <2>2. PICK s \in T : \A u \in T : u \subseteq s => u = s
    BY <1>1, <2>0, LeastSubset
  <2> USE DEF T
  <2>3. g[s] \notin Nat /\ s \in SUBSET D /\ s # {}
    <3>1. g[s] \notin Nat /\ s \in SUBSET D /\ 0 \in Nat
      BY <2>2
    <3> QED
      BY <2>1, <3>1
  <2>4. PICK x \in s : TRUE
    BY <2>3
  <2>5. x # "markers" /\ x \in Signal /\ Weight[x] \in Nat
    BY <1>1, <2>3, <2>4, Weights
  <2>6. g[s \ {x}] \in Nat
    BY <2>2, <2>3, <2>4
  <2>7. g[s] = Weight[x] + g[s \ {x}]
    BY <1>4, <2>3, <2>4
  <2> QED
    BY <2>3, <2>5, <2>6, <2>7
<1>7. \/ "markers" \in C /\ g[C] = -2 + g[D]
      \/ "markers" \notin C /\ g[C] = g[D]
  <2>1. CASE "markers" \in C
    BY <1>4, <2>1, Weights
  <2>2. CASE "markers" \notin C
    <3>1. C = D
      BY <2>2
    <3> QED
      BY <2>2, <3>1
  <2> QED
    BY <2>1, <2>2
<1>8. ASSUME NEW x \in D
      PROVE  /\ g[D] = Weight[x] + g[D \ {x}] /\ g[D \ {x}] \in Nat
             /\ \A y \in D \ {x} : /\ g[D \ {x}] = Weight[y] + g[(D \ {x}) \ {y}]
                                   /\ g[(D \ {x}) \ {y}] \in Nat
  <2>1. D \in SUBSET C /\ D \ {x} \in SUBSET C /\ D \ {x} \in SUBSET D
    OBVIOUS
  <2>2. \A y : (D \ {x}) \ {y} \in SUBSET D
    OBVIOUS
  <2> HIDE DEF D
  <2> QED
    BY <1>4, <1>6, <2>1, <2>2
<1> HIDE DEF D
<1>9. \A x \in D : x \in C /\ Weight[x] \in Nat
  BY <1>1, Weights DEF D
<1>10. \A x \in C : x \in Hard \union Soft => x \in D
  BY Weights DEF D
<1>11. Score(p) >= 2
  <2>1. CASE C \cap Hard # {}
    <3>1. PICK x \in C \cap Hard : TRUE
      BY <2>1
    <3>2. x \in D /\ Weight[x] >= 4 /\ Weight[x] \in Nat
      BY <1>9, <1>10, <3>1, Weights
    <3>3. g[D] >= 4 /\ g[D] \in Int
      <4>1. g[D] = Weight[x] + g[D \ {x}] /\ g[D \ {x}] \in Nat
        BY <1>8, <3>2
      <4> QED
        BY <3>2, <4>1
    <3> QED
      BY <1>2, <1>7, <3>3
  <2>2. CASE Cardinality(C \cap Soft) >= 2
    <3>1. IsFiniteSet(C \cap Soft) /\ Cardinality(C \cap Soft) \in Nat
      BY <1>1, FS_Intersection, FS_CardinalityType
    <3>2. C \cap Soft # {}
      BY <2>2, <3>1, FS_EmptySet
    <3>3. PICK x \in C \cap Soft : TRUE
      BY <3>2
    <3>4. Cardinality((C \cap Soft) \ {x}) = Cardinality(C \cap Soft) - 1
      BY <3>1, <3>3, FS_RemoveElement
    <3>5. (C \cap Soft) \ {x} # {}
      <4>1. Cardinality((C \cap Soft) \ {x}) # 0
        BY <2>2, <3>1, <3>4
      <4> QED
        BY <4>1, FS_EmptySet
    <3>6. PICK y \in (C \cap Soft) \ {x} : TRUE
      BY <3>5
    <3>7. /\ x \in D /\ y \in D \ {x} /\ Weight[x] \in Nat /\ Weight[y] \in Nat
          /\ Weight[x] >= 2 /\ Weight[y] >= 2
      BY <1>9, <1>10, <3>3, <3>6, Weights
    <3>8. g[D] >= 4 /\ g[D] \in Int
      <4>1. g[D] = Weight[x] + g[D \ {x}]
        BY <1>8, <3>7
      <4>2. g[D \ {x}] = Weight[y] + g[(D \ {x}) \ {y}] /\ g[(D \ {x}) \ {y}] \in Nat
        BY <1>8, <3>7
      <4> QED
        BY <3>7, <4>1, <4>2
    <3> QED
      BY <1>2, <1>7, <3>8
  <2>3. CASE C \cap Soft # {} /\ "markers" \notin p
    <3>1. PICK x \in C \cap Soft : TRUE
      BY <2>3
    <3>2. x \in D /\ Weight[x] >= 2 /\ Weight[x] \in Nat
      BY <1>9, <1>10, <3>1, Weights
    <3>3. g[D] >= 2 /\ g[D] \in Int
      <4>1. g[D] = Weight[x] + g[D \ {x}] /\ g[D \ {x}] \in Nat
        BY <1>8, <3>2
      <4> QED
        BY <3>2, <4>1
    <3>4. "markers" \notin C
      BY <2>3 DEF C, Counted
    <3> QED
      BY <1>2, <1>7, <3>3, <3>4
  <2> QED
    BY <2>1, <2>2, <2>3 DEF Telling, C
<1>12. Score(p) \in Int
  BY <1>2, <1>5
<1> QED
  BY <1>11, <1>12 DEF IsSensitive, Level
(***************************************************************************)
(* A call that did not fall back went once, to the backend decided on;     *)
(* one that did went to Ollama and then to Claude, with leave.             *)
(***************************************************************************)
AsDecided ==
  /\ call.decision = Decide(call.prompt, call.mode, call.override)
  /\ call.decision.override # "fallback_to_cloud"
  /\ call.sent = <<call.decision.backend>>
  /\ \A i \in 1..Len(call.chunks) : call.chunks[i] = call.decision.backend

FellBack ==
  /\ config.fallback
  /\ call.decision = [backend |-> "claude", override |-> "fallback_to_cloud"]
  /\ call.sent = <<"ollama", "claude">>
  /\ PiecesInOrder

CallInv ==
  /\ RouterTypeOK
  /\ call # NoCall =>
       /\ AsDecided \/ FellBack
       /\ call.at = "asked" /\ ~call.stream => call.chunks = <<>>
       /\ call.at = "answered" /\ ~call.stream => call.chunks = <<call.decision.backend>>

LEMMA ConfigFields ==
  ASSUME RouterTypeOK
  PROVE  /\ config \in Config
         /\ config.sensitive_backend \in Backend /\ config.sanitized_backend \in Backend
  BY RouterAssumption DEF RouterTypeOK, Config

LEMMA DecideType ==
  ASSUME RouterTypeOK, NEW p, NEW mode, NEW override
  PROVE  /\ Decide(p, mode, override) \in Decision
         /\ Decide(p, mode, override).override # "fallback_to_cloud"
  BY ConfigFields DEF Decide, Decision

(* A decision changes with the configuration only.                         *)
LEMMA SameDecision ==
  ASSUME UNCHANGED config
  PROVE  \A p, mode, override : Decide(p, mode, override)' = Decide(p, mode, override)
<1> SUFFICES ASSUME NEW p, NEW mode, NEW override
             PROVE  Decide(p, mode, override)' = Decide(p, mode, override)
  OBVIOUS
<1>1. Counted(p)' = Counted(p)
  BY DEF Counted
<1>2. Score(p)' = Score(p)
  BY <1>1 DEF Score, MapThenSumSet, MapThenFoldSet
<1>3. IsSensitive(p)' = IsSensitive(p)
  BY <1>2 DEF IsSensitive, Level
<1> QED
  BY <1>3 DEF Decide

(* While a call is there it has all its fields.                            *)
LEMMA CallFields ==
  ASSUME RouterTypeOK, call # NoCall
  PROVE  /\ call \in Call /\ call.at # "idle"
         /\ call.decision \in Decision /\ call.prompt \in Prompts
         /\ call.sent \in Seq(Backend) /\ call.chunks \in Seq(Backend)
         /\ call = [at |-> call.at, stream |-> call.stream, prompt |-> call.prompt,
                    mode |-> call.mode, override |-> call.override,
                    decision |-> call.decision, sent |-> call.sent, chunks |-> call.chunks]
  BY DEF RouterTypeOK, Call

LEMMA CallStep == CallInv /\ [RouterNext]_routerVars => CallInv'
<1> SUFFICES ASSUME CallInv, [RouterNext]_routerVars PROVE CallInv'
  OBVIOUS
<1>0. RouterTypeOK
  BY DEF CallInv
<1>1. ASSUME NEW p \in Prompts, NEW m \in Mode, NEW o \in Override, NEW s \in BOOLEAN,
             Ask(p, m, o, s)
      PROVE  CallInv'
  <2> DEFINE d == Decide(p, m, o)
             c == [at |-> "asked", stream |-> s, prompt |-> p, mode |-> m, override |-> o,
                   decision |-> d, sent |-> <<d.backend>>, chunks |-> <<>>]
  <2>1. call' = c /\ config' = config
    BY <1>1 DEF Ask
  <2>2. d \in Decision /\ d.override # "fallback_to_cloud" /\ d.backend \in Backend
    BY <1>0, DecideType DEF Decision
  <2>3. Decide(p, m, o)' = d
    BY <2>1, SameDecision DEF d
  <2> HIDE DEF d
  <2>4. <<d.backend>> \in Seq(Backend) /\ <<>> \in Seq(Backend) /\ Len(<<>>) = 0
    BY <2>2
  <2>5. c \in Call
    BY <2>2, <2>4 DEF Call
  <2>6. RouterTypeOK'
    BY <1>0, <2>1, <2>5 DEF RouterTypeOK
  <2>7. AsDecided'
    BY <2>1, <2>2, <2>3, <2>4 DEF AsDecided, d, Decide
  <2> QED
    BY <2>1, <2>6, <2>7 DEF CallInv
<1>2. ASSUME call # NoCall, config' = config, call'.prompt = call.prompt,
             call'.mode = call.mode, call'.override = call.override
      PROVE  Decide(call.prompt, call.mode, call.override)'
               = Decide(call.prompt, call.mode, call.override)
  BY <1>2, SameDecision
<1>3. CASE Chunk
  <2> DEFINE more == Append(call.chunks, call.decision.backend)
  <2>1. /\ call.at = "asked" /\ call.stream /\ config' = config
        /\ call' = [call EXCEPT !.chunks = more]
    BY <1>3 DEF Chunk
  <2>2. call # NoCall /\ call \in Call /\ call.decision.backend \in Backend
    BY <1>0, <2>1, CallFields DEF NoCall, Decision
  <2>3. /\ more \in Seq(Backend) /\ Len(more) = Len(call.chunks) + 1
        /\ Len(call.chunks) \in Nat
        /\ \A i \in 1..Len(call.chunks) : more[i] = call.chunks[i]
        /\ more[Len(call.chunks) + 1] = call.decision.backend
    BY <1>0, <2>2, CallFields
  <2> HIDE DEF more
  <2>4. /\ call'.at = "asked" /\ call'.stream = call.stream /\ call'.chunks = more
        /\ call'.prompt = call.prompt /\ call'.mode = call.mode
        /\ call'.override = call.override /\ call'.decision = call.decision
        /\ call'.sent = call.sent /\ call' \in Call
    BY <2>1, <2>2, <2>3 DEF Call
  <2>5. RouterTypeOK'
    BY <1>0, <2>1, <2>4 DEF RouterTypeOK
  <2>6. ASSUME AsDecided PROVE AsDecided'
    BY <1>2, <2>1, <2>2, <2>3, <2>4, <2>6 DEF AsDecided
  <2>7. ASSUME FellBack PROVE FellBack'
    <3>1. call.decision.backend = "claude"
      BY <2>7 DEF FellBack
    <3>2. PiecesInOrder'
      BY SMTT(20), <2>2, <2>3, <2>4, <2>7, <3>1, CallFields, <1>0 DEF FellBack, PiecesInOrder
    <3> QED
      BY <2>1, <2>4, <2>7, <3>2 DEF FellBack
  <2> QED
    BY <2>1, <2>2, <2>4, <2>5, <2>6, <2>7 DEF CallInv
<1>4. CASE Answer
  <2> DEFINE all == IF call.stream THEN call.chunks ELSE <<call.decision.backend>>
  <2>1. /\ call.at = "asked" /\ config' = config
        /\ call' = [call EXCEPT !.at = "answered", !.chunks = all]
    BY <1>4 DEF Answer
  <2>2. call # NoCall /\ call \in Call /\ call.decision.backend \in Backend
    BY <1>0, <2>1, CallFields DEF NoCall, Decision
  <2>3. /\ all \in Seq(Backend) /\ (call.stream => all = call.chunks)
        /\ ~call.stream => all = <<call.decision.backend>>
    BY <1>0, <2>2, CallFields
  <2> HIDE DEF all
  <2>4. /\ call'.at = "answered" /\ call'.stream = call.stream /\ call'.chunks = all
        /\ call'.prompt = call.prompt /\ call'.mode = call.mode
        /\ call'.override = call.override /\ call'.decision = call.decision
        /\ call'.sent = call.sent /\ call' \in Call
    BY <2>1, <2>2, <2>3 DEF Call
  <2>5. RouterTypeOK'
    BY <1>0, <2>1, <2>4 DEF RouterTypeOK
  <2>6. ASSUME AsDecided PROVE AsDecided'
    BY <1>2, <2>1, <2>2, <2>3, <2>4, <2>6 DEF AsDecided
  <2>7. ASSUME FellBack PROVE FellBack'
    BY <2>1, <2>2, <2>3, <2>4, <2>7 DEF FellBack, PiecesInOrder
  <2> QED
    BY <2>1, <2>2, <2>3, <2>4, <2>5, <2>6, <2>7 DEF CallInv
<1>5. CASE Fallback
  <2> DEFINE both == Append(call.sent, "claude")
             told == [backend |-> "claude", override |-> "fallback_to_cloud"]
  <2>1. /\ call.at = "asked" /\ config' = config /\ config.fallback
        /\ call.decision.backend = "ollama"
        /\ call' = [call EXCEPT !.decision = told, !.sent = both]
    BY <1>5 DEF Fallback
  <2>2. call # NoCall /\ call \in Call /\ AsDecided
    BY <1>0, <2>1, CallFields DEF NoCall, CallInv, FellBack
  <2>3. both = <<"ollama", "claude">> /\ both \in Seq(Backend)
    <3>1. call.sent = <<"ollama">>
      BY <2>1, <2>2 DEF AsDecided
    <3>2. both = Append(<<"ollama">>, "claude")
      BY <3>1
    <3> HIDE DEF both
    <3>3. <<"ollama">> \in Seq(Backend) /\ Len(<<"ollama">>) = 1 /\ "claude" \in Backend
      BY DEF Backend
    <3>4. both \in Seq(Backend) /\ Len(both) = 2 /\ both[1] = "ollama" /\ both[2] = "claude"
      BY <3>2, <3>3
    <3>5. both = <<both[1], both[2]>>
      BY <3>4
    <3> QED
      BY <3>4, <3>5
  <2>4. told \in Decision
    BY DEF Decision, Backend
  <2> HIDE DEF both
  <2>5. /\ call'.at = "asked" /\ call'.stream = call.stream /\ call'.chunks = call.chunks
        /\ call'.decision = told /\ call'.sent = both /\ call' \in Call
    BY <2>1, <2>2, <2>3, <2>4 DEF Call
  <2>6. RouterTypeOK'
    BY <1>0, <2>1, <2>5 DEF RouterTypeOK
  <2>7. PiecesInOrder'
    BY <2>1, <2>2, <2>5 DEF PiecesInOrder, AsDecided
  <2>8. FellBack'
    BY <2>1, <2>3, <2>5, <2>7 DEF FellBack
  <2> QED
    BY <2>1, <2>2, <2>5, <2>6, <2>8 DEF CallInv
<1>6. CASE FailLoudly \/ OtherError
  <2>1. /\ call.at = "asked" /\ config' = config
        /\ call' = [call EXCEPT !.at = "raised"]
    BY <1>6 DEF FailLoudly, OtherError
  <2>2. call # NoCall /\ call \in Call
    BY <1>0, <2>1, CallFields DEF NoCall
  <2>4. /\ call'.at = "raised" /\ call'.stream = call.stream /\ call'.chunks = call.chunks
        /\ call'.prompt = call.prompt /\ call'.mode = call.mode
        /\ call'.override = call.override /\ call'.decision = call.decision
        /\ call'.sent = call.sent /\ call' \in Call
    BY <2>1, <2>2 DEF Call
  <2>5. RouterTypeOK'
    BY <1>0, <2>1, <2>4 DEF RouterTypeOK
  <2>6. ASSUME AsDecided PROVE AsDecided'
    BY <1>2, <2>1, <2>2, <2>4, <2>6 DEF AsDecided
  <2>7. ASSUME FellBack PROVE FellBack'
    BY <2>1, <2>2, <2>4, <2>7 DEF FellBack, PiecesInOrder
  <2> QED
    BY <2>1, <2>2, <2>4, <2>5, <2>6, <2>7 DEF CallInv
<1>7. CASE UNCHANGED routerVars
  <2>1. config' = config /\ call' = call
    BY <1>7 DEF routerVars
  <2>2. Decide(call.prompt, call.mode, call.override)'
           = Decide(call.prompt, call.mode, call.override)
    BY <2>1, SameDecision
  <2> QED
    BY <2>1, <2>2 DEF CallInv, RouterTypeOK, AsDecided, FellBack, PiecesInOrder
<1> QED
  BY <1>1, <1>3, <1>4, <1>5, <1>6, <1>7 DEF RouterNext

(* What a call was sent to follows from its decision.                      *)
LEMMA CallSound == CallInv => RoutingSound
<1> SUFFICES ASSUME CallInv PROVE RoutingSound
  OBVIOUS
<1>0. RouterTypeOK
  BY DEF CallInv
<1>1. CASE call = NoCall
  BY <1>0, <1>1 DEF NoCall, RoutingSound, StaysLocal, DecisionTellsAll, PiecesInOrder
<1>2. CASE call # NoCall
  <2>0. call \in Call /\ call.prompt \in SUBSET Signal /\ call.mode \in Mode
    BY <1>0, <1>2, CallFields, RouterAssumption DEF Call
  <2>1. ASSUME MustStayLocal, config.sensitive_backend = "ollama", ~config.fallback
        PROVE  \A i \in 1..Len(call.sent) : call.sent[i] # "claude"
    <3>1. AsDecided
      BY <1>2, <2>1 DEF CallInv, FellBack
    <3>2. CASE config.always_local \/ call.mode = "local"
      BY <2>1, <3>1, <3>2 DEF AsDecided, Decide
    <3>3. CASE /\ ~config.always_local /\ call.mode = "auto"
               /\ call.override = "sensitive"
      BY <2>1, <3>1, <3>3 DEF AsDecided, Decide
    <3>4. CASE /\ ~config.always_local /\ call.mode = "auto" /\ call.override = "unset"
               /\ config.auto_detect /\ Telling(call.prompt)
      <4>1. IsSensitive(call.prompt)
        BY <2>0, <3>4, TellingIsSensitive
      <4> QED
        BY <2>1, <3>1, <3>4, <4>1 DEF AsDecided, Decide
    <3> QED
      BY <2>1, <3>2, <3>3, <3>4 DEF MustStayLocal
  <2>2. StaysLocal
    BY <2>1 DEF StaysLocal
  <2>3. PiecesInOrder
    BY <1>2 DEF CallInv, AsDecided, FellBack, PiecesInOrder
  <2>4. DecisionTellsAll
    <3>1. ASSUME AsDecided PROVE DecisionTellsAll
      <4>1. call.decision.backend \in {"ollama", "claude"}
        BY <1>0, <1>2, CallFields DEF Decision, Backend
      <4> QED
        BY <1>2, <3>1, <4>1 DEF CallInv, AsDecided, DecisionTellsAll
    <3>2. ASSUME FellBack PROVE DecisionTellsAll
      BY <1>2, <3>2 DEF CallInv, FellBack, DecisionTellsAll
    <3> QED
      BY <1>2, <3>1, <3>2 DEF CallInv
  <2> QED
    BY <1>0, <2>2, <2>3, <2>4 DEF RoutingSound
<1> QED
  BY <1>1, <1>2

(* Whatever the prompts and the configurations: a telling prompt stays     *)
(* local unless the operator let it go, and the caller is told which       *)
(* backend answered, in which order (router.py, sensitivity.py).           *)
THEOREM RoutingSoundThm == RouterSpec => []RoutingSound
<1>1. RouterInit => CallInv
  BY DEF RouterInit, CallInv, RouterTypeOK
<1> QED
  BY <1>1, CallStep, CallSound, PTL DEF RouterSpec
-----------------------------------------------------------------------------
(* The redacting proxy.  NotedAll is a fold over the positions of a text,  *)
(* the last one taken off first.                                           *)
Noting(g, base, text, s) ==
  IF s = {} THEN base
  ELSE IF text[Max(s)] \in Value THEN Noted(g[s \ {Max(s)}], text[Max(s)])
  ELSE g[s \ {Max(s)}]
Notes(g, base, text, R) == g = [s \in SUBSET R |-> Noting(g, base, text, s)]

LEMMA NotesUnique ==
  ASSUME NEW R, IsFiniteSet(R), \A r \in R : r \in Nat, NEW base, NEW text, NEW Q \in SUBSET R,
         NEW g, NEW h, Notes(g, base, text, R), Notes(h, base, text, Q)
  PROVE  \A s \in SUBSET Q : g[s] = h[s]
<1> DEFINE T == {s \in SUBSET Q : g[s] # h[s]}
<1> SUFFICES ASSUME T # {} PROVE FALSE
  OBVIOUS
<1>0. T \subseteq SUBSET R
  OBVIOUS
<1> HIDE DEF T
<1>1. PICK s \in T : \A u \in T : u \subseteq s => u = s
  BY <1>0, LeastSubset
<1>2. s \in SUBSET R /\ s \in SUBSET Q /\ g[s] # h[s]
  BY <1>1 DEF T
<1>3. g[s] = Noting(g, base, text, s) /\ h[s] = Noting(h, base, text, s)
  BY <1>2 DEF Notes
<1>4. s # {}
  BY <1>2, <1>3 DEF Noting
<1>5. Max(s) \in s /\ s \ {Max(s)} \subseteq s /\ s \ {Max(s)} # s
  BY <1>2, <1>4, LastTaken
<1>6. g[s \ {Max(s)}] = h[s \ {Max(s)}]
  BY <1>1, <1>2, <1>5 DEF T
<1> QED
  BY <1>2, <1>3, <1>4, <1>6 DEF Noting

LEMMA NotesExist ==
  ASSUME NEW R, IsFiniteSet(R), \A r \in R : r \in Nat, NEW base, NEW text
  PROVE  \E g : Notes(g, base, text, R)
<1> DEFINE T == {U \in SUBSET R : ~(\E g : Notes(g, base, text, U))}
<1> SUFFICES ASSUME T # {} PROVE FALSE
  OBVIOUS
<1>0. T \subseteq SUBSET R
  OBVIOUS
<1> HIDE DEF T
<1>1. PICK U \in T : \A V \in T : V \subseteq U => V = U
  BY <1>0, LeastSubset
<1>2. IsFiniteSet(U) /\ U \in SUBSET R /\ ~(\E g : Notes(g, base, text, U))
  BY <1>1, FS_Subset DEF T
<1> DEFINE G(V) == CHOOSE g : Notes(g, base, text, V)
           Shorter(V) == V \ {Max(V)}
           all == [s \in SUBSET U |-> G(s)[s]]
           h == [s \in SUBSET U |-> Noting(all, base, text, s)]
<1>3. \A V \in SUBSET U : V # U => Notes(G(V), base, text, V)
  BY <1>1, <1>2 DEF T
<1> HIDE DEF G
<1>4. ASSUME NEW s \in SUBSET U, s # {}
      PROVE  Max(s) \in s /\ Shorter(s) \in SUBSET U /\ Shorter(s) \in SUBSET s /\ Shorter(s) # U
  BY <1>2, <1>4, LastTaken
<1>5. ASSUME NEW V \in SUBSET U, V # U
      PROVE  h[V] = all[V]
  <2>1. Notes(G(V), base, text, V) /\ IsFiniteSet(V) /\ \A r \in V : r \in Nat
    BY <1>2, <1>3, <1>5, FS_Subset
  <2>2. G(V)[V] = Noting(G(V), base, text, V)
    BY <2>1 DEF Notes
  <2>3. ASSUME V # {} PROVE all[Shorter(V)] = G(V)[Shorter(V)]
    <3>1. Shorter(V) \in SUBSET V /\ Shorter(V) \in SUBSET U /\ Shorter(V) # U
      BY <1>4, <2>3
    <3> HIDE DEF Shorter
    <3>2. Notes(G(Shorter(V)), base, text, Shorter(V))
      BY <1>3, <3>1
    <3>3. G(V)[Shorter(V)] = G(Shorter(V))[Shorter(V)]
      BY <2>1, <3>1, <3>2, NotesUnique
    <3> QED
      BY <3>1, <3>3
  <2> QED
    BY <2>2, <2>3 DEF Noting
<1>6. \A s \in SUBSET U : Noting(all, base, text, s) = Noting(h, base, text, s)
  <2> SUFFICES ASSUME NEW s \in SUBSET U, s # {}
               PROVE  Noting(all, base, text, s) = Noting(h, base, text, s)
    BY DEF Noting
  <2>1. h[Shorter(s)] = all[Shorter(s)]
    BY <1>4, <1>5
  <2> HIDE DEF h, all
  <2> QED
    BY <2>1 DEF Noting
<1>7. Notes(h, base, text, U)
  BY <1>6 DEF Notes
<1> QED
  BY <1>2, <1>7
LEMMA NotedAllNotes ==
  ASSUME NEW base, NEW text \in Seq(Item)
  PROVE  \E g : Notes(g, base, text, 1..Len(text)) /\ NotedAll(base, text) = g[1..Len(text)]
<1> DEFINE R == 1..Len(text)
           h == CHOOSE g : Notes(g, base, text, R)
<1>1. DOMAIN text = R /\ Len(text) \in Nat
  OBVIOUS
<1>2. NotedAll(base, text) = h[R]
  BY <1>1 DEF NotedAll, FoldLeft, MapThenFoldSet, Notes, Noting
<1>3. IsFiniteSet(R) /\ \A r \in R : r \in Nat
  BY <1>1, FS_Interval
<1> HIDE DEF R
<1>4. \E g : Notes(g, base, text, R)
  BY <1>3, NotesExist
<1>5. Notes(h, base, text, R)
  BY <1>4
<1> QED
  BY <1>2, <1>5 DEF R

(* What a scope knows: each value has one placeholder, each placeholder    *)
(* one value, and a category's numbers run from 1 to the count of its      *)
(* values.                                                                 *)
Numbering(rev) ==
  /\ rev \in SUBSET (Value \X Placeholder) /\ IsFiniteSet(rev)
  /\ \A p \in rev : /\ p[2][1] = CategoryOf[p[1]]
                    /\ p[2][2] <= Cardinality({q \in rev : q[2][1] = p[2][1]})
  /\ \A p, q \in rev : p[1] = q[1] \/ p[2] = q[2] => p = q

LEMMA NotedNumbers ==
  ASSUME NEW rev, Numbering(rev), NEW v \in Value
  PROVE  /\ Numbering(Noted(rev, v)) /\ rev \subseteq Noted(rev, v)
         /\ \E p \in Noted(rev, v) : p[1] = v
         /\ \A p \in Noted(rev, v) : p \in rev \/ p[1] = v
<1>1. CASE \E p \in rev : p[1] = v
  BY <1>1 DEF Noted
<1>2. CASE ~ \E p \in rev : p[1] = v
  <2> DEFINE Of(s, d) == {q \in s : q[2][1] = d}
             c == CategoryOf[v]
             n == Cardinality(Of(rev, c))
             e == <<v, <<c, 1 + n>>>>
             new == rev \union {e}
  <2>1. Noted(rev, v) = new
    BY <1>2 DEF Noted, Numbered
  <2>2. /\ rev \in SUBSET (Value \X Placeholder) /\ IsFiniteSet(rev)
        /\ \A p \in rev : p[2][1] = CategoryOf[p[1]] /\ p[2][2] <= Cardinality(Of(rev, p[2][1]))
        /\ \A p, q \in rev : p[1] = q[1] \/ p[2] = q[2] => p = q
    BY DEF Numbering
  <2>3. \A d : IsFiniteSet(Of(rev, d)) /\ Cardinality(Of(rev, d)) \in Nat
    BY <2>2, FS_Subset, FS_CardinalityType
  <2>4. c \in Category /\ <<c, 1 + n>> \in Placeholder
    <3>1. c \in Category
      BY DEF Category
    <3>2. n \in Nat
      BY <2>3
    <3> HIDE DEF n, c
    <3>3. 1 + n \in Nat \ {0}
      BY <3>2
    <3> QED
      BY <3>1, <3>3 DEF Placeholder
  <2>5. new \in SUBSET (Value \X Placeholder) /\ IsFiniteSet(new)
    <3>1. e \in Value \X Placeholder
      BY <2>4
    <3> HIDE DEF e
    <3> QED
      BY <2>2, <3>1, FS_AddElement
  <2>6. e \notin rev /\ e[1] = v /\ e[2] = <<c, 1 + n>> /\ e[2][1] = c /\ e[2][2] = 1 + n
    BY <1>2
  <2>7. Of(new, c) = Of(rev, c) \union {e} /\ \A d : d # c => Of(new, d) = Of(rev, d)
    BY <2>6
  <2>8. n \in Nat /\ Cardinality(Of(new, c)) = n + 1
    <3>1. e \notin Of(rev, c)
      BY <2>6
    <3> HIDE DEF Of, e
    <3> QED
      BY <2>3, <2>7, <3>1, FS_AddElement
  <2>9. \A p \in rev : p[2][2] \in Nat /\ (p[2][1] = c => p[2][2] <= n)
    BY <2>2 DEF Placeholder
  <2> HIDE DEF Of, e, n, c
  <2>10. ASSUME NEW p \in new
         PROVE  p[2][1] = CategoryOf[p[1]] /\ p[2][2] <= Cardinality(Of(new, p[2][1]))
    <3>1. CASE p = e
      BY <2>6, <2>8, <3>1 DEF c
    <3>2. CASE p \in rev /\ p[2][1] = c
      <4>1. p[2][2] <= n /\ p[2][2] \in Nat
        BY <2>9, <3>2
      <4> QED
        BY <2>2, <2>8, <3>2, <4>1
    <3>3. CASE p \in rev /\ p[2][1] # c
      BY <2>2, <2>7, <3>3
    <3> QED
      BY <3>1, <3>2, <3>3
  <2>11. ASSUME NEW p \in new, NEW q \in new, p[1] = q[1] \/ p[2] = q[2]
         PROVE  p = q
    <3>1. \A x \in rev : x[1] # v
      BY <1>2
    <3>2. \A x \in rev : x[2] # e[2]
      <4> SUFFICES ASSUME NEW x \in rev, x[2] = e[2] PROVE FALSE
        OBVIOUS
      <4>1. x[2][1] = c /\ x[2][2] = 1 + n
        BY <2>6
      <4> QED
        BY <2>8, <2>9, <4>1
    <3> QED
      BY <2>2, <2>6, <2>11, <3>1, <3>2
  <2>12. Numbering(new)
    BY <2>5, <2>10, <2>11 DEF Numbering, Of
  <2> QED
    BY <2>1, <2>6, <2>12
<1> QED
  BY <1>1, <1>2

(* Noting a text keeps what was known and learns the text's values.        *)
LEMMA TextNoted ==
  ASSUME NEW rev, Numbering(rev), NEW text \in Seq(Item)
  PROVE  /\ Numbering(NotedAll(rev, text)) /\ rev \subseteq NotedAll(rev, text)
         /\ \A i \in 1..Len(text) : text[i] \in Value =>
              \E p \in NotedAll(rev, text) : p[1] = text[i]
         /\ \A p \in NotedAll(rev, text) : p \in rev \/ \E i \in 1..Len(text) : p[1] = text[i]
<1> DEFINE R == 1..Len(text)
<1>1. IsFiniteSet(R) /\ \A r \in R : r \in Nat
  <2>1. Len(text) \in Nat
    OBVIOUS
  <2> QED
    BY <2>1, FS_Interval
<1>2. PICK g : Notes(g, rev, text, R) /\ NotedAll(rev, text) = g[R]
  BY NotedAllNotes
<1> HIDE DEF R
<1> DEFINE Fine(s) ==
             /\ Numbering(g[s]) /\ rev \subseteq g[s]
             /\ \A i \in s : text[i] \in Value => \E p \in g[s] : p[1] = text[i]
             /\ \A p \in g[s] : p \in rev \/ \E i \in s : p[1] = text[i]
           T == {s \in SUBSET R : ~Fine(s)}
<1>3. T = {}
  <2> SUFFICES ASSUME T # {} PROVE FALSE
    OBVIOUS
  <2>0. T \subseteq SUBSET R
    OBVIOUS
  <2> HIDE DEF T
  <2>1. PICK s \in T : \A u \in T : u \subseteq s => u = s
    BY <1>1, <2>0, LeastSubset
  <2>2. s \in SUBSET R /\ ~Fine(s)
    BY <2>1 DEF T
  <2>3. g[s] = Noting(g, rev, text, s)
    BY <1>2, <2>2 DEF Notes
  <2>4. s # {}
    <3>1. ASSUME s = {} PROVE g[s] = rev
      BY <2>3, <3>1 DEF Noting
    <3> QED
      BY <2>2, <3>1
  <2> DEFINE m == Max(s)
             u == s \ {m}
  <2>5. m \in s /\ u \in SUBSET R /\ u \subseteq s /\ u # s /\ s = u \union {m}
    BY <1>1, <2>2, <2>4, LastTaken
  <2>6. Fine(u)
    BY <2>1, <2>5 DEF T
  <2>7. CASE text[m] \in Value
    <3>1. g[s] = Noted(g[u], text[m])
      BY <2>3, <2>4, <2>7 DEF Noting
    <3>2. Numbering(g[u])
      BY <2>6
    <3> HIDE DEF m, u
    <3>3. /\ Numbering(g[s]) /\ g[u] \subseteq g[s] /\ \E p \in g[s] : p[1] = text[m]
          /\ \A p \in g[s] : p \in g[u] \/ p[1] = text[m]
      BY <2>7, <3>1, <3>2, NotedNumbers
    <3>4. Fine(s)
      BY <2>5, <2>6, <3>3
    <3> QED
      BY <2>2, <3>4
  <2>8. CASE text[m] \notin Value
    <3>1. g[s] = g[u]
      BY <2>3, <2>4, <2>8 DEF Noting
    <3> HIDE DEF m, u
    <3>2. Fine(s)
      BY <2>5, <2>6, <2>8, <3>1
    <3> QED
      BY <2>2, <3>2
  <2> QED
    BY <2>7, <2>8
<1>4. Fine(R)
  BY <1>3
<1> QED
  BY <1>2, <1>4 DEF R
LEMMA RedactedText ==
  ASSUME NEW rev, Numbering(rev), NEW text \in Seq(Item),
         \A i \in 1..Len(text) : text[i] \in Value => \E p \in rev : p[1] = text[i]
  PROVE  /\ Redacted(rev, text) \in Seq(Item) /\ Len(Redacted(rev, text)) = Len(text)
         /\ \A i \in 1..Len(text) :
              IF text[i] \in Value
              THEN <<text[i], Redacted(rev, text)[i]>> \in rev /\ Redacted(rev, text)[i] \in Placeholder
              ELSE Redacted(rev, text)[i] = text[i]
<1> DEFINE out == Redacted(rev, text)
<1>1. ASSUME NEW i \in 1..Len(text), text[i] \in Value
      PROVE  <<text[i], out[i]>> \in rev /\ out[i] \in Placeholder
  <2>1. out[i] = PlaceholderOf(rev, text[i])
    BY <1>1 DEF Redacted
  <2>2. PICK p \in rev : p = CHOOSE q \in rev : q[1] = text[i]
    BY <1>1
  <2>3. p[1] = text[i] /\ p[2] = out[i]
    BY <1>1, <2>1, <2>2 DEF PlaceholderOf
  <2>4. p \in Value \X Placeholder
    BY DEF Numbering
  <2>5. p = <<p[1], p[2]>> /\ p[2] \in Placeholder
    BY <2>4
  <2> HIDE DEF out
  <2> QED
    BY <2>3, <2>5
<1>2. ASSUME NEW i \in 1..Len(text), text[i] \notin Value
      PROVE  out[i] = text[i]
  BY <1>2 DEF Redacted
<1>3. \A i \in 1..Len(text) : out[i] \in Item
  <2> SUFFICES ASSUME NEW i \in 1..Len(text) PROVE out[i] \in Item
    OBVIOUS
  <2>1. text[i] \in Item
    OBVIOUS
  <2> HIDE DEF out
  <2> QED
    BY <1>1, <1>2, <2>1 DEF Item
<1>4. out = [i \in 1..Len(text) |-> out[i]] /\ Len(text) \in Nat
  BY DEF Redacted
<1> HIDE DEF out
<1>5. out \in Seq(Item) /\ Len(out) = Len(text)
  BY <1>3, <1>4
<1> QED
  BY <1>1, <1>2, <1>5 DEF out

LEMMA RestoredText ==
  ASSUME NEW s, NEW text \in Seq(Item), Lives(s) => Numbering(scopes[s].reverse)
  PROVE  /\ Restored(s, text) \in Seq(Item) /\ Len(Restored(s, text)) = Len(text)
         /\ \A i \in 1..Len(text) :
              \/ Restored(s, text)[i] = text[i]
              \/ Lives(s) /\ <<Restored(s, text)[i], text[i]>> \in scopes[s].reverse
         /\ Lives(s) => \A i \in 1..Len(text) :
              /\ \A v : <<v, text[i]>> \in scopes[s].reverse => Restored(s, text)[i] = v
              /\ text[i] \notin Placeholder => Restored(s, text)[i] = text[i]
<1> DEFINE out == Restored(s, text)
<1>1. CASE ~Lives(s)
  BY <1>1 DEF Restored
<1>2. CASE Lives(s)
  <2>0. PICK rev : rev = scopes[s].reverse
    OBVIOUS
  <2>1. Numbering(rev)
    BY <1>2, <2>0
  <2>2. out = [i \in 1..Len(text) |->
                 IF \E p \in rev : p[2] = text[i]
                 THEN (CHOOSE p \in rev : p[2] = text[i])[1] ELSE text[i]]
    BY <1>2, <2>0 DEF Restored
  <2> HIDE DEF out
  <2>3. \A p \in rev : p = <<p[1], p[2]>> /\ p[1] \in Value /\ p[2] \in Placeholder
    <3> SUFFICES ASSUME NEW p \in rev PROVE p = <<p[1], p[2]>> /\ p[1] \in Value /\ p[2] \in Placeholder
      OBVIOUS
    <3>1. p \in Value \X Placeholder
      BY <2>1 DEF Numbering
    <3> QED
      BY <3>1
  <2>4. ASSUME NEW i \in 1..Len(text), NEW p \in rev, p[2] = text[i]
        PROVE  out[i] = p[1]
    <3>1. PICK q \in rev : q = CHOOSE r \in rev : r[2] = text[i]
      BY <2>4
    <3>2. q[2] = text[i] /\ out[i] = q[1]
      BY <2>2, <2>4, <3>1
    <3>3. q = p
      BY <2>1, <2>4, <3>2 DEF Numbering
    <3> QED
      BY <3>2, <3>3
  <2>5. ASSUME NEW i \in 1..Len(text), ~ \E p \in rev : p[2] = text[i]
        PROVE  out[i] = text[i]
    BY <2>2, <2>5
  <2>6. \A i \in 1..Len(text) : \/ out[i] = text[i]
                                \/ <<out[i], text[i]>> \in rev
    BY <2>3, <2>4, <2>5
  <2>7. \A i \in 1..Len(text) : out[i] \in Item
    <3> SUFFICES ASSUME NEW i \in 1..Len(text) PROVE out[i] \in Item
      OBVIOUS
    <3>1. text[i] \in Item
      OBVIOUS
    <3> QED
      BY <2>3, <2>4, <2>5, <3>1 DEF Item
  <2>8. out = [i \in 1..Len(text) |-> out[i]] /\ Len(text) \in Nat
    BY <2>2
  <2>9. out \in Seq(Item) /\ Len(out) = Len(text)
    BY <2>7, <2>8
  <2>10. \A i \in 1..Len(text) : text[i] \notin Placeholder => out[i] = text[i]
    BY <2>3, <2>5
  <2>11. \A i \in 1..Len(text) : \A v : <<v, text[i]>> \in rev => out[i] = v
    <3> SUFFICES ASSUME NEW i \in 1..Len(text), NEW v, <<v, text[i]>> \in rev PROVE out[i] = v
      OBVIOUS
    <3>1. <<v, text[i]>>[1] = v /\ <<v, text[i]>>[2] = text[i]
      OBVIOUS
    <3> QED
      BY <2>4, <3>1
  <2> QED
    BY <1>2, <2>0, <2>6, <2>9, <2>10, <2>11 DEF out
<1> QED
  BY <1>1, <1>2
-----------------------------------------------------------------------------
(* A part that was sent, q, hides the values of the part p it stands for,  *)
(* and a scope that is still held knows what each of them became.          *)
Conceals(p, q) ==
  /\ q \in Part /\ q.block = p.block
  /\ ~p.block => q = p
  /\ p.block => /\ Len(q.text) = Len(p.text)
                /\ \A i \in 1..Len(p.text) : IF p.text[i] \in Value THEN q.text[i] \in Placeholder
                                             ELSE q.text[i] = p.text[i]
Known(p, q, rev) ==
  p.block => \A i \in 1..Len(p.text) : p.text[i] \in Value => <<p.text[i], q.text[i]>> \in rev

Asked(asked, v) == \E k \in 1..Len(asked) : \E i \in 1..Len(asked[k].text) : asked[k].text[i] = v
NoneOfOnes(asked) ==
  \A k \in 1..Len(asked) : \A i \in 1..Len(asked[k].text) : asked[k].text[i] \notin Placeholder
OwnOnly(r) ==
  \A j \in 1..Len(r.got) : \A i \in 1..Len(r.got[j]) :
    r.got[j][i] \in Value => Asked(r.asked, r.got[j][i])
EchoInv(r) == r.live /\ NoneOfOnes(r.asked) => Echoed(r)

(* A request r whose scope is sc, or NoScope once it was dropped.          *)
RequestInv(r, sc) ==
  /\ (r.at = "asked" => ~r.stream) /\ (r.at = "streaming" => r.stream)
  /\ Len(r.sent) <= Len(r.asked)
  /\ \A k \in 1..Len(r.sent) : Conceals(r.asked[k], r.sent[k])
  /\ sc # NoScope =>
       /\ Numbering(sc.reverse)
       /\ \A k \in 1..Len(r.sent) : Known(r.asked[k], r.sent[k], sc.reverse)
       /\ \A p \in sc.reverse : Asked(r.asked, p[1])
  /\ Len(r.got) = Len(r.echo) /\ OwnOnly(r) /\ EchoInv(r)

ProxyInv ==
  /\ ProxyTypeOK
  /\ \A c \in Caller : req[c] # Idle =>
       req[c].scope <= used /\ RequestInv(req[c], scopes[req[c].scope])
  /\ \A c, d \in Caller : c # d /\ req[c] # Idle /\ req[d] # Idle => req[c].scope # req[d].scope
  /\ ScopesLetGo

LEMMA RequestFields ==
  ASSUME ProxyTypeOK, NEW c \in Caller, req[c] # Idle
  PROVE  /\ req[c] \in Request /\ req[c].at # "idle"
         /\ req[c].asked \in Requests /\ req[c].asked \in Seq(Part) /\ req[c].sent \in Seq(Part)
         /\ req[c].scope \in 1..MaxScopes /\ req[c].got \in Seq(Seq(Item))
         /\ req[c].echo \in Seq(Nat \X Nat) /\ req[c].stream \in BOOLEAN /\ req[c].live \in BOOLEAN
         /\ scopes[req[c].scope] \in Scope \union {NoScope}
<1>1. req[c] \in Request
  BY DEF ProxyTypeOK
<1>2. req[c].scope \in 1..MaxScopes /\ req[c].asked \in Requests
  BY <1>1 DEF Request
<1>3. scopes[req[c].scope] \in Scope \union {NoScope}
  BY <1>2 DEF ProxyTypeOK
<1>4. req[c].asked \in Seq(Part)
  BY <1>2, ProxyAssumption
<1> QED
  BY <1>1, <1>2, <1>3, <1>4 DEF Request
(* What a step that concerns one request, and its scope, must show.        *)
LEMMA OneRequest ==
  ASSUME ProxyInv, NEW c \in Caller, req[c] # Idle, NEW r \in Request, NEW sc \in Scope \union {NoScope},
         r.scope = req[c].scope, RequestInv(r, sc),
         req' = [req EXCEPT ![c] = r], scopes' = [scopes EXCEPT ![r.scope] = sc],
         used' = used, now' = now, stray' \in {stray, stray \union {r.scope}},
         sc # NoScope => scopes[r.scope] # NoScope,
         ~Preserve /\ sc # NoScope =>
           r.scope \in stray' \/ r.at \in {"redacting", "asked", "streaming"}
  PROVE  ProxyInv'
<1> DEFINE s == r.scope
<1>0. ProxyTypeOK
  BY DEF ProxyInv
<1>1. s \in 1..MaxScopes /\ s <= used /\ used \in Nat
  BY <1>0, RequestFields DEF ProxyInv, ProxyTypeOK
<1>2. /\ req'[c] = r /\ scopes'[s] = sc /\ r # Idle
      /\ \A d \in Caller : d # c => req'[d] = req[d]
      /\ \A t \in 1..MaxScopes : t # s => scopes'[t] = scopes[t]
  BY <1>0, <1>1 DEF ProxyTypeOK, Request, Idle
<1>3. ProxyTypeOK'
  <2>1. req' \in [Caller -> {Idle} \union Request]
    BY <1>0 DEF ProxyTypeOK
  <2>2. scopes' \in [1..MaxScopes -> Scope \union {NoScope}]
    BY <1>0 DEF ProxyTypeOK
  <2>3. stray' \subseteq 1..used'
    BY <1>0, <1>1 DEF ProxyTypeOK
  <2>4. \A t \in 1..MaxScopes : scopes'[t] # NoScope => t <= used'
    BY <1>0, <1>1, <1>2 DEF ProxyTypeOK
  <2> QED
    BY <1>0, <2>1, <2>2, <2>3, <2>4 DEF ProxyTypeOK
<1>4. \A d, e \in Caller : d # e /\ req'[d] # Idle /\ req'[e] # Idle => req'[d].scope # req'[e].scope
  BY <1>2 DEF ProxyInv
<1>5. ASSUME NEW d \in Caller, req'[d] # Idle
      PROVE  req'[d].scope <= used' /\ RequestInv(req'[d], scopes'[req'[d].scope])
  <2>1. CASE d = c
    BY <1>1, <1>2, <2>1
  <2>2. CASE d # c
    <3>1. req'[d] = req[d] /\ req[d] # Idle /\ req[d].scope # s /\ req[d].scope \in 1..MaxScopes
      BY <1>0, <1>2, <1>5, <2>2, RequestFields DEF ProxyInv
    <3>2. scopes'[req'[d].scope] = scopes[req[d].scope]
      BY <1>2, <3>1
    <3>3. req[d].scope <= used /\ RequestInv(req[d], scopes[req[d].scope])
      BY <3>1 DEF ProxyInv
    <3> QED
      BY <3>1, <3>2, <3>3
  <2> QED
    BY <2>1, <2>2
<1>6. ScopesLetGo'
  <2> SUFFICES ASSUME ~Preserve, NEW t \in 1..MaxScopes, scopes'[t] # NoScope
               PROVE  t \in stray' \/ \E d \in Caller : Busy(d)' /\ req'[d].scope = t
    BY DEF ScopesLetGo
  <2>1. CASE t = s
    BY <1>2, <2>1 DEF Busy
  <2>2. CASE t # s
    <3>1. scopes[t] # NoScope
      BY <1>2, <2>2
    <3>2. CASE t \in stray
      BY <3>2
    <3>3. CASE \E d \in Caller : Busy(d) /\ req[d].scope = t
      <4>1. PICK d \in Caller : Busy(d) /\ req[d].scope = t
        BY <3>3
      <4>2. req'[d] = req[d]
        BY <1>2, <2>2, <4>1
      <4> QED
        BY <4>1, <4>2 DEF Busy
    <3> QED
      BY <3>1, <3>2, <3>3 DEF ProxyInv, ScopesLetGo
  <2> QED
    BY <2>1, <2>2
<1> QED
  BY <1>3, <1>4, <1>5, <1>6 DEF ProxyInv

(* A request may lose its scope at any time.                               *)
LEMMA ScopeLost ==
  ASSUME NEW r, NEW sc, RequestInv(r, sc)
  PROVE  RequestInv(r, NoScope)
BY DEF RequestInv

LEMMA CreateStep ==
  ASSUME ProxyInv, NEW c \in Caller, NEW asked \in Requests, NEW stream \in BOOLEAN,
         Create(c, asked, stream)
  PROVE  ProxyInv'
<1> DEFINE s == used + 1
           r == [at |-> "redacting", stream |-> stream, asked |-> asked, sent |-> <<>>,
                 scope |-> s, got |-> <<>>, echo |-> <<>>, live |-> TRUE]
           sc == [born |-> now, reverse |-> {}]
<1>0. ProxyTypeOK
  BY DEF ProxyInv
<1>1. /\ used' = s /\ used < MaxScopes /\ scopes' = [scopes EXCEPT ![s] = sc]
      /\ req' = [req EXCEPT ![c] = r] /\ now' = now /\ stray' = stray
      /\ req[c].at \in {"idle", "returned", "raised"}
  BY DEF Create, FreshScope
<1>2. used \in Nat /\ MaxScopes \in Nat /\ s \in 1..MaxScopes /\ now \in Nat
  BY <1>0, <1>1, ProxyAssumption DEF ProxyTypeOK
<1>3. sc \in Scope
  BY <1>2 DEF Scope
<1>4. asked \in Seq(Part) /\ Len(asked) \in Nat
  BY ProxyAssumption
<1>5. r \in Request
  <2>1. <<>> \in Seq(Part) /\ <<>> \in Seq(Seq(Item)) /\ <<>> \in Seq(Nat)
    OBVIOUS
  <2> QED
    BY <1>2, <2>1 DEF Request
<1>6. /\ req'[c] = r /\ scopes'[s] = sc /\ r # Idle
      /\ \A d \in Caller : d # c => req'[d] = req[d]
      /\ \A t \in 1..MaxScopes : t # s => scopes'[t] = scopes[t]
  BY <1>0, <1>1, <1>2 DEF ProxyTypeOK, Idle
<1>7. RequestInv(r, sc)
  <2>1. Numbering({})
    BY FS_EmptySet DEF Numbering
  <2>2. Len(<<>>) = 0
    OBVIOUS
  <2> QED
    BY <1>4, <2>1, <2>2 DEF RequestInv, OwnOnly, EchoInv, Echoed
<1> HIDE DEF r, sc
<1>8. ProxyTypeOK'
  <2>1. req' \in [Caller -> {Idle} \union Request]
    BY <1>0, <1>1, <1>5 DEF ProxyTypeOK
  <2>2. scopes' \in [1..MaxScopes -> Scope \union {NoScope}]
    BY <1>0, <1>1, <1>3 DEF ProxyTypeOK
  <2>3. stray' \subseteq 1..used' /\ used' \in 0..MaxScopes /\ now' \in 0..MaxNow
    BY <1>0, <1>1, <1>2 DEF ProxyTypeOK
  <2>4. \A t \in 1..MaxScopes : scopes'[t] # NoScope => t <= used'
    BY <1>0, <1>1, <1>2, <1>6 DEF ProxyTypeOK
  <2> QED
    BY <2>1, <2>2, <2>3, <2>4 DEF ProxyTypeOK
<1>9. r.scope = s
  BY DEF r
<1>10. ASSUME NEW d \in Caller, d # c, req[d] # Idle
       PROVE  /\ req'[d] = req[d] /\ req[d].scope <= used' /\ req[d].scope # s
              /\ RequestInv(req[d], scopes'[req[d].scope])
  <2>1. req[d].scope <= used /\ req[d].scope \in 1..MaxScopes
    BY <1>0, <1>10, RequestFields DEF ProxyInv
  <2>2. req[d].scope # s /\ req[d].scope <= s
    BY <1>2, <2>1
  <2>3. scopes'[req[d].scope] = scopes[req[d].scope]
    BY <1>6, <2>1, <2>2
  <2>4. RequestInv(req[d], scopes[req[d].scope])
    BY <1>10 DEF ProxyInv
  <2> QED
    BY <1>1, <1>6, <1>10, <2>2, <2>3, <2>4
<1>11. ASSUME NEW d \in Caller, req'[d] # Idle
       PROVE  req'[d].scope <= used' /\ RequestInv(req'[d], scopes'[req'[d].scope])
  <2>1. CASE d = c
    BY <1>1, <1>2, <1>6, <1>7, <1>9, <2>1
  <2>2. CASE d # c
    BY <1>6, <1>10, <1>11, <2>2
  <2> QED
    BY <2>1, <2>2
<1>12. \A d, e \in Caller : d # e /\ req'[d] # Idle /\ req'[e] # Idle => req'[d].scope # req'[e].scope
  BY <1>6, <1>9, <1>10 DEF ProxyInv
<1>13. ScopesLetGo'
  <2> SUFFICES ASSUME ~Preserve, NEW t \in 1..MaxScopes, scopes'[t] # NoScope
               PROVE  t \in stray' \/ \E d \in Caller : Busy(d)' /\ req'[d].scope = t
    BY DEF ScopesLetGo
  <2>1. CASE t = s
    BY <1>6, <2>1 DEF Busy, r
  <2>2. CASE t # s
    <3>1. scopes[t] # NoScope
      BY <1>6, <2>2
    <3>2. CASE t \in stray
      BY <1>1, <3>2
    <3>3. CASE \E d \in Caller : Busy(d) /\ req[d].scope = t
      <4>1. PICK d \in Caller : Busy(d) /\ req[d].scope = t
        BY <3>3
      <4>2. req'[d] = req[d]
        BY <1>1, <1>6, <4>1 DEF Busy
      <4> QED
        BY <4>1, <4>2 DEF Busy
    <3> QED
      BY <3>1, <3>2, <3>3 DEF ProxyInv, ScopesLetGo
  <2> QED
    BY <2>1, <2>2
<1> QED
  BY <1>8, <1>11, <1>12, <1>13 DEF ProxyInv

LEMMA RedactStep ==
  ASSUME ProxyInv, NEW c \in Caller, Redact(c)
  PROVE  ProxyInv'
<1> DEFINE r == req[c]
           s == r.scope
           part == r.asked[Len(r.sent) + 1]
<1>0. ProxyTypeOK
  BY DEF ProxyInv
<1>1. /\ r.at = "redacting" /\ Len(r.sent) < Len(r.asked) /\ used' = used /\ now' = now
      /\ stray' = stray
  BY DEF Redact
<1>2. r # Idle /\ r \in Request /\ r.asked \in Seq(Part) /\ r.sent \in Seq(Part) /\ s \in 1..MaxScopes
  BY <1>0, <1>1, RequestFields DEF Idle
<1>3. RequestInv(r, scopes[s]) /\ scopes[s] \in Scope \union {NoScope}
  BY <1>0, <1>2, RequestFields DEF ProxyInv
<1>4. part \in Part /\ part.text \in Seq(Item) /\ Len(r.sent) \in Nat /\ Len(r.asked) \in Nat
  <2>1. Len(r.sent) + 1 \in 1..Len(r.asked)
    BY <1>1, <1>2
  <2>2. part \in Part
    BY <1>2, <2>1
  <2> QED
    BY <1>2, <2>2 DEF Part
<1>5. ASSUME NEW q \in Part, NEW sc \in Scope \union {NoScope},
             req' = [req EXCEPT ![c].sent = Append(@, q)], scopes' = [scopes EXCEPT ![s] = sc],
             Conceals(part, q), sc # NoScope => scopes[s] # NoScope,
             sc # NoScope => /\ Numbering(sc.reverse) /\ scopes[s].reverse \subseteq sc.reverse
                             /\ Known(part, q, sc.reverse)
                             /\ \A p \in sc.reverse : Asked(r.asked, p[1])
      PROVE  ProxyInv'
  <2> DEFINE more == Append(r.sent, q)
             next == [r EXCEPT !.sent = more]
  <2>1. /\ more \in Seq(Part) /\ Len(more) = Len(r.sent) + 1
        /\ \A k \in 1..Len(r.sent) : more[k] = r.sent[k]
        /\ more[Len(r.sent) + 1] = q
    BY <1>2
  <2> HIDE DEF more
  <2>2. /\ next \in Request /\ next.sent = more /\ next.scope = s /\ next.asked = r.asked
        /\ next.at = "redacting" /\ next.got = r.got /\ next.echo = r.echo /\ next.live = r.live
        /\ next.stream = r.stream
    BY <1>1, <1>2, <2>1 DEF Request
  <2>3. req' = [req EXCEPT ![c] = next]
    BY <1>0, <1>5 DEF ProxyTypeOK, more
  <2> HIDE DEF next
  <2>4. \A k \in 1..Len(more) : k \in 1..Len(r.sent) \/ k = Len(r.sent) + 1
    BY <1>4, <2>1
  <2>5. \A k \in 1..Len(more) : Conceals(r.asked[k], more[k])
    BY <1>3, <1>5, <2>1, <2>4 DEF RequestInv
  <2>6. ASSUME sc # NoScope
        PROVE  \A k \in 1..Len(more) : Known(r.asked[k], more[k], sc.reverse)
    <3> SUFFICES ASSUME NEW k \in 1..Len(more) PROVE Known(r.asked[k], more[k], sc.reverse)
      OBVIOUS
    <3>1. CASE k \in 1..Len(r.sent)
      <4>1. Known(r.asked[k], r.sent[k], scopes[s].reverse)
        BY <1>3, <1>5, <2>6, <3>1 DEF RequestInv
      <4> QED
        BY <1>5, <2>1, <2>6, <3>1, <4>1 DEF Known
    <3>2. CASE k = Len(r.sent) + 1
      BY <1>5, <2>1, <2>6, <3>2
    <3> QED
      BY <2>4, <3>1, <3>2
  <2>7. RequestInv(next, sc)
    <3>1. next.at # "asked" /\ Len(next.sent) <= Len(next.asked)
      BY <1>1, <1>4, <2>1, <2>2
    <3>2. \A k \in 1..Len(next.sent) : Conceals(next.asked[k], next.sent[k])
      BY <2>2, <2>5
    <3>3. sc # NoScope =>
            /\ Numbering(sc.reverse)
            /\ \A k \in 1..Len(next.sent) : Known(next.asked[k], next.sent[k], sc.reverse)
            /\ \A p \in sc.reverse : Asked(next.asked, p[1])
      BY <1>5, <2>2, <2>6
    <3>4. Len(r.got) = Len(r.echo) /\ OwnOnly(r) /\ EchoInv(r)
      BY <1>3 DEF RequestInv
    <3>5. Len(next.got) = Len(next.echo) /\ OwnOnly(next) /\ EchoInv(next)
      BY <2>2, <3>4 DEF OwnOnly, EchoInv, Echoed
    <3> QED
      BY <2>2, <3>1, <3>2, <3>3, <3>5 DEF RequestInv
  <2> QED
    BY <1>1, <1>2, <1>5, <2>2, <2>3, <2>7, OneRequest
<1>6. CASE part.block /\ HasValue(part.text)
  <2> DEFINE rev == NotedAll(scopes[s].reverse, part.text)
             q == [part EXCEPT !.text = Redacted(rev, part.text)]
             sc == [scopes[s] EXCEPT !.reverse = rev]
  <2>1. /\ Lives(s) /\ scopes' = [scopes EXCEPT ![s].reverse = rev]
        /\ req' = [req EXCEPT ![c].sent = Append(@, q)]
    BY <1>6 DEF Redact
  <2>2. scopes[s] # NoScope /\ scopes[s] \in Scope /\ Numbering(scopes[s].reverse)
    BY <1>3, <2>1 DEF Lives, RequestInv
  <2>3. /\ Numbering(rev) /\ scopes[s].reverse \subseteq rev
        /\ \A i \in 1..Len(part.text) : part.text[i] \in Value => \E p \in rev : p[1] = part.text[i]
        /\ \A p \in rev : p \in scopes[s].reverse \/ \E i \in 1..Len(part.text) : p[1] = part.text[i]
    <3>1. PICK base : base = scopes[s].reverse
      OBVIOUS
    <3>2. PICK words : words = part.text
      OBVIOUS
    <3>3. Numbering(base) /\ words \in Seq(Item)
      BY <1>4, <2>2, <3>1, <3>2
    <3>4. LET after == NotedAll(base, words) IN
          /\ Numbering(after) /\ base \subseteq after
          /\ \A i \in 1..Len(words) : words[i] \in Value => \E p \in after : p[1] = words[i]
          /\ \A p \in after : p \in base \/ \E i \in 1..Len(words) : p[1] = words[i]
      BY <3>3, TextNoted
    <3>5. rev = NotedAll(base, words)
      BY <3>1, <3>2
    <3> HIDE DEF rev
    <3> QED
      BY <3>1, <3>2, <3>4, <3>5
  <2> HIDE DEF rev
  <2> DEFINE out == Redacted(rev, part.text)
  <2>4. /\ out \in Seq(Item) /\ Len(out) = Len(part.text)
        /\ \A i \in 1..Len(part.text) :
              IF part.text[i] \in Value
              THEN <<part.text[i], out[i]>> \in rev /\ out[i] \in Placeholder
              ELSE out[i] = part.text[i]
    <3>1. PICK all : all = rev
      OBVIOUS
    <3>2. PICK words : words = part.text
      OBVIOUS
    <3>3. /\ Numbering(all) /\ words \in Seq(Item)
          /\ \A i \in 1..Len(words) : words[i] \in Value => \E p \in all : p[1] = words[i]
      BY <1>4, <2>3, <3>1, <3>2
    <3>4. /\ Redacted(all, words) \in Seq(Item) /\ Len(Redacted(all, words)) = Len(words)
          /\ \A i \in 1..Len(words) :
               IF words[i] \in Value
               THEN <<words[i], Redacted(all, words)[i]>> \in all
                    /\ Redacted(all, words)[i] \in Placeholder
               ELSE Redacted(all, words)[i] = words[i]
      BY <3>3, RedactedText
    <3>5. out = Redacted(all, words)
      BY <3>1, <3>2
    <3> HIDE DEF out
    <3> QED
      BY <3>1, <3>2, <3>4, <3>5
  <2> HIDE DEF out
  <2>5. q \in Part /\ q.text = out /\ q.block = part.block
    BY <1>4, <2>4 DEF Part, out
  <2>6. sc \in Scope /\ sc.reverse = rev
    BY <2>2, <2>3 DEF Scope, Numbering
  <2> HIDE DEF q
  <2>7. Conceals(part, q) /\ Known(part, q, rev)
    BY <1>6, <2>4, <2>5 DEF Conceals, Known
  <2>8. \A p \in rev : Asked(r.asked, p[1])
    <3>1. \A p \in scopes[s].reverse : Asked(r.asked, p[1])
      BY <1>3, <2>2 DEF RequestInv
    <3>2. Len(r.sent) + 1 \in 1..Len(r.asked)
      BY <1>1, <1>4
    <3>3. \A i \in 1..Len(part.text) : Asked(r.asked, part.text[i])
      BY <3>2 DEF Asked
    <3> QED
      BY <2>3, <3>1, <3>3
  <2>9. scopes' = [scopes EXCEPT ![s] = sc]
    BY <1>0, <1>2, <2>1 DEF ProxyTypeOK
  <2> HIDE DEF sc
  <2>10. sc \in Scope \union {NoScope}
    BY <2>6
  <2> QED
    BY <1>5, <2>1, <2>2, <2>3, <2>5, <2>6, <2>7, <2>8, <2>9, <2>10
<1>7. CASE ~(part.block /\ HasValue(part.text))
  <2>1. req' = [req EXCEPT ![c].sent = Append(@, part)] /\ scopes' = scopes
    BY <1>7 DEF Redact
  <2>2. scopes' = [scopes EXCEPT ![s] = scopes[s]]
    BY <1>0, <1>2, <2>1 DEF ProxyTypeOK
  <2>3. Conceals(part, part) /\ \A rev : Known(part, part, rev)
    BY <1>4, <1>7 DEF Conceals, Known, HasValue
  <2>4. scopes[s] # NoScope => /\ Numbering(scopes[s].reverse)
                               /\ \A p \in scopes[s].reverse : Asked(r.asked, p[1])
    BY <1>3 DEF RequestInv
  <2> HIDE DEF r, part
  <2> QED
    BY <1>3, <1>4, <1>5, <2>1, <2>2, <2>3, <2>4
<1> QED
  BY <1>6, <1>7
(* What Claude says in an answer or in a delta: items of a text that was   *)
(* sent, from one of them on, of which a delta may cut the first and last. *)
Spoke(r, k, from, text) ==
  /\ k \in Nat /\ from \in Nat \ {0} /\ text \in Seq(Item)
  /\ k = 0 => \A i \in 1..Len(text) : text[i] \in Placeholder \union {Torn}
  /\ k # 0 =>
       /\ k \in 1..Len(r.sent)
       /\ \A i \in 1..Len(text) :
            /\ from + i - 1 \in 1..Len(r.sent[k].text)
            /\ \/ text[i] = r.sent[k].text[from + i - 1]
               \/ text[i] = Torn /\ r.stream /\ i \in {1, Len(text)}
       /\ r.stream \/ (from = 1 /\ Len(text) = Len(r.sent[k].text))

LEMMA SaidText ==
  ASSUME ProxyInv, NEW c \in Caller, req[c] # Idle, NEW k \in 0..Len(req[c].sent), NEW text,
         Says(c, k, text)
  PROVE  /\ k \in Nat /\ text \in Seq(Item)
         /\ k # 0 => k \in 1..Len(req[c].sent) /\ text = req[c].sent[k].text
         /\ k = 0 => \A i \in 1..Len(text) : text[i] \in Placeholder
<1>1. ProxyTypeOK
  BY DEF ProxyInv
<1>2. req[c].sent \in Seq(Part) /\ Len(req[c].sent) \in Nat
  BY <1>1, RequestFields
<1>3. k # 0 => k \in 1..Len(req[c].sent) /\ text = req[c].sent[k].text
  BY <1>2 DEF Says
<1>4. k = 0 => \E p \in Placeholder : text = <<p>>
  BY <1>2, ProxyAssumption DEF Says
<1>5. CASE k # 0
  <2>1. req[c].sent[k] \in Part
    BY <1>2, <1>3, <1>5
  <2> QED
    BY <1>2, <1>3, <1>5, <2>1 DEF Part
<1>6. CASE k = 0
  <2>1. PICK p \in Placeholder : text = <<p>>
    BY <1>4, <1>6
  <2>2. p \in Item
    BY DEF Item
  <2> QED
    BY <1>6, <2>1, <2>2
<1> QED
  BY <1>5, <1>6

LEMMA DeltaSpoke ==
  ASSUME ProxyInv, NEW c \in Caller, req[c] # Idle, req[c].stream,
         NEW k \in 0..Len(req[c].sent), NEW text, Says(c, k, text),
         NEW from \in 1..Len(text), NEW to \in 1..Len(text), from <= to,
         NEW cut \in SUBSET {from, to}
  PROVE  Spoke(req[c], k, from, Delta(text, from, to, cut))
<1> DEFINE n == to - from + 1
           d == Delta(text, from, to, cut)
<1>1. /\ k \in Nat /\ text \in Seq(Item)
      /\ k # 0 => k \in 1..Len(req[c].sent) /\ text = req[c].sent[k].text
      /\ k = 0 => \A i \in 1..Len(text) : text[i] \in Placeholder
  BY SaidText
<1>2. Len(text) \in Nat /\ from \in Nat \ {0} /\ to \in Nat /\ n \in Nat
  BY <1>1
<1>3. ASSUME NEW i \in 1..n
      PROVE  /\ from + i - 1 \in 1..Len(text)
             /\ (from + i - 1 \in cut => i \in {1, n})
  BY <1>2
<1>4. ASSUME NEW i \in 1..n
      PROVE  d[i] \in Item /\ (d[i] = text[from + i - 1] \/ (d[i] = Torn /\ i \in {1, n}))
  <2>1. text[from + i - 1] \in Item /\ Torn \in Item
    BY <1>1, <1>3 DEF Item
  <2>2. d[i] = IF from + i - 1 \in cut /\ text[from + i - 1] \in Placeholder THEN Torn
               ELSE text[from + i - 1]
    BY DEF Delta
  <2> QED
    BY <1>3, <2>1, <2>2
<1>5. d \in Seq(Item) /\ Len(d) = n
  <2>1. d = [i \in 1..n |-> d[i]]
    BY DEF Delta
  <2>2. \A i \in 1..n : d[i] \in Item
    BY <1>4
  <2> HIDE DEF d, n
  <2>3. n \in Nat
    BY <1>2
  <2> QED
    BY <2>1, <2>2, <2>3
<1> HIDE DEF d, n
<1>6. k = 0 => \A i \in 1..Len(d) : d[i] \in Placeholder \union {Torn}
  BY <1>1, <1>3, <1>4, <1>5
<1> QED
  BY <1>1, <1>2, <1>3, <1>4, <1>5, <1>6 DEF Spoke, d

(* What comes back to a caller is its own, and what it sent if the scope   *)
(* was there all the time.                                                 *)
LEMMA GivenBack ==
  ASSUME ProxyInv, NEW c \in Caller, req[c] # Idle, NEW k, NEW from, NEW text,
         Spoke(req[c], k, from, text)
  PROVE  /\ Given(c, k, from, text) \in Request
         /\ \A f \in {"at", "stream", "asked", "sent", "scope"} : Given(c, k, from, text)[f] = req[c][f]
         /\ RequestInv(Given(c, k, from, text), scopes[req[c].scope])
<1> DEFINE r == req[c]
           s == r.scope
           back == Restored(s, text)
           next == Given(c, k, from, text)
           got == Append(r.got, back)
           echo == Append(r.echo, <<k, from>>)
<1>0. ProxyTypeOK
  BY DEF ProxyInv
<1>1. /\ r \in Request /\ r.asked \in Seq(Part) /\ r.sent \in Seq(Part) /\ s \in 1..MaxScopes
      /\ r.got \in Seq(Seq(Item)) /\ r.echo \in Seq(Nat \X Nat) /\ r.live \in BOOLEAN
  BY <1>0, RequestFields
<1>2. RequestInv(r, scopes[s])
  BY DEF ProxyInv
<1>3. Lives(s) => scopes[s] # NoScope /\ Numbering(scopes[s].reverse)
  BY <1>2 DEF Lives, RequestInv
<1>4. /\ k \in Nat /\ from \in Nat \ {0} /\ (k = 0 => \A i \in 1..Len(text) : text[i] \in Placeholder \union {Torn})
      /\ k # 0 => k \in 1..Len(r.sent) /\ k \in 1..Len(r.asked)
  <2>1. Len(r.sent) \in Nat /\ Len(r.asked) \in Nat /\ Len(r.sent) <= Len(r.asked)
    BY <1>1, <1>2 DEF RequestInv
  <2> QED
    BY <2>1 DEF Spoke
<1>5. text \in Seq(Item)
  BY DEF Spoke
<1>6. /\ back \in Seq(Item) /\ Len(back) = Len(text)
      /\ \A i \in 1..Len(text) :
           back[i] = text[i] \/ (Lives(s) /\ <<back[i], text[i]>> \in scopes[s].reverse)
      /\ Lives(s) => \A i \in 1..Len(text) :
              /\ \A v : <<v, text[i]>> \in scopes[s].reverse => back[i] = v
              /\ text[i] \notin Placeholder => back[i] = text[i]
  <2>1. PICK t : t = s
    OBVIOUS
  <2>2. Lives(t) => Numbering(scopes[t].reverse)
    BY <1>3, <2>1
  <2>3. /\ Restored(t, text) \in Seq(Item) /\ Len(Restored(t, text)) = Len(text)
        /\ \A i \in 1..Len(text) :
              \/ Restored(t, text)[i] = text[i]
              \/ Lives(t) /\ <<Restored(t, text)[i], text[i]>> \in scopes[t].reverse
        /\ Lives(t) => \A i \in 1..Len(text) :
              /\ \A v : <<v, text[i]>> \in scopes[t].reverse => Restored(t, text)[i] = v
              /\ text[i] \notin Placeholder => Restored(t, text)[i] = text[i]
    BY <1>5, <2>2, RestoredText
  <2> QED
    BY <2>1, <2>3
<1> HIDE DEF back
<1>7. /\ got \in Seq(Seq(Item)) /\ Len(got) = Len(r.got) + 1
      /\ \A j \in 1..Len(r.got) : got[j] = r.got[j]
      /\ got[Len(r.got) + 1] = back
  BY <1>1, <1>6
<1>8. /\ echo \in Seq(Nat \X Nat) /\ Len(echo) = Len(r.echo) + 1
      /\ \A j \in 1..Len(r.echo) : echo[j] = r.echo[j]
      /\ echo[Len(r.echo) + 1] = <<k, from>>
  BY <1>1, <1>4
<1>9. next = [r EXCEPT !.got = got, !.echo = echo, !.live = @ /\ Lives(s)]
  BY DEF Given, back
<1> HIDE DEF got, echo, next
<1>10. /\ next \in Request /\ next.got = got /\ next.echo = echo /\ next.live = (r.live /\ Lives(s))
       /\ next.at = r.at /\ next.stream = r.stream /\ next.asked = r.asked /\ next.sent = r.sent
       /\ next.scope = s
  BY <1>1, <1>7, <1>8, <1>9 DEF Request
<1>11. Len(got) = Len(echo) /\ Len(r.got) = Len(r.echo) /\ Len(r.got) \in Nat
  BY <1>1, <1>2, <1>7, <1>8 DEF RequestInv
<1>12. \A j \in 1..Len(got) : j \in 1..Len(r.got) \/ j = Len(r.got) + 1
  BY <1>7, <1>11
<1>13. ASSUME NEW i \in 1..Len(back), back[i] \in Value
       PROVE  Asked(r.asked, back[i])
  <2>1. i \in 1..Len(text)
    BY <1>6
  <2>2. CASE Lives(s) /\ <<back[i], text[i]>> \in scopes[s].reverse
    <3>1. <<back[i], text[i]>>[1] = back[i]
      OBVIOUS
    <3>2. \A p \in scopes[s].reverse : Asked(r.asked, p[1])
      BY <1>2, <1>3, <2>2 DEF RequestInv
    <3> QED
      BY <2>2, <3>1, <3>2
  <2>3. CASE back[i] = text[i]
    <3>1. k # 0
      <4> SUFFICES ASSUME k = 0 PROVE FALSE
        OBVIOUS
      <4>1. text[i] \in Placeholder \union {Torn}
        BY <1>4, <2>1
      <4> QED
        BY <1>13, <2>3, <4>1, ProxyAssumption
    <3>2. /\ k \in 1..Len(r.sent) /\ k \in 1..Len(r.asked)
          /\ from + i - 1 \in 1..Len(r.sent[k].text) /\ text[i] = r.sent[k].text[from + i - 1]
      <4>1. text[i] # Torn
        BY <1>13, <2>3, ProxyAssumption
      <4> QED
        BY <1>4, <2>1, <3>1, <4>1 DEF Spoke
    <3>3. Conceals(r.asked[k], r.sent[k])
      BY <1>2, <3>2 DEF RequestInv
    <3>4. /\ from + i - 1 \in 1..Len(r.asked[k].text)
          /\ r.asked[k].text[from + i - 1] = text[i]
      <4>1. text[i] \notin Placeholder
        BY <1>13, <2>3, ProxyAssumption
      <4>2. r.asked[k].block \in BOOLEAN
        <5>1. r.asked[k] \in Part
          BY <1>1, <3>2
        <5> QED
          BY <5>1 DEF Part
      <4> QED
        BY <2>1, <3>2, <3>3, <4>1, <4>2 DEF Conceals
    <3> QED
      BY <2>3, <3>2, <3>4 DEF Asked
  <2> QED
    BY <1>6, <2>1, <2>2, <2>3
<1>14. OwnOnly(next)
  <2> SUFFICES ASSUME NEW j \in 1..Len(got), NEW i \in 1..Len(got[j]), got[j][i] \in Value
               PROVE  Asked(r.asked, got[j][i])
    BY <1>10 DEF OwnOnly
  <2>1. CASE j \in 1..Len(r.got)
    BY <1>2, <1>7, <2>1 DEF RequestInv, OwnOnly
  <2>2. CASE j = Len(r.got) + 1
    BY <1>7, <1>13, <2>2
  <2> QED
    BY <1>12, <2>1, <2>2
<1>15. ASSUME Lives(s), NoneOfOnes(r.asked), k # 0
       PROVE  Repeats(back, r.asked[k].text, from, r.stream)
  <2>1. k \in 1..Len(r.sent) /\ k \in 1..Len(r.asked)
    BY <1>4, <1>15
  <2>2. Conceals(r.asked[k], r.sent[k]) /\ Known(r.asked[k], r.sent[k], scopes[s].reverse)
    BY <1>2, <1>3, <1>15, <2>1 DEF RequestInv
  <2>3. r.asked[k] \in Part /\ r.sent[k] \in Part
    BY <1>1, <2>1
  <2>4. r.asked[k].block \in BOOLEAN /\ r.asked[k].text \in Seq(Item)
    BY <2>3 DEF Part
  <2>5. Len(r.sent[k].text) = Len(r.asked[k].text)
    BY <2>1, <2>2, <2>4 DEF Conceals
  <2>6. ASSUME NEW i \in 1..Len(text)
        PROVE  \/ back[i] = r.asked[k].text[from + i - 1]
               \/ back[i] = Torn /\ r.stream /\ i \in {1, Len(text)}
    <3> DEFINE n == from + i - 1
    <3>1. /\ n \in 1..Len(r.sent[k].text)
          /\ \/ text[i] = r.sent[k].text[n]
             \/ text[i] = Torn /\ r.stream /\ i \in {1, Len(text)}
      BY <1>15 DEF Spoke
    <3> HIDE DEF n
    <3>2. CASE text[i] = Torn /\ r.stream /\ i \in {1, Len(text)}
      BY <1>6, <1>15, <3>2, ProxyAssumption
    <3>3. n \in 1..Len(r.asked[k].text) /\ r.asked[k].text[n] \notin Placeholder
      BY <1>15, <2>1, <2>5, <3>1 DEF NoneOfOnes
    <3>4. CASE text[i] = r.sent[k].text[n] /\ text[i] = r.asked[k].text[n]
      BY <1>6, <1>15, <3>3, <3>4 DEF n
    <3>5. CASE text[i] = r.sent[k].text[n] /\ text[i] # r.asked[k].text[n]
      <4>1. r.asked[k].block /\ r.asked[k].text[n] \in Value
        BY <2>1, <2>2, <2>4, <2>5, <3>1, <3>3, <3>5 DEF Conceals
      <4>2. <<r.asked[k].text[n], text[i]>> \in scopes[s].reverse
        BY <2>1, <2>2, <2>5, <3>1, <3>3, <3>5, <4>1 DEF Known
      <4> QED
        BY <1>6, <1>15, <4>2 DEF n
    <3> QED
      BY <3>1, <3>2, <3>4, <3>5
  <2>7. r.stream \/ back = r.asked[k].text
    <3> SUFFICES ASSUME ~r.stream PROVE back = r.asked[k].text
      OBVIOUS
    <3>1. from = 1 /\ Len(text) = Len(r.asked[k].text)
      BY <1>15, <2>5 DEF Spoke
    <3>2. \A i \in 1..Len(text) : back[i] = r.asked[k].text[i]
      BY <1>5, <2>6, <3>1
    <3> QED
      BY <1>6, <2>4, <3>1, <3>2, SeqEqual
  <2> QED
    BY <1>6, <2>6, <2>7 DEF Repeats
<1>16. EchoInv(next)
  <2> SUFFICES ASSUME r.live, Lives(s), NoneOfOnes(r.asked), NEW j \in 1..Len(got), echo[j][1] # 0
               PROVE  Repeats(got[j], r.asked[echo[j][1]].text, echo[j][2], r.stream)
    BY <1>10 DEF EchoInv, Echoed
  <2>1. CASE j \in 1..Len(r.got)
    BY <1>2, <1>7, <1>8, <1>11, <2>1 DEF RequestInv, EchoInv, Echoed
  <2>2. CASE j = Len(r.got) + 1
    <3>1. got[j] = back /\ echo[j] = <<k, from>>
      BY <1>7, <1>8, <1>11, <2>2
    <3> QED
      BY <1>15, <3>1
  <2> QED
    BY <1>12, <2>1, <2>2
<1>17. RequestInv(next, scopes[s])
  BY <1>2, <1>10, <1>11, <1>14, <1>16 DEF RequestInv
<1> QED
  BY <1>10, <1>17 DEF next
(* A step that moves a request on, and keeps or drops its scope.           *)
LEMMA MovedOn ==
  ASSUME ProxyInv, NEW c \in Caller, req[c] # Idle, NEW r \in Request, NEW sc,
         \A f \in {"scope", "asked", "got", "echo", "live", "stream"} : r[f] = req[c][f],
         r.sent = req[c].sent \/ r.sent = <<>>, r.at = "asked" => ~r.stream,
         r.at = "streaming" => r.stream, sc \in {NoScope, scopes[r.scope]},
         req' = [req EXCEPT ![c] = r], scopes' = [scopes EXCEPT ![r.scope] = sc],
         used' = used, now' = now, stray' \in {stray, stray \union {r.scope}},
         ~Preserve /\ sc # NoScope =>
           r.scope \in stray' \/ r.at \in {"redacting", "asked", "streaming"}
  PROVE  ProxyInv'
<1>1. ProxyTypeOK /\ RequestInv(req[c], scopes[req[c].scope])
  BY DEF ProxyInv
<1>2. /\ r.scope = req[c].scope /\ r.asked = req[c].asked /\ r.got = req[c].got
      /\ r.echo = req[c].echo /\ r.live = req[c].live
  OBVIOUS
<1>3. sc \in Scope \union {NoScope}
  BY <1>1, <1>2, RequestFields
<1>4. Len(<<>>) = 0 /\ Len(r.asked) \in Nat
  BY <1>1, <1>2, RequestFields
<1>5. RequestInv(r, scopes[r.scope])
  BY SMTT(20), <1>1, <1>2, <1>4 DEF RequestInv, OwnOnly, EchoInv, Echoed
<1>6. RequestInv(r, sc)
  BY <1>5, ScopeLost
<1> QED
  BY <1>2, <1>3, <1>6, OneRequest

LEMMA ProxyStep == ProxyInv /\ [ProxyNext]_proxyVars => ProxyInv'
<1> SUFFICES ASSUME ProxyInv, [ProxyNext]_proxyVars PROVE ProxyInv'
  OBVIOUS
<1>0. ProxyTypeOK
  BY DEF ProxyInv
<1>1. ASSUME NEW c \in Caller, req[c].at # "idle"
      PROVE  /\ req[c] # Idle /\ req[c] \in Request /\ req[c].scope \in 1..MaxScopes
             /\ scopes = [scopes EXCEPT ![req[c].scope] = scopes[req[c].scope]]
             /\ req[c].at = "asked" => ~req[c].stream
  BY <1>0, <1>1, RequestFields DEF Idle, ProxyTypeOK, ProxyInv, RequestInv
<1>2. ASSUME NEW c \in Caller, RedactRaises(c) PROVE ProxyInv'
  <2> DEFINE r == [req[c] EXCEPT !.at = "raised", !.sent = <<>>]
  <2>1. /\ req[c].at = "redacting" /\ scopes' = [scopes EXCEPT ![req[c].scope] = NoScope]
        /\ req' = [req EXCEPT ![c].at = "raised", ![c].sent = <<>>]
        /\ now' = now /\ used' = used /\ stray' = stray
    BY <1>2 DEF RedactRaises
  <2>2. req[c] # Idle /\ req[c] \in Request
    BY <1>1, <2>1
  <2>3. <<>> \in Seq(Part)
    OBVIOUS
  <2>4. /\ r \in Request /\ r.at = "raised" /\ r.sent = <<>>
        /\ \A f \in {"scope", "asked", "got", "echo", "live", "stream"} : r[f] = req[c][f]
    BY <2>2, <2>3 DEF Request
  <2>5. req' = [req EXCEPT ![c] = r]
    BY <1>0, <2>1, <2>2 DEF ProxyTypeOK
  <2> HIDE DEF r
  <2> QED
    BY <2>1, <2>2, <2>4, <2>5, MovedOn
<1>3. ASSUME NEW c \in Caller, NEW at \in {"asked", "streaming", "returned", "raised"},
             req[c].at # "idle", req' = [req EXCEPT ![c].at = at],
             at = "asked" => ~req[c].stream, at = "streaming" => req[c].stream,
             \/ scopes' = scopes
             \/ scopes' = [scopes EXCEPT ![req[c].scope] = NoScope],
             now' = now, used' = used, stray' \in {stray, stray \union {req[c].scope}},
             \/ Preserve \/ req[c].scope \in stray' \/ at \in {"asked", "streaming"}
             \/ scopes' = [scopes EXCEPT ![req[c].scope] = NoScope]
      PROVE  ProxyInv'
  <2> DEFINE r == [req[c] EXCEPT !.at = at]
  <2>1. /\ req[c] # Idle /\ req[c] \in Request
        /\ scopes = [scopes EXCEPT ![req[c].scope] = scopes[req[c].scope]]
    BY <1>1, <1>3
  <2>2. /\ r \in Request /\ r.at = at /\ r.sent = req[c].sent
        /\ \A f \in {"scope", "asked", "got", "echo", "live", "stream"} : r[f] = req[c][f]
    BY <1>3, <2>1 DEF Request
  <2>3. req' = [req EXCEPT ![c] = r]
    BY <1>0, <1>3, <2>1 DEF ProxyTypeOK
  <2> HIDE DEF r
  <2>4. r.scope = req[c].scope /\ r.stream = req[c].stream
    BY <2>2
  <2>5. CASE scopes' = [scopes EXCEPT ![req[c].scope] = NoScope]
    <3>1. scopes' = [scopes EXCEPT ![r.scope] = NoScope]
      BY <2>4, <2>5
    <3> QED
      BY ZenonT(40), <1>3, <2>1, <2>2, <2>3, <2>4, <3>1, MovedOn
  <2>6. CASE scopes' = scopes /\ ~(scopes' = [scopes EXCEPT ![req[c].scope] = NoScope])
    <3>1. scopes' = [scopes EXCEPT ![r.scope] = scopes[r.scope]]
      BY <2>1, <2>4, <2>6
    <3>2. \/ Preserve \/ r.scope \in stray' \/ r.at \in {"redacting", "asked", "streaming"}
      BY <1>3, <2>2, <2>4, <2>6
    <3>3. /\ stray' \in {stray, stray \union {r.scope}} /\ (r.at = "asked" => ~r.stream)
          /\ (r.at = "streaming" => r.stream)
      BY <1>3, <2>2, <2>4
    <3> QED
      <4>1. /\ ProxyInv /\ c \in Caller /\ req[c] # Idle /\ r \in Request
            /\ scopes[r.scope] \in {NoScope, scopes[r.scope]}
            /\ used' = used /\ now' = now
        BY <1>3, <2>1, <2>2
      <4>2. r.sent = req[c].sent \/ r.sent = <<>>
        BY <2>2
      <4>3. ~Preserve /\ scopes[r.scope] # NoScope =>
               r.scope \in stray' \/ r.at \in {"redacting", "asked", "streaming"}
        BY <3>2
      <4> QED
        BY ZenonT(40), <2>2, <2>3, <3>1, <3>3, <4>1, <4>2, <4>3, MovedOn
  <2> QED
    BY <1>3, <2>5, <2>6
<1>4. ASSUME NEW c \in Caller, Send(c) PROVE ProxyInv'
  <2>1. /\ req[c].at # "idle" /\ now' = now /\ used' = used /\ stray' = stray /\ scopes' = scopes
        /\ req' = [req EXCEPT ![c].at = IF req[c].stream THEN "streaming" ELSE "asked"]
    BY <1>4 DEF Send
  <2>2. CASE req[c].stream
    BY <1>3, <2>1, <2>2
  <2>3. CASE ~req[c].stream
    BY <1>3, <2>1, <2>3
  <2> QED
    BY <2>2, <2>3
<1>5. ASSUME NEW c \in Caller, SendRaises(c) PROVE ProxyInv'
  <2>1. /\ req[c].at # "idle" /\ now' = now /\ used' = used /\ req' = [req EXCEPT ![c].at = "raised"]
    BY <1>5 DEF SendRaises
  <2>2. CASE req[c].stream
    <3>1. scopes' = scopes /\ stray' = stray \union {req[c].scope}
      BY <1>5, <2>2 DEF SendRaises, Dropped, Strays
    <3> QED
      BY <1>3, <2>1, <3>1
  <2>3. CASE ~req[c].stream /\ Preserve
    <3>1. scopes' = scopes /\ stray' = stray
      BY <1>5, <2>3 DEF SendRaises, Dropped, Strays
    <3> QED
      BY <1>3, <2>1, <2>3, <3>1
  <2>4. CASE ~req[c].stream /\ ~Preserve
    <3>1. scopes' = [scopes EXCEPT ![req[c].scope] = NoScope] /\ stray' = stray
      BY <1>5, <2>4 DEF SendRaises, Dropped, Strays
    <3> QED
      BY <1>3, <2>1, <3>1
  <2> QED
    BY <2>2, <2>3, <2>4
<1>6. ASSUME NEW c \in Caller, EndStream(c) PROVE ProxyInv'
  <2>1. /\ req[c].at # "idle" /\ now' = now /\ used' = used /\ stray' = stray
        /\ req' = [req EXCEPT ![c].at = "returned"]
        /\ scopes' = IF Preserve THEN scopes ELSE [scopes EXCEPT ![req[c].scope] = NoScope]
    BY <1>6 DEF EndStream
  <2>2. CASE Preserve
    BY <1>3, <2>1, <2>2
  <2>3. CASE ~Preserve
    BY <1>3, <2>1, <2>3
  <2> QED
    BY <2>2, <2>3
<1>7. ASSUME NEW c \in Caller, Abandon(c) PROVE ProxyInv'
  <2>1. /\ req[c].at # "idle" /\ now' = now /\ used' = used /\ stray' = stray \union {req[c].scope}
        /\ req' = [req EXCEPT ![c].at = "returned"] /\ scopes' = scopes
    BY <1>7 DEF Abandon
  <2> QED
    BY <1>3, <2>1
<1>8. ASSUME NEW c \in Caller, Respond(c) PROVE ProxyInv'
  <2>1. /\ req[c].at = "asked" /\ now' = now /\ used' = used /\ stray' = stray /\ scopes' = Dropped(c)
    BY <1>8 DEF Respond
  <2>2. PICK k \in 0..Len(req[c].sent), text \in Spoken(c) :
          /\ Says(c, k, text)
          /\ req' = [req EXCEPT ![c] = [Given(c, k, 1, text) EXCEPT !.at = "returned"]]
    BY <1>8 DEF Respond
  <2>3. /\ req[c] # Idle /\ req[c] \in Request /\ ~req[c].stream /\ req[c].scope \in 1..MaxScopes
        /\ scopes = [scopes EXCEPT ![req[c].scope] = scopes[req[c].scope]]
    BY <1>1, <2>1
  <2>4. PICK g : g = Given(c, k, 1, text)
    OBVIOUS
  <2> Spoke(req[c], k, 1, text)
    BY <2>2, <2>3, SaidText DEF Spoke
  <2>5. /\ g \in Request /\ g.scope = req[c].scope /\ g.stream = req[c].stream
        /\ RequestInv(g, scopes[req[c].scope])
    BY <2>2, <2>3, <2>4, GivenBack
  <2> DEFINE r == [g EXCEPT !.at = "returned"]
  <2>6. /\ r \in Request /\ r.scope = req[c].scope /\ r.at = "returned" /\ r.sent = g.sent
        /\ r.asked = g.asked /\ r.got = g.got /\ r.echo = g.echo /\ r.live = g.live
        /\ r.stream = g.stream
    BY <2>5 DEF Request
  <2>7. req' = [req EXCEPT ![c] = r]
    BY <2>2, <2>4
  <2> HIDE DEF r
  <2>8. RequestInv(r, scopes[r.scope]) /\ RequestInv(r, NoScope)
    <3>1. RequestInv(r, scopes[r.scope])
      BY <2>5, <2>6 DEF RequestInv, OwnOnly, EchoInv, Echoed
    <3> QED
      BY <3>1, ScopeLost
  <2>9. scopes[r.scope] \in Scope \union {NoScope}
    BY <1>0, <2>3, <2>6, RequestFields
  <2>10. CASE Preserve
    <3>1. scopes' = [scopes EXCEPT ![r.scope] = scopes[r.scope]]
      BY <2>1, <2>3, <2>6, <2>10 DEF Dropped
    <3> QED
      BY <2>1, <2>3, <2>6, <2>7, <2>8, <2>9, <2>10, <3>1, OneRequest
  <2>11. CASE ~Preserve
    <3>1. scopes' = [scopes EXCEPT ![r.scope] = NoScope]
      BY <2>1, <2>3, <2>6, <2>11 DEF Dropped
    <3>2. NoScope \in Scope \union {NoScope}
      OBVIOUS
    <3> QED
      BY <2>1, <2>3, <2>6, <2>7, <2>8, <3>1, <3>2, OneRequest
  <2> QED
    BY <2>10, <2>11
<1>9. ASSUME NEW c \in Caller, Event(c) PROVE ProxyInv'
  <2>1. /\ req[c].at = "streaming" /\ now' = now /\ used' = used /\ stray' = stray /\ scopes' = scopes
    BY <1>9 DEF Event
  <2>2. PICK k \in 0..Len(req[c].sent), text \in Spoken(c) :
          /\ Says(c, k, text)
          /\ \E from, to \in 1..Len(text) : \E cut \in SUBSET {from, to} :
               from <= to /\ req' = [req EXCEPT ![c] = Given(c, k, from, Delta(text, from, to, cut))]
    BY <1>9 DEF Event
  <2>11. PICK from \in 1..Len(text), to \in 1..Len(text) : \E cut \in SUBSET {from, to} :
           from <= to /\ req' = [req EXCEPT ![c] = Given(c, k, from, Delta(text, from, to, cut))]
    BY <2>2
  <2>8. PICK cut \in SUBSET {from, to} :
          from <= to /\ req' = [req EXCEPT ![c] = Given(c, k, from, Delta(text, from, to, cut))]
    BY <2>11
  <2>3. /\ req[c] # Idle /\ scopes = [scopes EXCEPT ![req[c].scope] = scopes[req[c].scope]]
        /\ scopes[req[c].scope] \in Scope \union {NoScope}
    BY <1>0, <1>1, <2>1, RequestFields
  <2>4. PICK g : g = Given(c, k, from, Delta(text, from, to, cut))
    OBVIOUS
  <2>9. req[c].stream
    BY <2>1, <2>3 DEF ProxyInv, RequestInv
  <2>10. Spoke(req[c], k, from, Delta(text, from, to, cut))
    BY <2>2, <2>3, <2>8, <2>9, DeltaSpoke
  <2>5. /\ g \in Request /\ g.scope = req[c].scope /\ g.at = "streaming"
        /\ RequestInv(g, scopes[req[c].scope])
    BY <2>1, <2>3, <2>4, <2>10, GivenBack
  <2>6. PICK sc \in Scope \union {NoScope} : sc = scopes[req[c].scope]
    BY <2>3
  <2>7. /\ req' = [req EXCEPT ![c] = g] /\ scopes' = [scopes EXCEPT ![g.scope] = sc]
        /\ sc = scopes[g.scope] /\ RequestInv(g, sc)
    BY <2>1, <2>3, <2>4, <2>5, <2>6, <2>8
  <2> QED
    BY <2>1, <2>3, <2>5, <2>7, OneRequest
<1>10. CASE Sweep \/ Tick \/ UNCHANGED proxyVars
  <2>1. /\ req' = req /\ used' = used /\ stray' = stray /\ now' \in 0..MaxNow
        /\ \A t \in 1..MaxScopes : scopes'[t] = scopes[t] \/ scopes'[t] = NoScope
        /\ scopes' = [t \in 1..MaxScopes |-> scopes'[t]]
    BY <1>0, <1>10, ProxyAssumption DEF Sweep, Tick, proxyVars, ProxyTypeOK
  <2>2. ProxyTypeOK'
    <3>1. scopes' \in [1..MaxScopes -> Scope \union {NoScope}]
      BY <1>0, <2>1 DEF ProxyTypeOK
    <3> QED
      BY <1>0, <2>1, <3>1 DEF ProxyTypeOK
  <2>3. ASSUME NEW c \in Caller, req[c] # Idle
        PROVE  req[c].scope <= used /\ RequestInv(req[c], scopes'[req[c].scope])
    <3>1. req[c].scope <= used /\ RequestInv(req[c], scopes[req[c].scope]) /\ req[c].scope \in 1..MaxScopes
      BY <1>0, <2>3, RequestFields DEF ProxyInv
    <3>2. RequestInv(req[c], NoScope)
      BY <3>1 DEF RequestInv
    <3> QED
      BY <2>1, <3>1, <3>2
  <2>4. ScopesLetGo'
    BY <2>1 DEF ProxyInv, ScopesLetGo, Busy
  <2> QED
    BY <2>1, <2>2, <2>3, <2>4 DEF ProxyInv
<1> QED
  BY <1>2, <1>4, <1>5, <1>6, <1>7, <1>8, <1>9, <1>10, CreateStep, RedactStep DEF ProxyNext

LEMMA ProxyInvSound == ProxyInv => ProxySound
<1> SUFFICES ASSUME ProxyInv PROVE ProxySound
  OBVIOUS
<1>0. ProxyTypeOK
  BY DEF ProxyInv
<1>1. ASSUME NEW c \in Caller, req[c].at # "idle"
      PROVE  /\ req[c].asked \in Seq(Part) /\ req[c].sent \in Seq(Part)
             /\ req[c].got \in Seq(Seq(Item)) /\ req[c].echo \in Seq(Nat \X Nat)
             /\ RequestInv(req[c], scopes[req[c].scope])
             /\ \A k \in 1..Len(req[c].asked) : req[c].asked[k].text \in Seq(Item)
  <2>1. req[c] # Idle
    BY <1>1 DEF Idle
  <2>2. \A k \in 1..Len(req[c].asked) : req[c].asked[k] \in Part
    BY <1>0, <2>1, RequestFields
  <2>3. \A p \in Part : p.text \in Seq(Item)
    BY DEF Part
  <2> QED
    BY <1>0, <2>1, <2>2, <2>3, RequestFields DEF ProxyInv
<1>2. NothingOnTheWire
  <2> SUFFICES ASSUME NEW c \in Caller, req[c].at # "idle", NEW k \in 1..Len(req[c].sent),
                      req[c].sent[k].block
               PROVE  ~HasValue(req[c].sent[k].text)
    BY DEF NothingOnTheWire
  <2>1. Conceals(req[c].asked[k], req[c].sent[k])
    BY <1>1 DEF RequestInv
  <2>2. \A i \in 1..Len(req[c].sent[k].text) : req[c].sent[k].text[i] \notin Value
    BY <2>1, ProxyAssumption DEF Conceals
  <2> QED
    BY <2>2 DEF HasValue
<1>3. ASSUME NEW c \in Caller, req[c].at # "idle"
      PROVE  /\ \A v : Asked(req[c].asked, v) => \E p \in Range(req[c].asked) : v \in Range(p.text)
             /\ (\A p \in Range(req[c].asked) : \A x \in Range(p.text) : x \notin Placeholder)
                  => NoneOfOnes(req[c].asked)
  <2>1. \A k \in 1..Len(req[c].asked) : req[c].asked[k] \in Range(req[c].asked)
    BY <1>1, <1>3 DEF Range
  <2>2. \A k \in 1..Len(req[c].asked) : \A i \in 1..Len(req[c].asked[k].text) :
          req[c].asked[k].text[i] \in Range(req[c].asked[k].text)
    BY <1>1, <1>3 DEF Range
  <2> QED
    BY <2>1, <2>2 DEF Asked, NoneOfOnes
<1>4. OwnValues
  <2> SUFFICES ASSUME NEW c \in Caller, req[c].at # "idle", NEW g \in Range(req[c].got),
                      NEW i \in 1..Len(g), g[i] \in Value
               PROVE  \E p \in Range(req[c].asked) : g[i] \in Range(p.text)
    BY DEF OwnValues
  <2>1. PICK j \in 1..Len(req[c].got) : g = req[c].got[j]
    BY <1>1 DEF Range
  <2>2. Asked(req[c].asked, g[i])
    BY <1>1, <2>1 DEF RequestInv, OwnOnly
  <2> QED
    BY <1>3, <2>2
<1>5. EchoRestored
  BY <1>1, <1>3 DEF EchoRestored, RequestInv, EchoInv
<1> QED
  BY <1>0, <1>2, <1>4, <1>5 DEF ProxySound, ProxyInv

(* For any values, categories, requests and callers: no value of a text    *)
(* block goes over the wire, nothing of another request comes back, what   *)
(* Claude repeats is restored where a reply or a delta holds the whole     *)
(* placeholder, and no scope outlives its request unseen (proxy.py,        *)
(* mapper.py).                                                             *)
THEOREM ProxySoundThm == ProxySpec => []ProxySound
<1>1. ProxyInit => ProxyInv
  <2> SUFFICES ASSUME ProxyInit PROVE ProxyInv
    OBVIOUS
  <2>1. ProxyTypeOK
    BY ProxyAssumption DEF ProxyInit, ProxyTypeOK
  <2>2. (\A c \in Caller : req[c] = Idle) /\ \A s \in 1..MaxScopes : scopes[s] = NoScope
    BY DEF ProxyInit
  <2> QED
    BY <2>1, <2>2 DEF ProxyInv, ScopesLetGo
<1> QED
  BY <1>1, ProxyStep, ProxyInvSound, PTL DEF ProxySpec
-----------------------------------------------------------------------------
(* The honey tokens.  A scan that builds holds the lock and has read the   *)
(* registry; a seeding that is about to note a file has written it.        *)
ScanInv ==
  /\ scans = [t \in Thread |-> scans[t]]
  /\ \A t \in Thread : "at" \in DOMAIN scans[t]
  /\ \A t \in Thread :
       scans[t].at = "build" => lock = t /\ scans[t].markers \in SUBSET Marker

SeedInv ==
  /\ "at" \in DOMAIN seeder
  /\ seeder.at = "create" => seeder.tokens \in Seq(Marker) /\ Len(seeder.tokens) < Count
  /\ seeder.at \in {"write", "note"} =>
       seeder.files \in Seq(File) /\ seeder.place \in [File -> SUBSET Marker]
  /\ seeder.at = "note" =>
       seeder.files # <<>> /\ vault[Head(seeder.files)] = seeder.place[Head(seeder.files)]

HoneyInv == HoneyTypeOK /\ ScanInv /\ SeedInv /\ AutomatonFresh /\ LocationsTrue

LEMMA ScanStep ==
  ASSUME HoneyInv, NEW t \in Thread, NEW text,
         Scan(t, text) \/ Ensure(t) \/ Build(t) \/ Check(t) \/ Run(t) \/ Match(t) \/ Finish(t)
  PROVE  HoneyInv' /\ vault' = vault
<1>0. /\ HoneyTypeOK /\ ScanInv /\ SeedInv /\ AutomatonFresh /\ LocationsTrue
      /\ lock \in Thread \union {Nobody} /\ Nobody \notin Thread
  BY HoneyAssumption DEF HoneyInv, HoneyTypeOK
<1>1. /\ registry' = registry /\ location' = location /\ vault' = vault /\ seeder' = seeder
      /\ changed' = changed
  BY DEF Scan, Ensure, Build, Check, Run, Match, Finish
<1>2. SeedInv' /\ LocationsTrue'
  BY <1>0, <1>1 DEF SeedInv, LocationsTrue
<1>3. ASSUME NEW s,
             scans' = [scans EXCEPT ![t] = s],
             "at" \in DOMAIN s, s.at \in {"idle", "ensure", "check", "run", "match", "done", "raised"},
             automaton' = automaton, meta' = meta, lock' = lock, scans[t].at # "build"
      PROVE  HoneyInv'
  <2>1. scans'[t] = s /\ \A u \in Thread : u # t => scans'[u] = scans[u]
    BY <1>0, <1>3 DEF ScanInv
  <2>2. scans' = [u \in Thread |-> scans'[u]]
    BY <1>0, <1>3, <2>1 DEF ScanInv
  <2>3. lock # t
    BY <1>0, <1>3 DEF HoneyTypeOK
  <2>4. HoneyTypeOK'
    BY <1>0, <1>1, <1>3, <2>1, <2>3 DEF HoneyTypeOK
  <2>5. ScanInv' /\ AutomatonFresh'
    BY <1>0, <1>1, <1>3, <2>1, <2>2 DEF ScanInv, AutomatonFresh
  <2> QED
    BY <1>2, <2>4, <2>5 DEF HoneyInv
<1>4. CASE Ensure(t) /\ automaton = NoAutomaton
  <2> DEFINE next == [at |-> "build", text |-> scans[t].text, markers |-> registry]
  <2>1. /\ lock = Nobody /\ lock' = t /\ scans' = [scans EXCEPT ![t] = next]
        /\ automaton' = automaton /\ meta' = meta
    BY <1>4 DEF Ensure
  <2>2. scans'[t] = next /\ \A u \in Thread : u # t => scans'[u] = scans[u]
    BY <1>0, <2>1 DEF ScanInv
  <2>3. scans' = [u \in Thread |-> scans'[u]]
    BY <1>0, <2>1, <2>2 DEF ScanInv
  <2>4. HoneyTypeOK'
    BY <1>0, <1>1, <2>1, <2>2 DEF HoneyTypeOK
  <2>5. \A u \in Thread : u # t => scans[u].at # "build"
    BY <1>0, <2>1 DEF ScanInv
  <2>6. registry \in SUBSET Marker
    BY <1>0 DEF HoneyTypeOK
  <2>7. ScanInv'
    BY <1>0, <2>1, <2>2, <2>3, <2>5, <2>6 DEF ScanInv
  <2>8. AutomatonFresh'
    BY <1>0, <1>1, <1>4, <2>1, <2>2, <2>5 DEF AutomatonFresh
  <2> QED
    BY <1>1, <1>2, <2>4, <2>7, <2>8 DEF HoneyInv
<1>5. CASE Build(t)
  <2> DEFINE next == [at |-> "check", text |-> scans[t].text]
  <2>1. /\ scans[t].at = "build" /\ automaton' = scans[t].markers
        /\ meta' = scans[t].markers \cap registry
        /\ lock' = Nobody /\ scans' = [scans EXCEPT ![t] = next]
    BY <1>5 DEF Build
  <2>2. scans'[t] = next /\ \A u \in Thread : u # t => scans'[u] = scans[u]
    BY <1>0, <2>1 DEF ScanInv
  <2>3. scans' = [u \in Thread |-> scans'[u]]
    BY <1>0, <2>1, <2>2 DEF ScanInv
  <2>4. lock = t /\ scans[t].markers \in SUBSET Marker
    BY <1>0, <2>1 DEF ScanInv
  <2>5. HoneyTypeOK'
    BY <1>0, <1>1, <2>1, <2>2, <2>4 DEF HoneyTypeOK
  <2>6. \A u \in Thread : u # t => scans[u].at # "build"
    BY <1>0, <2>4 DEF ScanInv
  <2>7. ScanInv'
    BY <1>0, <2>1, <2>2, <2>3, <2>6 DEF ScanInv
  <2>8. AutomatonFresh'
    BY <1>0, <1>1, <2>1, <2>2, <2>6 DEF AutomatonFresh
  <2> QED
    BY <1>1, <1>2, <2>5, <2>7, <2>8 DEF HoneyInv
<1>6. CASE Scan(t, text)
  <2> DEFINE next == [at |-> "ensure", text |-> text]
  <2>1. /\ scans' = [scans EXCEPT ![t] = next] /\ automaton' = automaton /\ meta' = meta
        /\ lock' = lock /\ scans[t].at # "build"
    BY <1>0, <1>6 DEF Scan, ScanInv
  <2>2. "at" \in DOMAIN next /\ next.at \in {"ensure"}
    OBVIOUS
  <2> HIDE DEF next
  <2> QED
    BY <1>1, <1>3, <2>1, <2>2
<1>7. CASE Ensure(t) /\ automaton # NoAutomaton
  <2>1. /\ scans[t].at = "ensure" /\ scans' = [scans EXCEPT ![t].at = "check"]
        /\ automaton' = automaton /\ meta' = meta /\ lock' = lock
    BY <1>7 DEF Ensure
  <2>2. scans' = [scans EXCEPT ![t] = [scans[t] EXCEPT !.at = "check"]]
    BY <1>0, <2>1 DEF ScanInv
  <2>3. /\ "at" \in DOMAIN [scans[t] EXCEPT !.at = "check"]
        /\ [scans[t] EXCEPT !.at = "check"].at = "check"
    BY <1>0 DEF ScanInv
  <2> QED
    BY <1>1, <1>3, <2>1, <2>2, <2>3
<1>8. CASE Check(t)
  <2> DEFINE next == IF automaton = NoAutomaton
                     THEN [at |-> "done", text |-> scans[t].text, patterns |-> {}, hits |-> {}]
                     ELSE [at |-> "run", text |-> scans[t].text]
  <2>1. /\ scans' = [scans EXCEPT ![t] = next] /\ automaton' = automaton /\ meta' = meta
        /\ lock' = lock /\ scans[t].at # "build"
    BY <1>0, <1>8 DEF Check, ScanInv
  <2>2. "at" \in DOMAIN next /\ next.at \in {"done", "run"}
    OBVIOUS
  <2> HIDE DEF next
  <2> QED
    BY <1>1, <1>3, <2>1, <2>2
<1>9. CASE Run(t)
  <2> DEFINE next == IF automaton = NoAutomaton THEN [at |-> "raised", text |-> scans[t].text]
                     ELSE [at |-> "match", text |-> scans[t].text, patterns |-> automaton,
                           node |-> <<>>, pos |-> 0, hits |-> {}]
  <2>1. /\ scans' = [scans EXCEPT ![t] = next] /\ automaton' = automaton /\ meta' = meta
        /\ lock' = lock /\ scans[t].at # "build"
    BY <1>0, <1>9 DEF Run, ScanInv
  <2>2. "at" \in DOMAIN next /\ next.at \in {"raised", "match"}
    OBVIOUS
  <2> HIDE DEF next
  <2> QED
    BY <1>1, <1>3, <2>1, <2>2
<1>10. CASE Match(t)
  <2> DEFINE node == Goto(scans[t].patterns, scans[t].node, scans[t].text[scans[t].pos + 1])
             found == {[marker |-> m, offset |-> scans[t].pos + 1 - Len(m), known |-> m \in meta] :
                         m \in Out(scans[t].patterns, node)}
             next == [scans[t] EXCEPT !.node = node, !.pos = scans[t].pos + 1,
                                      !.hits = scans[t].hits \union found]
  <2>1. /\ scans[t].at = "match" /\ automaton' = automaton /\ meta' = meta /\ lock' = lock
        /\ scans' = [scans EXCEPT ![t].node = node, ![t].pos = scans[t].pos + 1,
                                  ![t].hits = scans[t].hits \union found]
    BY <1>10 DEF Match
  <2> HIDE DEF node, found
  <2>2. scans' = [scans EXCEPT ![t] = next]
    BY <1>0, <2>1 DEF ScanInv
  <2>3. "at" \in DOMAIN next /\ next.at = "match"
    BY <1>0, <2>1 DEF ScanInv
  <2> HIDE DEF next
  <2> QED
    BY <1>1, <1>3, <2>1, <2>2, <2>3
<1>11. CASE Finish(t)
  <2> DEFINE next == [at |-> "done", text |-> scans[t].text, patterns |-> scans[t].patterns,
                     hits |-> scans[t].hits]
  <2>1. /\ scans' = [scans EXCEPT ![t] = next] /\ automaton' = automaton /\ meta' = meta
        /\ lock' = lock /\ scans[t].at # "build"
    BY <1>0, <1>11 DEF Finish, ScanInv
  <2>2. "at" \in DOMAIN next /\ next.at \in {"done"}
    OBVIOUS
  <2> HIDE DEF next
  <2> QED
    BY <1>1, <1>3, <2>1, <2>2
<1> QED
  BY <1>1, <1>4, <1>5, <1>6, <1>7, <1>8, <1>9, <1>10, <1>11
(* A seeding writes files that carry no marker yet, and notes a file only  *)
(* after it has written it.                                                *)
LEMMA SeedStep ==
  ASSUME HoneyInv, SeedCreate \/ SeedSkip \/ SeedWrite \/ SeedNote \/ SeedEnd
  PROVE  HoneyInv' /\ \A f \in File : vault[f] # {} => vault'[f] = vault[f]
<1>0. /\ HoneyTypeOK /\ ScanInv /\ SeedInv /\ AutomatonFresh /\ LocationsTrue
      /\ Count \in Nat /\ 1 <= Count
  BY HoneyAssumption DEF HoneyInv
<1>1. automaton' = automaton /\ meta' = meta /\ lock' = lock /\ scans' = scans
  BY DEF SeedCreate, SeedSkip, SeedWrite, SeedNote, SeedEnd, scanVars
<1>2. ScanInv'
  BY <1>0, <1>1 DEF ScanInv
<1>3. CASE SeedCreate
  <2>1. PICK m \in Fresh :
          /\ Insert(m)
          /\ LET tokens == IF seeder.at = "idle" THEN <<m>> ELSE Append(seeder.tokens, m) IN
             IF Len(tokens) < Count THEN seeder' = [at |-> "create", tokens |-> tokens]
             ELSE \E order \in SetToSeqs(File) :
                    seeder' = [at |-> "write", files |-> order,
                               place |-> [f \in File |->
                                 {tokens[i] : i \in {i \in 1..Count :
                                    order[((i - 1) % Len(order)) + 1] = f}}]]
    BY <1>3 DEF SeedCreate
  <2> DEFINE tokens == IF seeder.at = "idle" THEN <<m>> ELSE Append(seeder.tokens, m)
  <2>2. /\ m \in Marker /\ registry' = registry \union {m} /\ changed' = TRUE
        /\ location' = location /\ vault' = vault /\ seeder.at \in {"idle", "create"}
    BY <1>3, <2>1 DEF SeedCreate, Insert, Fresh
  <2>3. tokens \in Seq(Marker) /\ Len(tokens) <= Count /\ Len(tokens) \in Nat
    <3>1. CASE seeder.at = "idle"
      BY <1>0, <2>2, <3>1
    <3>2. CASE seeder.at # "idle"
      <4>1. seeder.tokens \in Seq(Marker) /\ Len(seeder.tokens) < Count
        BY <1>0, <2>2, <3>2 DEF SeedInv
      <4> QED
        BY <1>0, <2>2, <3>2, <4>1
    <3> QED
      BY <3>1, <3>2
  <2>4. \/ Len(tokens) < Count /\ seeder' = [at |-> "create", tokens |-> tokens]
        \/ /\ ~(Len(tokens) < Count)
           /\ \E order \in SetToSeqs(File) :
                seeder' = [at |-> "write", files |-> order,
                           place |-> [f \in File |->
                             {tokens[i] : i \in {i \in 1..Count :
                                order[((i - 1) % Len(order)) + 1] = f}}]]
    BY <2>1
  <2> HIDE DEF tokens
  <2>5. SeedInv' /\ seeder'.at \in {"create", "write"}
    <3>1. CASE Len(tokens) < Count /\ seeder' = [at |-> "create", tokens |-> tokens]
      BY <2>3, <3>1 DEF SeedInv
    <3>2. CASE ~(Len(tokens) < Count)
      <4>1. PICK order \in SetToSeqs(File) :
              seeder' = [at |-> "write", files |-> order,
                         place |-> [f \in File |->
                           {tokens[i] : i \in {i \in 1..Count :
                              order[((i - 1) % Len(order)) + 1] = f}}]]
        BY <2>4, <3>2
      <4>2. Cardinality(File) \in Nat
        BY HoneyAssumption, FS_CardinalityType
      <4>3. order \in Seq(File)
        BY <4>2 DEF SetToSeqs
      <4>4. Len(tokens) = Count /\ \A i \in 1..Count : tokens[i] \in Marker
        BY <1>0, <2>3, <3>2
      <4>5. seeder'.place \in [File -> SUBSET Marker]
        BY <4>1, <4>4
      <4> QED
        BY <4>1, <4>3, <4>5 DEF SeedInv
    <3> QED
      BY <2>4, <3>1, <3>2
  <2>6. HoneyTypeOK'
    BY <1>0, <1>1, <2>2, <2>5 DEF HoneyTypeOK
  <2>7. AutomatonFresh' /\ LocationsTrue'
    BY <1>0, <2>2 DEF AutomatonFresh, LocationsTrue
  <2> QED
    BY <1>2, <2>2, <2>5, <2>6, <2>7 DEF HoneyInv
<1>4. CASE SeedSkip \/ SeedEnd
  <2>1. /\ registry' = registry /\ location' = location /\ vault' = vault /\ changed' = changed
        /\ seeder.at = "write"
        /\ \/ seeder' = NoSeed
           \/ seeder.files # <<>> /\ seeder' = [seeder EXCEPT !.files = Tail(@)]
    BY <1>4 DEF SeedSkip, SeedEnd
  <2>2. SeedInv' /\ seeder'.at \in {"idle", "write"}
    <3>1. CASE seeder' = NoSeed
      BY <3>1 DEF SeedInv, NoSeed
    <3>2. CASE seeder.files # <<>> /\ seeder' = [seeder EXCEPT !.files = Tail(@)]
      <4>1. seeder.files \in Seq(File) /\ seeder.place \in [File -> SUBSET Marker]
        BY <1>0, <2>1 DEF SeedInv
      <4>2. Tail(seeder.files) \in Seq(File)
        BY <3>2, <4>1
      <4>3. /\ seeder'.at = "write" /\ seeder'.files = Tail(seeder.files)
            /\ seeder'.place = seeder.place /\ "at" \in DOMAIN seeder'
        BY <1>0, <2>1, <3>2 DEF SeedInv
      <4> QED
        BY <4>1, <4>2, <4>3 DEF SeedInv
    <3> QED
      BY <2>1, <3>1, <3>2
  <2>3. HoneyTypeOK' /\ AutomatonFresh' /\ LocationsTrue'
    BY <1>0, <1>1, <2>1, <2>2 DEF HoneyTypeOK, AutomatonFresh, LocationsTrue
  <2> QED
    BY <1>2, <2>1, <2>2, <2>3 DEF HoneyInv
<1>5. CASE SeedWrite
  <2> DEFINE f == seeder.files[1]
  <2>1. /\ seeder.at = "write" /\ seeder.files # <<>> /\ vault[f] = {}
        /\ vault' = [vault EXCEPT ![f] = seeder.place[f]]
        /\ seeder' = [seeder EXCEPT !.at = "note"]
        /\ registry' = registry /\ location' = location /\ changed' = changed
    BY <1>5 DEF SeedWrite
  <2>2. /\ seeder.files \in Seq(File) /\ seeder.place \in [File -> SUBSET Marker]
        /\ vault \in [File -> SUBSET Marker] /\ "at" \in DOMAIN seeder
    BY <1>0, <2>1 DEF SeedInv, HoneyTypeOK
  <2>3. f \in File /\ f = Head(seeder.files)
    BY <2>1, <2>2
  <2> HIDE DEF f
  <2>4. /\ vault' \in [File -> SUBSET Marker] /\ vault'[f] = seeder.place[f]
        /\ \A g \in File : g # f => vault'[g] = vault[g]
    BY <2>1, <2>2, <2>3
  <2>5. seeder'.at = "note" /\ seeder'.files = seeder.files /\ seeder'.place = seeder.place
    BY <2>1, <2>2
  <2>6. SeedInv'
    BY <2>1, <2>2, <2>3, <2>4, <2>5 DEF SeedInv
  <2>7. HoneyTypeOK'
    BY <1>0, <1>1, <2>1, <2>4, <2>5 DEF HoneyTypeOK
  <2>8. AutomatonFresh'
    BY <1>0, <1>1, <2>1 DEF AutomatonFresh
  <2>9. LocationsTrue'
    BY <1>0, <2>1, <2>2, <2>3, <2>4 DEF LocationsTrue, HoneyTypeOK
  <2> QED
    BY <1>2, <2>1, <2>4, <2>6, <2>7, <2>8, <2>9 DEF HoneyInv
<1>6. CASE SeedNote
  <2> DEFINE f == Head(seeder.files)
  <2>1. /\ seeder.at = "note" /\ LocationNoted(f)
        /\ seeder' = [seeder EXCEPT !.at = "write", !.files = Tail(seeder.files)]
        /\ registry' = registry /\ vault' = vault /\ changed' = changed
    BY <1>6 DEF SeedNote
  <2>2. /\ seeder.files \in Seq(File) /\ seeder.place \in [File -> SUBSET Marker]
        /\ seeder.files # <<>> /\ vault[f] = seeder.place[f]
    BY <1>0, <2>1 DEF SeedInv
  <2>3. f \in File /\ Tail(seeder.files) \in Seq(File)
    BY <2>2
  <2> HIDE DEF f
  <2>4. /\ seeder'.at = "write" /\ seeder'.files = Tail(seeder.files)
        /\ seeder'.place = seeder.place /\ "at" \in DOMAIN seeder'
    BY <1>0, <2>1 DEF SeedInv
  <2>5. SeedInv'
    BY <2>2, <2>3, <2>4 DEF SeedInv
  <2>6. location' \in [Marker -> SUBSET File]
    BY <1>0, <2>1, <2>3 DEF LocationNoted, HoneyTypeOK
  <2>7. HoneyTypeOK'
    BY <1>0, <1>1, <2>1, <2>4, <2>6 DEF HoneyTypeOK
  <2>8. AutomatonFresh'
    BY <1>0, <1>1, <2>1 DEF AutomatonFresh
  <2>9. LocationsTrue'
    BY <1>0, <2>1, <2>2 DEF LocationsTrue, LocationNoted
  <2> QED
    BY <1>2, <2>1, <2>5, <2>7, <2>8, <2>9 DEF HoneyInv
<1> QED
  BY <1>3, <1>4, <1>5, <1>6

LEMMA HoneyStep ==
  ASSUME HoneyInv, [HoneyNext]_honeyVars
  PROVE  HoneyInv' /\ \A f \in File : vault[f] # {} => vault'[f] = vault[f]
<1>0. HoneyTypeOK /\ ScanInv /\ SeedInv /\ AutomatonFresh /\ LocationsTrue /\ Nobody \notin Thread
  BY HoneyAssumption DEF HoneyInv
<1>1. CASE (\E m \in Marker : Delete(m)) \/ Register
  <2>1. /\ vault' = vault /\ automaton' = automaton /\ meta' = meta /\ lock' = lock
        /\ scans' = scans /\ seeder' = seeder /\ changed' = TRUE
    BY <1>1 DEF Delete, Register, Insert, scanVars
  <2>2. /\ registry' \subseteq Marker /\ location' \in [Marker -> SUBSET File]
        /\ \A m \in Marker : location'[m] \subseteq location[m]
    BY <1>0, <1>1 DEF Delete, Register, Insert, Fresh, HoneyTypeOK
  <2>3. HoneyTypeOK'
    BY <1>0, <2>1, <2>2 DEF HoneyTypeOK
  <2>4. ScanInv' /\ SeedInv' /\ AutomatonFresh' /\ LocationsTrue'
    BY <1>0, <2>1, <2>2 DEF ScanInv, SeedInv, AutomatonFresh, LocationsTrue
  <2> QED
    BY <2>1, <2>3, <2>4 DEF HoneyInv
<1>2. CASE Invalidate
  <2>1. /\ registry' = registry /\ location' = location /\ vault' = vault /\ seeder' = seeder
        /\ scans' = scans /\ lock' = lock /\ lock = Nobody /\ automaton' = {} /\ meta' = {}
        /\ changed' = FALSE
    BY <1>2 DEF Invalidate, NoAutomaton
  <2>2. \A t \in Thread : scans[t].at # "build"
    BY <1>0, <2>1 DEF ScanInv
  <2>3. HoneyTypeOK'
    BY <1>0, <2>1 DEF HoneyTypeOK
  <2>4. ScanInv' /\ SeedInv' /\ AutomatonFresh' /\ LocationsTrue'
    BY <1>0, <2>1, <2>2 DEF ScanInv, SeedInv, AutomatonFresh, LocationsTrue, NoAutomaton
  <2> QED
    BY <2>1, <2>3, <2>4 DEF HoneyInv
<1>3. CASE Crash
  <2>1. /\ registry' = registry /\ location' = location /\ vault' = vault
        /\ seeder' = [at |-> "idle"] /\ scans' = [t \in Thread |-> [at |-> "idle"]]
        /\ lock' = Nobody /\ automaton' = {} /\ meta' = {} /\ changed' = FALSE
    BY <1>3 DEF Crash, NoAutomaton, NoScan, NoSeed
  <2>2. \A t \in Thread : scans'[t].at = "idle" /\ "at" \in DOMAIN scans'[t]
    BY <2>1
  <2>3. HoneyTypeOK'
    BY <1>0, <2>1, <2>2 DEF HoneyTypeOK
  <2>4. SeedInv' /\ AutomatonFresh' /\ LocationsTrue'
    BY <1>0, <2>1, <2>2 DEF SeedInv, AutomatonFresh, LocationsTrue, NoAutomaton
  <2>5. ScanInv'
    <3>1. scans' = [t \in Thread |-> scans'[t]]
      BY <2>1
    <3> QED
      BY <2>2, <3>1 DEF ScanInv
  <2> QED
    BY <2>1, <2>3, <2>4, <2>5 DEF HoneyInv
<1>4. CASE UNCHANGED honeyVars
  BY <1>0, <1>4 DEF honeyVars, HoneyInv, HoneyTypeOK, ScanInv, SeedInv, AutomatonFresh, LocationsTrue
<1>5. CASE \E t \in Thread :
             \/ \E text \in Texts : Scan(t, text)
             \/ Ensure(t) \/ Build(t) \/ Check(t) \/ Run(t) \/ Match(t) \/ Finish(t)
  <2>1. PICK t \in Thread :
          \/ \E text \in Texts : Scan(t, text)
          \/ Ensure(t) \/ Build(t) \/ Check(t) \/ Run(t) \/ Match(t) \/ Finish(t)
    BY <1>5
  <2>2. HoneyInv' /\ vault' = vault
    <3>1. CASE \E text \in Texts : Scan(t, text)
      BY <3>1, ScanStep
    <3>2. CASE Ensure(t) \/ Build(t) \/ Check(t) \/ Run(t) \/ Match(t) \/ Finish(t)
      BY <3>2, ScanStep
    <3> QED
      BY <2>1, <3>1, <3>2
  <2> QED
    BY <2>2
<1>6. CASE SeedCreate \/ SeedSkip \/ SeedWrite \/ SeedNote \/ SeedEnd
  BY <1>6, SeedStep
<1> QED
  BY <1>1, <1>2, <1>3, <1>4, <1>5, <1>6 DEF HoneyNext

LEMMA HoneyInitInv == HoneyInit => HoneyInv
<1> SUFFICES ASSUME HoneyInit PROVE HoneyInv
  OBVIOUS
<1>1. /\ registry = {} /\ location = [m \in Marker |-> {}] /\ vault = [f \in File |-> {}]
      /\ automaton = {} /\ meta = {} /\ lock = Nobody /\ changed = FALSE
      /\ scans = [t \in Thread |-> [at |-> "idle"]] /\ seeder = [at |-> "idle"]
  BY DEF HoneyInit, NoAutomaton, NoScan, NoSeed
<1>2. \A t \in Thread : scans[t].at = "idle" /\ "at" \in DOMAIN scans[t]
  BY <1>1
<1>3. HoneyTypeOK
  BY <1>1, <1>2, HoneyAssumption DEF HoneyTypeOK
<1>4. SeedInv /\ AutomatonFresh /\ LocationsTrue
  BY <1>1, <1>2 DEF SeedInv, AutomatonFresh, LocationsTrue, NoAutomaton
<1>5. ScanInv
  <2>1. scans = [t \in Thread |-> scans[t]]
    BY <1>1
  <2> QED
    BY <1>2, <2>1 DEF ScanInv
<1> QED
  BY <1>3, <1>4, <1>5 DEF HoneyInv

(* For any markers, texts, threads and files, whatever crashes: an         *)
(* automaton no row has changed under is of the whole registry, a file's   *)
(* block is written once, and a noted location is true (scanner.py,        *)
(* seeder.py, registry.py).                                                *)
THEOREM HoneySoundThm == HoneySpec => HoneySound
<1>1. HoneyInit => HoneyInv
  BY HoneyInitInv
<1>2. HoneyInv /\ [HoneyNext]_honeyVars =>
        HoneyInv' /\ [\A f \in File : vault[f] # {} => vault'[f] = vault[f]]_honeyVars
  BY HoneyStep
<1>3. HoneyInv => HoneyTypeOK /\ AutomatonFresh /\ LocationsTrue
  BY DEF HoneyInv
<1> QED
  BY <1>1, <1>2, <1>3, PTL DEF HoneySpec, HoneySound, SeededOnce
-----------------------------------------------------------------------------
(* The automaton.  Suffixes first.                                         *)
Ends(s, t) == Len(s) <= Len(t) /\ \A i \in 1..Len(s) : s[i] = t[Len(t) - Len(s) + i]

LEMMA EndsOfEnds ==
  ASSUME NEW C, NEW r \in Seq(C), NEW s \in Seq(C), NEW t \in Seq(C)
  PROVE  /\ Ends(t, t) /\ Ends(<<>>, t)
         /\ Ends(r, s) /\ Ends(s, t) => Ends(r, t)
         /\ Ends(r, t) /\ Ends(s, t) /\ Len(r) <= Len(s) => Ends(r, s)
         /\ Ends(r, t) /\ Ends(s, t) /\ Len(r) = Len(s) => r = s
<1>1. Len(r) \in Nat /\ Len(s) \in Nat /\ Len(t) \in Nat /\ Len(<<>>) = 0
  BY LenProperties, EmptySeq
<1>2. Ends(t, t) /\ Ends(<<>>, t)
  BY <1>1 DEF Ends
<1>3. ASSUME Ends(r, s), Ends(s, t) PROVE Ends(r, t)
  <2>1. \A i \in 1..Len(r) : r[i] = t[Len(t) - Len(r) + i]
    <3> SUFFICES ASSUME NEW i \in 1..Len(r) PROVE r[i] = t[Len(t) - Len(r) + i]
      OBVIOUS
    <3> DEFINE j == Len(s) - Len(r) + i
    <3>1. r[i] = s[j] /\ j \in 1..Len(s)
      BY <1>1, <1>3 DEF Ends
    <3>2. s[j] = t[Len(t) - Len(s) + j] /\ Len(t) - Len(s) + j = Len(t) - Len(r) + i
      BY <1>1, <1>3, <3>1 DEF Ends
    <3> QED
      BY <3>1, <3>2
  <2> QED
    BY <1>1, <1>3, <2>1 DEF Ends
<1>4. ASSUME Ends(r, t), Ends(s, t), Len(r) <= Len(s) PROVE Ends(r, s)
  <2> SUFFICES ASSUME NEW i \in 1..Len(r) PROVE r[i] = s[Len(s) - Len(r) + i]
    BY <1>4 DEF Ends
  <2> DEFINE j == Len(s) - Len(r) + i
  <2>1. r[i] = t[Len(t) - Len(r) + i] /\ j \in 1..Len(s)
    BY <1>1, <1>4 DEF Ends
  <2>2. s[j] = t[Len(t) - Len(s) + j] /\ Len(t) - Len(s) + j = Len(t) - Len(r) + i
    BY <1>1, <1>4, <2>1 DEF Ends
  <2> QED
    BY <2>1, <2>2
<1>5. ASSUME Ends(r, t), Ends(s, t), Len(r) = Len(s) PROVE r = s
  <2>1. Ends(r, s)
    BY <1>1, <1>4, <1>5
  <2>2. \A i \in 1..Len(r) : r[i] = s[i]
    BY <1>1, <1>5, <2>1 DEF Ends
  <2> QED
    BY <1>5, <2>2, SeqEqual
<1> QED
  BY <1>2, <1>3, <1>4, <1>5

LEMMA EndsOfAppend ==
  ASSUME NEW C, NEW s \in Seq(C), NEW t \in Seq(C), NEW c \in C, NEW d \in C
  PROVE  Ends(Append(s, c), Append(t, d)) <=> Ends(s, t) /\ c = d
<1> DEFINE a == Append(s, c)   b == Append(t, d)   m == Len(s)   n == Len(t)
<1>1. /\ m \in Nat /\ Len(a) = m + 1 /\ a[m + 1] = c /\ \A i \in 1..m : a[i] = s[i]
      /\ n \in Nat /\ Len(b) = n + 1 /\ b[n + 1] = d /\ \A i \in 1..n : b[i] = t[i]
  BY AppendProperties, LenProperties
<1>d. /\ Ends(a, b) <=> Len(a) <= Len(b) /\ \A i \in 1..Len(a) : a[i] = b[Len(b) - Len(a) + i]
      /\ Ends(s, t) <=> m <= n /\ \A i \in 1..m : s[i] = t[n - m + i]
  BY DEF Ends
<1> HIDE DEF a, b, m, n
<1>2. ASSUME m <= n, NEW i \in 1..m
      PROVE  a[i] = s[i] /\ b[Len(b) - Len(a) + i] = t[n - m + i]
  <2>1. Len(b) - Len(a) + i = n - m + i /\ n - m + i \in 1..n
    BY <1>1, <1>2
  <2> QED
    BY <1>1, <2>1
<1>3. ASSUME m <= n PROVE Len(b) - Len(a) + (m + 1) = n + 1 /\ m + 1 \in 1..Len(a)
  BY <1>1, <1>3
<1>4. ASSUME Ends(a, b) PROVE Ends(s, t) /\ c = d
  <2>1. m <= n
    BY <1>1, <1>4, <1>d
  <2>2. a[m + 1] = b[n + 1]
    BY <1>3, <1>4, <1>d, <2>1
  <2>3. \A i \in 1..m : i \in 1..Len(a)
    BY <1>1
  <2>4. \A i \in 1..m : s[i] = t[n - m + i]
    BY <1>2, <1>4, <1>d, <2>1, <2>3
  <2> QED
    BY <1>1, <1>d, <2>1, <2>2, <2>4
<1>5. ASSUME Ends(s, t), c = d PROVE Ends(a, b)
  <2>1. \A i \in 1..Len(a) : i \in 1..m \/ i = m + 1
    BY <1>1
  <2>2. \A i \in 1..Len(a) : a[i] = b[Len(b) - Len(a) + i]
    BY <1>1, <1>2, <1>3, <1>5, <1>d, <2>1
  <2> QED
    BY <1>1, <1>5, <1>d, <2>2
<1> QED
  BY <1>4, <1>5 DEF a, b
-----------------------------------------------------------------------------
(* The trie.                                                               *)
LEMMA Nodes ==
  ASSUME NEW C, NEW P, P \subseteq Seq(C), P # {}
  PROVE  /\ Node(P) \subseteq Seq(C) /\ P \subseteq Node(P) /\ <<>> \in Node(P)
         /\ \A s \in Seq(C), c \in C : Append(s, c) \in Node(P) => s \in Node(P)
<1>1. ASSUME NEW p \in P, NEW n \in 0..Len(p)
      PROVE  /\ SubSeq(p, 1, n) \in Seq(C) /\ Len(SubSeq(p, 1, n)) = n
             /\ \A i \in 1..n : SubSeq(p, 1, n)[i] = p[i]
  <2>1. p \in Seq(C) /\ Len(p) \in Nat /\ n \in Int /\ 1 \in Int
    BY LenProperties
  <2>2. \A i \in 1..n : p[i] \in C
    BY <2>1, ElementOfSeq
  <2>3. /\ SubSeq(p, 1, n) \in Seq(C)
        /\ Len(SubSeq(p, 1, n)) = IF 1 <= n THEN n - 1 + 1 ELSE 0
        /\ \A i \in 1..(n - 1 + 1) : SubSeq(p, 1, n)[i] = p[1 + i - 1]
    BY <2>1, <2>2, SubSeqProperties
  <2>4. n - 1 + 1 = n /\ \A i \in 1..n : 1 + i - 1 = i
    BY <2>1
  <2> QED
    BY <2>3, <2>4
<1>2. \A p \in P : \A n \in 0..Len(p) : SubSeq(p, 1, n) \in Node(P)
  BY DEF Node
<1>3. ASSUME NEW w \in Node(P) PROVE \E p \in P : \E n \in 0..Len(p) : w = SubSeq(p, 1, n)
  BY DEF Node
<1>4. Node(P) \subseteq Seq(C)
  BY <1>1, <1>3
<1>5. P \subseteq Node(P)
  <2> SUFFICES ASSUME NEW p \in P PROVE p \in Node(P)
    OBVIOUS
  <2>1. p \in Seq(C) /\ Len(p) \in 0..Len(p)
    BY LenProperties
  <2>2. SubSeq(p, 1, Len(p)) = p
    BY <2>1, SubSeqFull
  <2> QED
    BY <1>2, <2>1, <2>2
<1>6. <<>> \in Node(P)
  <2>1. PICK p \in P : TRUE
    OBVIOUS
  <2>2. p \in Seq(C) /\ 0 \in 0..Len(p)
    BY LenProperties
  <2>3. SubSeq(p, 1, 0) = <<>>
    BY SubSeqEmpty
  <2> QED
    BY <1>2, <2>2, <2>3
<1>7. ASSUME NEW s \in Seq(C), NEW c \in C, Append(s, c) \in Node(P)
      PROVE  s \in Node(P)
  <2>1. PICK p \in P : \E n \in 0..Len(p) : Append(s, c) = SubSeq(p, 1, n)
    BY <1>3, <1>7
  <2>2. PICK n \in 0..Len(p) : Append(s, c) = SubSeq(p, 1, n)
    BY <2>1
  <2>3. /\ Len(SubSeq(p, 1, n)) = n /\ \A i \in 1..n : SubSeq(p, 1, n)[i] = p[i]
    BY <1>1
  <2>4. /\ Len(s) \in Nat /\ Len(Append(s, c)) = Len(s) + 1
        /\ \A i \in 1..Len(s) : Append(s, c)[i] = s[i]
    BY AppendProperties, LenProperties
  <2>5. n = Len(s) + 1 /\ Len(p) \in Nat
    BY <2>2, <2>3, <2>4, LenProperties
  <2>6. Len(s) \in 0..Len(p) /\ \A i \in 1..Len(s) : i \in 1..n
    BY <2>4, <2>5
  <2>7. /\ SubSeq(p, 1, Len(s)) \in Seq(C) /\ Len(SubSeq(p, 1, Len(s))) = Len(s)
        /\ \A i \in 1..Len(s) : SubSeq(p, 1, Len(s))[i] = p[i]
    BY <1>1, <2>6
  <2>8. \A i \in 1..Len(s) : s[i] = SubSeq(p, 1, Len(s))[i]
    BY <2>2, <2>3, <2>4, <2>6, <2>7
  <2>9. s = SubSeq(p, 1, Len(s))
    BY <2>7, <2>8, SeqEqual
  <2> QED
    BY <1>2, <2>6, <2>9
<1> QED
  BY <1>4, <1>5, <1>6, <1>7

(* s is the longest suffix of t, of m characters at most, among the nodes. *)
Longest(N, t, m, s) ==
  /\ s \in N /\ Ends(s, t) /\ Len(s) <= m
  /\ \A w \in N : Ends(w, t) /\ Len(w) <= m => Len(w) <= Len(s)

LEMMA LongestIs ==
  ASSUME NEW C, NEW N, N \subseteq Seq(C), <<>> \in N, NEW t \in Seq(C), NEW m \in Nat
  PROVE  /\ \E s \in N : Longest(N, t, m, s)
         /\ \A r, s : Longest(N, t, m, r) /\ Longest(N, t, m, s) => r = s
<1>1. ASSUME NEW w \in N PROVE w \in Seq(C) /\ Len(w) \in Nat
  BY LenProperties
<1>2. \E s \in N : Longest(N, t, m, s)
  <2> DEFINE T == {n \in 0..m : \E w \in N : Ends(w, t) /\ Len(w) = n}
  <2>1. T \subseteq Nat /\ \A k \in T : k <= m
    OBVIOUS
  <2>2. 0 \in T
    <3>1. Len(<<>>) = 0 /\ Ends(<<>>, t) /\ 0 \in 0..m
      BY EmptySeq, EndsOfEnds
    <3> QED
      BY <3>1
  <2>3. PICK n \in T : \A k \in T : k <= n
    <3> HIDE DEF T
    <3> QED
      BY <2>1, <2>2, GreatestNat
  <2>4. PICK s \in N : Ends(s, t) /\ Len(s) = n
    BY <2>3
  <2>5. \A w \in N : Ends(w, t) /\ Len(w) <= m => Len(w) \in T
    BY <1>1
  <2> QED
    BY <2>1, <2>3, <2>4, <2>5 DEF Longest
<1>3. ASSUME NEW r, NEW s, Longest(N, t, m, r), Longest(N, t, m, s) PROVE r = s
  <2>1. r \in N /\ s \in N /\ Ends(r, t) /\ Ends(s, t) /\ Len(r) <= Len(s) /\ Len(s) <= Len(r)
    BY <1>3 DEF Longest
  <2>2. Len(r) = Len(s) /\ r \in Seq(C) /\ s \in Seq(C)
    BY <1>1, <2>1
  <2> QED
    BY <2>1, <2>2, EndsOfEnds
<1> QED
  BY <1>2, <1>3
-----------------------------------------------------------------------------
(* y is the longest node that s ends with and that goes on with c, the     *)
(* root if there is none.                                                  *)
Best(N, c, s, y) ==
  /\ y \in N /\ Ends(y, s) /\ (y # <<>> => Append(y, c) \in N)
  /\ \A w \in N : Ends(w, s) /\ Append(w, c) \in N => Len(w) <= Len(y)

LEMMA BestIs ==
  ASSUME NEW C, NEW N, N \subseteq Seq(C), <<>> \in N, NEW c \in C, NEW s \in N
  PROVE  /\ \E y \in N : Best(N, c, s, y)
         /\ \A y, z : Best(N, c, s, y) /\ Best(N, c, s, z) => y = z
         /\ s = <<>> \/ Append(s, c) \in N => Best(N, c, s, s)
<1>1. ASSUME NEW w \in N PROVE w \in Seq(C) /\ Len(w) \in Nat /\ (Len(w) = 0 => w = <<>>)
  BY LenProperties, EmptySeq
<1>2. ASSUME NEW w \in N, Ends(w, s) PROVE Len(w) <= Len(s)
  BY <1>2 DEF Ends
<1>3. \E y \in N : Best(N, c, s, y)
  <2> DEFINE T == {n \in 0..Len(s) : \E w \in N : Ends(w, s) /\ Append(w, c) \in N /\ Len(w) = n}
  <2>1. T \subseteq Nat /\ Len(s) \in Nat /\ \A k \in T : k <= Len(s)
    BY <1>1
  <2>2. \A w \in N : Ends(w, s) /\ Append(w, c) \in N => Len(w) \in T
    BY <1>1, <1>2
  <2>3. CASE T = {}
    <3>1. Ends(<<>>, s) /\ \A w \in N : ~(Ends(w, s) /\ Append(w, c) \in N)
      BY <1>1, <2>2, <2>3, EndsOfEnds
    <3> QED
      BY <3>1 DEF Best
  <2>4. CASE T # {}
    <3>1. PICK n \in T : \A k \in T : k <= n
      <4> HIDE DEF T
      <4> QED
        BY <2>1, <2>4, GreatestNat
    <3>2. PICK y \in N : Ends(y, s) /\ Append(y, c) \in N /\ Len(y) = n
      BY <3>1
    <3> QED
      BY <2>2, <3>1, <3>2 DEF Best
  <2> QED
    BY <2>3, <2>4
<1>4. ASSUME NEW y, NEW z, Best(N, c, s, y), Best(N, c, s, z) PROVE y = z
  <2>1. /\ y \in N /\ z \in N /\ Ends(y, s) /\ Ends(z, s)
        /\ (y # <<>> => Append(y, c) \in N) /\ (z # <<>> => Append(z, c) \in N)
        /\ (Append(y, c) \in N => Len(y) <= Len(z)) /\ (Append(z, c) \in N => Len(z) <= Len(y))
    BY <1>4 DEF Best
  <2>2. y # <<>> => Len(y) <= Len(z)
    BY <2>1
  <2>3. z # <<>> => Len(z) <= Len(y)
    BY <2>1
  <2>4. Len(<<>>) = 0
    BY EmptySeq
  <2>5. Len(y) = Len(z)
    BY <1>1, <2>1, <2>2, <2>3, <2>4
  <2> QED
    BY <1>1, <2>1, <2>5, EndsOfEnds
<1>5. ASSUME s = <<>> \/ Append(s, c) \in N PROVE Best(N, c, s, s)
  <2>1. Ends(s, s)
    BY <1>1, EndsOfEnds
  <2> QED
    BY <1>2, <1>5, <2>1 DEF Best
<1> QED
  BY <1>3, <1>4, <1>5

(* A turn of the loop loses nothing: what goes on ends the next node too.  *)
LEMMA BestFromFail ==
  ASSUME NEW C, NEW N, N \subseteq Seq(C), <<>> \in N, NEW c \in C, NEW s \in N, s # <<>>,
         Append(s, c) \notin N, NEW r, Longest(N, s, Len(s) - 1, r), NEW y, Best(N, c, r, y)
  PROVE  Best(N, c, s, y)
<1>1. ASSUME NEW w \in N PROVE w \in Seq(C) /\ Len(w) \in Nat
  BY LenProperties
<1>2. /\ r \in N /\ Ends(r, s) /\ \A w \in N : Ends(w, s) /\ Len(w) <= Len(s) - 1 => Len(w) <= Len(r)
  BY DEF Longest
<1>3. /\ y \in N /\ Ends(y, r) /\ (y # <<>> => Append(y, c) \in N)
      /\ \A w \in N : Ends(w, r) /\ Append(w, c) \in N => Len(w) <= Len(y)
  BY DEF Best
<1>4. Ends(y, s)
  BY <1>1, <1>2, <1>3, EndsOfEnds
<1>5. ASSUME NEW w \in N, Ends(w, s), Append(w, c) \in N PROVE Len(w) <= Len(y)
  <2>1. w # s
    BY <1>5
  <2>2. Len(w) # Len(s)
    BY <1>1, <1>5, <2>1, EndsOfEnds
  <2>3. Len(w) <= Len(s)
    BY <1>5 DEF Ends
  <2>4. Len(w) <= Len(s) - 1
    BY <1>1, <2>2, <2>3
  <2>5. Len(w) <= Len(r)
    BY <1>2, <1>5, <2>4
  <2>6. Ends(w, r)
    BY <1>1, <1>2, <1>5, <2>5, EndsOfEnds
  <2> QED
    BY <1>3, <1>5, <2>6
<1> QED
  BY <1>3, <1>4, <1>5 DEF Best

(* The loop and the step after it: from the longest suffix of t that is a  *)
(* node to the longest one of t and one more character.                    *)
LEMMA AdvanceIs ==
  ASSUME NEW C, NEW P, P \subseteq Seq(C), P # {}, NEW S, S \subseteq Node(P), <<>> \in S, NEW fail,
         \A x \in S : x # <<>> => fail[x] \in S /\ Longest(Node(P), x, Len(x) - 1, fail[x]),
         NEW c \in C, NEW t \in Seq(C), NEW m \in Nat, NEW s \in S, Longest(Node(P), t, m, s)
  PROVE  Longest(Node(P), Append(t, c), m + 1, Advance(P, S, fail, s, c))
<1> DEFINE N == Node(P)
           It(g) == g = [x \in S |-> IF x = <<>> \/ Append(x, c) \in Node(P) THEN x ELSE g[fail[x]]]
           h == CHOOSE g : It(g)
<1>0. Advance(P, S, fail, s, c) = IF Append(h[s], c) \in N THEN Append(h[s], c) ELSE <<>>
  BY DEF Advance
<1>1. /\ N \subseteq Seq(C) /\ <<>> \in N
      /\ \A w \in Seq(C), d \in C : Append(w, d) \in N => w \in N
  BY Nodes
<1>d. \A g : It(g) <=> g = [x \in S |-> IF x = <<>> \/ Append(x, c) \in N THEN x ELSE g[fail[x]]]
  OBVIOUS
<1>e. /\ S \subseteq N /\ \A x \in S : x # <<>> => fail[x] \in S /\ Longest(N, x, Len(x) - 1, fail[x])
      /\ Longest(N, t, m, s)
  OBVIOUS
<1> HIDE DEF N, It
<1>l. ASSUME NEW w \in N PROVE w \in Seq(C) /\ Len(w) \in Nat /\ (Len(w) = 0 => w = <<>>)
  BY <1>1, LenProperties, EmptySeq
<1>2. \E g : It(g)
  <2> DEFINE G == [x \in S |-> CHOOSE y \in N : Best(N, c, x, y)]
  <2>1. ASSUME NEW x \in S PROVE Best(N, c, x, G[x])
    <3>1. x \in N
      BY <1>e
    <3>2. \E y \in N : Best(N, c, x, y)
      BY <1>1, <3>1, BestIs
    <3> QED
      BY <3>2
  <2>2. ASSUME NEW x \in S PROVE G[x] = IF x = <<>> \/ Append(x, c) \in N THEN x ELSE G[fail[x]]
    <3>1. CASE x = <<>> \/ Append(x, c) \in N
      BY <1>1, <1>e, <2>1, <3>1, BestIs
    <3>2. CASE ~(x = <<>> \/ Append(x, c) \in N)
      <4>1. Best(N, c, fail[x], G[fail[x]])
        BY <1>e, <2>1, <3>2
      <4>2. Best(N, c, x, G[fail[x]])
        <5> HIDE DEF G
        <5> QED
          BY <1>1, <1>e, <3>2, <4>1, BestFromFail
      <4> QED
        BY <1>1, <1>e, <2>1, <3>2, <4>2, BestIs
    <3> QED
      BY <3>1, <3>2
  <2>3. G = [x \in S |-> IF x = <<>> \/ Append(x, c) \in N THEN x ELSE G[fail[x]]]
    <3>1. DOMAIN G = S
      OBVIOUS
    <3> QED
      BY <2>2
  <2> QED
    BY <1>d, <2>3
<1>3. It(h)
  BY <1>2
<1> HIDE DEF h
<1>4. \A x \in S : h[x] = IF x = <<>> \/ Append(x, c) \in N THEN x ELSE h[fail[x]]
  BY <1>3, <1>d
<1>5. \A x \in S : Best(N, c, x, h[x])
  <2> DEFINE T == {Len(x) : x \in {y \in S : ~Best(N, c, y, h[y])}}
  <2> SUFFICES ASSUME T # {} PROVE FALSE
    OBVIOUS
  <2>1. T \subseteq Nat
    BY <1>e, <1>l
  <2>2. PICK n \in T : \A k \in T : n <= k
    <3> HIDE DEF T
    <3> QED
      BY <2>1, LeastNat
  <2>3. PICK x \in S : ~Best(N, c, x, h[x]) /\ Len(x) = n
    BY <2>2
  <2>4. x # <<>> /\ Append(x, c) \notin N
    <3> SUFFICES ASSUME x = <<>> \/ Append(x, c) \in N PROVE FALSE
      OBVIOUS
    <3>1. h[x] = x
      BY <1>4
    <3>2. x \in N
      BY <1>e
    <3>3. Best(N, c, x, x)
      BY <1>1, <3>2, BestIs
    <3> QED
      BY <2>3, <3>1, <3>3
  <2>5. fail[x] \in S /\ Longest(N, x, Len(x) - 1, fail[x])
    BY <1>e, <2>4
  <2>6. Len(fail[x]) \in Nat /\ Len(x) \in Nat /\ ~(Len(x) <= Len(fail[x]))
    <3>1. Len(fail[x]) <= Len(x) - 1
      BY <2>5 DEF Longest
    <3> QED
      BY <1>e, <1>l, <2>5, <3>1
  <2>7. Best(N, c, fail[x], h[fail[x]])
    BY <2>2, <2>3, <2>5, <2>6
  <2>8. Best(N, c, x, h[fail[x]])
    BY <1>1, <1>e, <2>4, <2>5, <2>7, BestFromFail
  <2> QED
    BY <1>4, <2>3, <2>4, <2>8
<1> DEFINE y == h[s]
<1>6. /\ y \in N /\ Ends(y, s) /\ (y # <<>> => Append(y, c) \in N)
      /\ \A w \in N : Ends(w, s) /\ Append(w, c) \in N => Len(w) <= Len(y)
  BY <1>5 DEF Best
<1> HIDE DEF y
<1>7. /\ s \in N /\ Ends(s, t) /\ Len(s) <= m
      /\ \A w \in N : Ends(w, t) /\ Len(w) <= m => Len(w) <= Len(s)
  BY <1>e DEF Longest
<1>8. /\ Append(t, c) \in Seq(C)
      /\ \A w \in N : Append(w, c) \in Seq(C) /\ Len(Append(w, c)) = Len(w) + 1
  BY <1>l, AppendProperties
<1>9. ASSUME NEW w \in N, w # <<>>, Ends(w, Append(t, c)), Len(w) <= m + 1
      PROVE  \E v \in N : /\ w = Append(v, c) /\ Len(w) = Len(v) + 1 /\ Ends(v, s)
                         /\ Append(v, c) \in N /\ Len(v) <= Len(y)
  <2> DEFINE v == Front(w)   d == Last(w)
  <2>1. v \in Seq(C) /\ d \in C /\ w = Append(v, d) /\ Len(w) = Len(v) + 1 /\ Len(v) \in Nat
    <3>1. w \in Seq(C) /\ w # <<>>
      BY <1>9, <1>l
    <3>2. v \in Seq(C) /\ d \in C /\ w = Append(v, d) /\ Len(v) = Len(w) - 1
      BY <3>1, FrontLast
    <3>3. Len(v) \in Nat /\ Len(w) \in Nat
      BY <3>1, <3>2, LenProperties
    <3> HIDE DEF v, d
    <3> QED
      BY <3>2, <3>3
  <2> HIDE DEF v, d
  <2>2. v \in N
    BY <1>1, <2>1
  <2>3. Ends(v, t) /\ d = c
    BY <1>9, <2>1, EndsOfAppend
  <2>4. Len(v) <= m
    BY <1>9, <2>1
  <2>5. Len(v) <= Len(s)
    BY <1>7, <2>2, <2>3, <2>4
  <2>6. Ends(v, s)
    BY <1>7, <1>l, <2>2, <2>3, <2>5, EndsOfEnds
  <2> QED
    BY <1>6, <2>1, <2>2, <2>3, <2>6
<1>10. CASE Append(y, c) \in N
  <2>1. Ends(y, t)
    BY <1>6, <1>7, <1>l, EndsOfEnds
  <2>2. Ends(Append(y, c), Append(t, c))
    BY <1>6, <1>l, <2>1, EndsOfAppend
  <2>3. Len(y) <= Len(s)
    BY <1>6 DEF Ends
  <2>4. Len(Append(y, c)) = Len(y) + 1 /\ Len(y) \in Nat /\ Len(s) \in Nat
    BY <1>6, <1>7, <1>8, <1>l
  <2>5. Len(Append(y, c)) <= m + 1
    BY <1>7, <2>3, <2>4
  <2>6. \A w \in N : Ends(w, Append(t, c)) /\ Len(w) <= m + 1 => Len(w) <= Len(Append(y, c))
    <3> SUFFICES ASSUME NEW w \in N, Ends(w, Append(t, c)), Len(w) <= m + 1
                 PROVE  Len(w) <= Len(Append(y, c))
      OBVIOUS
    <3>1. CASE w = <<>>
      BY <2>4, <3>1, EmptySeq
    <3>2. CASE w # <<>>
      <4>1. PICK v \in N : Len(w) = Len(v) + 1 /\ Len(v) <= Len(y)
        BY <1>9, <3>2
      <4> QED
        BY <1>l, <2>4, <4>1
    <3> QED
      BY <3>1, <3>2
  <2>7. Longest(N, Append(t, c), m + 1, Append(y, c))
    BY <1>10, <2>2, <2>5, <2>6 DEF Longest
  <2> QED
    BY <1>0, <1>10, <2>7 DEF y, N
<1>11. CASE Append(y, c) \notin N
  <2>1. y = <<>> /\ Len(y) = 0
    BY <1>6, <1>11, EmptySeq
  <2>2. \A w \in N : Ends(w, Append(t, c)) /\ Len(w) <= m + 1 => w = <<>>
    <3> SUFFICES ASSUME NEW w \in N, Ends(w, Append(t, c)), Len(w) <= m + 1, w # <<>>
                 PROVE  FALSE
      OBVIOUS
    <3>1. PICK v \in N : Append(v, c) \in N /\ Len(v) <= Len(y)
      BY <1>9
    <3>2. v = <<>>
      BY <1>l, <2>1, <3>1
    <3> QED
      BY <1>11, <2>1, <3>1, <3>2
  <2>3. Ends(<<>>, Append(t, c)) /\ Len(<<>>) = 0
    BY ZenonT(40), <1>8, EndsOfEnds, EmptySeq
  <2>4. Longest(N, Append(t, c), m + 1, <<>>)
    BY <1>1, <2>2, <2>3 DEF Longest
  <2> QED
    BY <1>0, <1>11, <2>4 DEF y, N
<1> QED
  BY <1>10, <1>11

(* The links of the nodes shorter than u being right, so is that of u.     *)
LEMMA FailStep ==
  ASSUME NEW C, NEW P, P \subseteq Seq(C), P # {}, NEW f, NEW u \in Node(P), u # <<>>,
         \A w \in Node(P) : w # <<>> /\ Len(w) < Len(u) => Longest(Node(P), w, Len(w) - 1, f[w])
  PROVE  Longest(Node(P), u, Len(u) - 1,
                 IF Len(u) <= 1 THEN <<>>
                 ELSE Advance(P, {s \in Node(P) : Len(s) < Len(u)}, f, f[Front(u)], Last(u)))
<1> DEFINE N == Node(P)   S == {s \in Node(P) : Len(s) < Len(u)}   t == Front(u)   c == Last(u)
<1>1. /\ N \subseteq Seq(C) /\ <<>> \in N
      /\ \A w \in Seq(C), d \in C : Append(w, d) \in N => w \in N
  BY Nodes
<1>2. \A w \in N : w \in Seq(C) /\ Len(w) \in Nat /\ (Len(w) = 0 => w = <<>>)
  BY <1>1, LenProperties, EmptySeq
<1>3. t \in Seq(C) /\ c \in C /\ u = Append(t, c) /\ Len(t) = Len(u) - 1 /\ Len(u) \in Nat \ {0}
  <2>1. u \in Seq(C)
    BY <1>2
  <2> QED
    BY <2>1, FrontLast
<1>4. CASE Len(u) <= 1
  <2>1. Len(u) - 1 = 0 /\ Len(<<>>) = 0
    BY <1>3, <1>4, EmptySeq
  <2>2. Ends(<<>>, u)
    BY <1>2, EndsOfEnds
  <2>3. Longest(N, u, Len(u) - 1, <<>>)
    BY <1>1, <2>1, <2>2 DEF Longest
  <2> QED
    BY <1>4, <2>3
<1>5. CASE ~(Len(u) <= 1)
  <2>1. S \subseteq N /\ <<>> \in S
    BY <1>1, <1>3, EmptySeq
  <2>2. ASSUME NEW x \in S, x # <<>> PROVE f[x] \in S /\ Longest(N, x, Len(x) - 1, f[x])
    <3>1. Longest(N, x, Len(x) - 1, f[x])
      BY <2>2
    <3>2. f[x] \in N /\ Len(f[x]) <= Len(x) - 1
      BY <3>1 DEF Longest
    <3>3. Len(f[x]) \in Nat /\ Len(x) \in Nat /\ Len(u) \in Nat /\ Len(x) < Len(u)
      BY <1>2, <1>3, <3>2
    <3>4. Len(f[x]) < Len(u)
      BY <3>2, <3>3
    <3> QED
      BY <3>1, <3>2, <3>4
  <2>3. t \in N /\ t # <<>> /\ Len(t) < Len(u)
    <3>1. t \in N
      <4>1. Append(t, c) \in N
        BY <1>3
      <4> HIDE DEF N, t, c
      <4> QED
        BY <1>1, <1>3, <4>1
    <3>2. Len(t) # 0 /\ Len(t) < Len(u)
      BY <1>3, <1>5
    <3> QED
      BY <3>1, <3>2, EmptySeq
  <2>4. f[t] \in S /\ Longest(N, t, Len(t) - 1, f[t])
    BY <2>2, <2>3
  <2>5. Len(t) - 1 \in Nat /\ (Len(t) - 1) + 1 = Len(u) - 1
    BY <1>3, <1>5
  <2> HIDE DEF S, t, c
  <2>6. Longest(Node(P), Append(t, c), (Len(t) - 1) + 1, Advance(P, S, f, f[t], c))
    BY <1>3, <2>1, <2>2, <2>4, <2>5, AdvanceIs DEF N
  <2>7. Longest(Node(P), u, Len(u) - 1, Advance(P, S, f, f[t], c))
    BY <1>3, <2>5, <2>6
  <2> QED
    BY <1>5, <2>7 DEF S, t, c
<1> QED
  BY <1>4, <1>5

(* A failure link leads to the longest node that is a proper suffix.       *)
LEMMA FailIs ==
  ASSUME NEW C, NEW P, P \subseteq Seq(C), P # {}
  PROVE  \A u \in Node(P) : u # <<>> => Longest(Node(P), u, Len(u) - 1, Fail(P)[u])
<1> DEFINE N == Node(P)
           Link(f, u) == IF Len(u) <= 1 THEN <<>>
                         ELSE Advance(P, {s \in Node(P) : Len(s) < Len(u)}, f, f[Front(u)], Last(u))
           It(f) == f = [u \in Node(P) |-> Link(f, u)]
           h == CHOOSE f : It(f)
<1>0. Fail(P) = h
  BY DEF Fail
<1>1. N \subseteq Seq(C) /\ <<>> \in N
  BY Nodes
<1>2. \A w \in N : w \in Seq(C) /\ Len(w) \in Nat
  BY <1>1, LenProperties
<1>3. ASSUME NEW f, NEW u \in N, u # <<>>,
             \A w \in N : w # <<>> /\ Len(w) < Len(u) => Longest(N, w, Len(w) - 1, f[w])
      PROVE  Longest(N, u, Len(u) - 1, Link(f, u))
  BY <1>3, FailStep
<1>d. \A f : It(f) <=> f = [u \in N |-> Link(f, u)]
  OBVIOUS
<1>e. \A f : Link(f, <<>>) = <<>>
  BY EmptySeq
<1> HIDE DEF N, Link, It
<1>4. \E f : It(f)
  <2> DEFINE F == [u \in N |-> IF u = <<>> THEN <<>> ELSE CHOOSE s \in N : Longest(N, u, Len(u) - 1, s)]
  <2>1. ASSUME NEW u \in N, u # <<>>
        PROVE  Longest(N, u, Len(u) - 1, F[u]) /\ \A s : Longest(N, u, Len(u) - 1, s) => s = F[u]
    <3>1. Len(u) - 1 \in Nat /\ u \in Seq(C)
      BY <1>2, <2>1, EmptySeq
    <3>2. \E s \in N : Longest(N, u, Len(u) - 1, s)
      BY ZenonT(40), <1>1, <3>1, LongestIs
    <3>3. Longest(N, u, Len(u) - 1, F[u])
      BY <2>1, <3>2
    <3> HIDE DEF F
    <3> QED
      BY <1>1, <3>1, <3>3, LongestIs
  <2>2. F[<<>>] = <<>> /\ DOMAIN F = N
    BY <1>1
  <2>f. F = [u \in N |-> F[u]]
    OBVIOUS
  <2> HIDE DEF F
  <2>3. ASSUME NEW u \in N PROVE F[u] = Link(F, u)
    <3>1. CASE u = <<>>
      BY <1>e, <2>2, <3>1
    <3>2. CASE u # <<>>
      <4>1. Longest(N, u, Len(u) - 1, Link(F, u))
        BY <1>3, <2>1, <3>2
      <4> QED
        BY <2>1, <3>2, <4>1
    <3> QED
      BY <3>1, <3>2
  <2>4. F = [u \in N |-> Link(F, u)]
    BY <2>f, <2>3
  <2> QED
    BY <1>d, <2>4
<1>5. It(h)
  BY <1>4
<1> HIDE DEF h
<1>6. \A u \in N : h[u] = Link(h, u)
  BY <1>5, <1>d
<1>7. \A u \in N : u # <<>> => Longest(N, u, Len(u) - 1, h[u])
  <2> DEFINE T == {Len(u) : u \in {w \in N : w # <<>> /\ ~Longest(N, w, Len(w) - 1, h[w])}}
  <2> SUFFICES ASSUME T # {} PROVE FALSE
    OBVIOUS
  <2>1. T \subseteq Nat
    BY <1>2
  <2>2. PICK n \in T : \A k \in T : n <= k
    <3> HIDE DEF T
    <3> QED
      BY <2>1, LeastNat
  <2>3. PICK u \in N : u # <<>> /\ ~Longest(N, u, Len(u) - 1, h[u]) /\ Len(u) = n
    BY <2>2
  <2>4. ASSUME NEW w \in N, w # <<>>, Len(w) < Len(u) PROVE Longest(N, w, Len(w) - 1, h[w])
    <3>1. Len(w) \notin T
      <4>1. Len(w) \in Nat /\ Len(u) \in Nat
        BY <1>2
      <4>2. ~(n <= Len(w))
        BY <2>3, <2>4, <4>1
      <4> HIDE DEF T
      <4> QED
        BY <2>2, <4>2
    <3> QED
      BY <2>4, <3>1
  <2>5. Longest(N, u, Len(u) - 1, Link(h, u))
    BY <1>3, <2>3, <2>4
  <2> QED
    BY <1>6, <2>3, <2>5
<1> QED
  BY <1>0, <1>7 DEF N

(* What is found at a node: the patterns it ends with.                     *)
LEMMA OutIs ==
  ASSUME NEW C, NEW P, P \subseteq Seq(C), P # {}, <<>> \notin P
  PROVE  \A s \in Node(P) : Out(P, s) = {p \in P : Ends(p, s)}
<1> DEFINE N == Node(P)   F == Fail(P)
           It(o) == o = [s \in Node(P) |-> IF s = <<>> THEN {} ELSE ({s} \intersect P) \union o[Fail(P)[s]]]
           h == CHOOSE o : It(o)
           G == [s \in N |-> {p \in P : Ends(p, s)}]
<1>0. \A s : Out(P, s) = h[s]
  BY DEF Out
<1>1. N \subseteq Seq(C) /\ <<>> \in N /\ P \subseteq N
  BY Nodes
<1>2. \A w \in N : w \in Seq(C) /\ Len(w) \in Nat /\ (Len(w) = 0 => w = <<>>)
  BY <1>1, LenProperties, EmptySeq
<1>3. \A s \in N : s # <<>> => Longest(N, s, Len(s) - 1, F[s])
  BY FailIs
<1>d. \A o : It(o) <=> o = [s \in N |-> IF s = <<>> THEN {} ELSE ({s} \intersect P) \union o[F[s]]]
  OBVIOUS
<1>g. G = [s \in N |-> G[s]] /\ \A s \in N : G[s] = {p \in P : Ends(p, s)}
  OBVIOUS
<1> HIDE DEF N, F, It, G
<1>4. G[<<>>] = {}
  <2> SUFFICES ASSUME NEW p \in P, Ends(p, <<>>) PROVE FALSE
    BY <1>1, <1>g
  <2>1. Len(p) <= 0 /\ Len(p) \in Nat
    BY <1>1, <1>2, EmptySeq DEF Ends
  <2> QED
    BY <1>1, <1>2, <2>1
<1>5. ASSUME NEW s \in N, s # <<>>
      PROVE  F[s] \in N /\ Len(F[s]) < Len(s) /\ G[s] = ({s} \intersect P) \union G[F[s]]
  <2> DEFINE r == F[s]
  <2>1. /\ r \in N /\ Ends(r, s) /\ Len(r) <= Len(s) - 1
        /\ \A w \in N : Ends(w, s) /\ Len(w) <= Len(s) - 1 => Len(w) <= Len(r)
    BY <1>3, <1>5 DEF Longest
  <2> HIDE DEF r
  <2>2. Len(r) < Len(s)
    BY <1>2, <2>1
  <2>3. ASSUME NEW p \in P, Ends(p, s), p # s PROVE Ends(p, r)
    <3>1. p \in N /\ Len(p) <= Len(s)
      BY <1>1, <2>3 DEF Ends
    <3>2. Len(p) # Len(s)
      BY <1>2, <2>3, <3>1, EndsOfEnds
    <3>3. Len(p) <= Len(s) - 1
      BY <1>2, <3>1, <3>2
    <3>4. Len(p) <= Len(r)
      BY <2>1, <2>3, <3>1, <3>3
    <3> QED
      BY <1>2, <2>1, <2>3, <3>1, <3>4, EndsOfEnds
  <2>4. ASSUME NEW p \in P, p = s \/ Ends(p, r) PROVE Ends(p, s)
    BY <1>1, <1>2, <2>1, <2>4, EndsOfEnds
  <2>5. G[s] = ({s} \intersect P) \union G[r]
    BY <1>g, <2>1, <2>3, <2>4
  <2> QED
    BY <2>1, <2>2, <2>5 DEF r
<1>6. \E o : It(o)
  <2>1. \A s \in N : G[s] = IF s = <<>> THEN {} ELSE ({s} \intersect P) \union G[F[s]]
    BY <1>4, <1>5
  <2>2. G = [s \in N |-> IF s = <<>> THEN {} ELSE ({s} \intersect P) \union G[F[s]]]
    BY <1>g, <2>1
  <2> QED
    BY <1>d, <2>2
<1>7. It(h)
  BY <1>6
<1> HIDE DEF h
<1>8. \A s \in N : h[s] = IF s = <<>> THEN {} ELSE ({s} \intersect P) \union h[F[s]]
  BY <1>7, <1>d
<1>9. \A s \in N : h[s] = G[s]
  <2> DEFINE T == {Len(u) : u \in {w \in N : h[w] # G[w]}}
  <2> SUFFICES ASSUME T # {} PROVE FALSE
    OBVIOUS
  <2>1. T \subseteq Nat
    BY <1>2
  <2>2. PICK n \in T : \A k \in T : n <= k
    <3> HIDE DEF T
    <3> QED
      BY <2>1, LeastNat
  <2>3. PICK s \in N : h[s] # G[s] /\ Len(s) = n
    BY <2>2
  <2>4. s # <<>>
    BY <1>4, <1>8, <2>3
  <2>5. F[s] \in N /\ Len(F[s]) < Len(s) /\ Len(F[s]) \in Nat /\ Len(s) \in Nat
    BY <1>2, <1>5, <2>4
  <2>6. Len(F[s]) \notin T
    <3>1. ~(n <= Len(F[s]))
      BY <2>3, <2>5
    <3> HIDE DEF T
    <3> QED
      BY <2>2, <3>1
  <2>7. h[F[s]] = G[F[s]]
    BY <2>5, <2>6
  <2> QED
    BY <1>5, <1>8, <2>3, <2>4, <2>7
<1> QED
  BY <1>0, <1>9, <1>g DEF N

(* A word ends the first k characters of a text if it stands there.        *)
LEMMA EndsAt ==
  ASSUME NEW C, NEW p \in Seq(C), NEW text \in Seq(C), NEW k \in 0..Len(text)
  PROVE  /\ SubSeq(text, 1, k) \in Seq(C) /\ Len(SubSeq(text, 1, k)) = k
         /\ Ends(p, SubSeq(text, 1, k))
              <=> Len(p) <= k /\ SubSeq(text, k - Len(p) + 1, k) = p
<1> DEFINE t == SubSeq(text, 1, k)   n == Len(p)   w == SubSeq(text, k - n + 1, k)
<1>1. n \in Nat /\ k \in Nat /\ Len(text) \in Nat /\ \A i \in 1..Len(text) : text[i] \in C
  BY LenProperties, ElementOfSeq
<1>2. t \in Seq(C) /\ Len(t) = k /\ \A i \in 1..k : t[i] = text[i]
  <2>1. 1 \in Int /\ k \in Int /\ \A i \in 1..k : text[i] \in C
    BY <1>1
  <2>2. t \in Seq(C) /\ Len(t) = (IF 1 <= k THEN k - 1 + 1 ELSE 0)
        /\ \A i \in 1..(k - 1 + 1) : t[i] = text[1 + i - 1]
    BY <2>1, SubSeqProperties
  <2> HIDE DEF t, n, w
  <2>3. k - 1 + 1 = k /\ (1 <= k \/ k = 0) /\ \A i \in 1..k : 1 + i - 1 = i
    BY <1>1
  <2>4. Len(t) = k
    BY <2>2, <2>3
  <2>5. ASSUME NEW i \in 1..k PROVE t[i] = text[i]
    BY <2>2, <2>3
  <2> QED
    BY <2>2, <2>4, <2>5
<1>3. ASSUME n <= k PROVE w \in Seq(C) /\ Len(w) = n /\ \A i \in 1..n : w[i] = text[k - n + i]
  <2>1. k - n + 1 \in Int /\ k \in Int /\ \A i \in (k - n + 1)..k : text[i] \in C
    BY <1>1, <1>3
  <2>2. w \in Seq(C) /\ Len(w) = (IF k - n + 1 <= k THEN k - (k - n + 1) + 1 ELSE 0)
        /\ \A i \in 1..(k - (k - n + 1) + 1) : w[i] = text[k - n + 1 + i - 1]
    BY SMTT(20), <2>1, SubSeqProperties
  <2> HIDE DEF w, n
  <2>3. k - (k - n + 1) + 1 = n /\ \A i \in 1..n : k - n + 1 + i - 1 = k - n + i
    BY <1>1
  <2>4. k - n + 1 <= k <=> 1 <= n
    BY <1>1
  <2> QED
    BY <1>1, <2>2, <2>3, <2>4
<1>4. Ends(p, t) <=> n <= k /\ \A i \in 1..n : p[i] = t[k - n + i]
  BY <1>2 DEF Ends
<1> HIDE DEF t, n, w
<1>5. n <= k => \A i \in 1..n : t[k - n + i] = text[k - n + i]
  <2> SUFFICES ASSUME n <= k, NEW i \in 1..n PROVE t[k - n + i] = text[k - n + i]
    OBVIOUS
  <2>1. k - n + i \in 1..k
    BY <1>1
  <2> QED
    BY <1>2, <2>1
<1>6. ASSUME n <= k, \A i \in 1..n : p[i] = w[i] PROVE w = p
  <2>1. Len(w) = Len(p) /\ \A i \in 1..Len(w) : w[i] = p[i]
    BY <1>3, <1>6 DEF n
  <2> QED
    BY <1>3, <1>6, <2>1, SeqEqual
<1>7. Ends(p, t) <=> n <= k /\ w = p
  BY <1>3, <1>4, <1>5, <1>6
<1> QED
  BY <1>2, <1>7 DEF t, n, w

(* The occurrences that end within the first k characters.                 *)
Within(P, text, k) ==
  {w \in P \X (0..Len(text)) :
     w[2] + Len(w[1]) <= k /\ SubSeq(text, w[2] + 1, w[2] + Len(w[1])) = w[1]}

(* One more character: the node of the automaton stays the longest one, and*)
(* the patterns found there are those that end with the character.         *)
LEMMA MatchStep ==
  ASSUME NEW C, NEW P, P \subseteq Seq(C), P # {}, <<>> \notin P, NEW text \in Seq(C),
         NEW k \in 0..Len(text) - 1, NEW u, Longest(Node(P), SubSeq(text, 1, k), k, u)
  PROVE  LET v == Goto(P, u, text[k + 1]) IN
         /\ Longest(Node(P), SubSeq(text, 1, k + 1), k + 1, v)
         /\ Within(P, text, k + 1)
              = Within(P, text, k) \union {<<m, k + 1 - Len(m)>> : m \in Out(P, v)}
<1> DEFINE N == Node(P)   F == Fail(P)   c == text[k + 1]   v == Goto(P, u, c)
           t == SubSeq(text, 1, k)   s == SubSeq(text, 1, k + 1)
<1>1. /\ N \subseteq Seq(C) /\ <<>> \in N /\ P \subseteq N
  BY Nodes
<1>2. \A w \in N : w \in Seq(C) /\ Len(w) \in Nat /\ (Len(w) = 0 => w = <<>>)
  BY <1>1, LenProperties, EmptySeq
<1>3. /\ k \in 0..Len(text) /\ k + 1 \in 0..Len(text) /\ k \in Nat /\ Len(text) \in Nat
      /\ c \in C
  BY LenProperties, ElementOfSeq
<1>4. t \in Seq(C) /\ s \in Seq(C) /\ Len(t) = k /\ Len(s) = k + 1
  <2>1. <<>> \in Seq(C)
    OBVIOUS
  <2> QED
    BY <1>3, <2>1, EndsAt
<1>5. s = Append(t, c)
  <2>1. /\ Append(t, c) \in Seq(C) /\ Len(Append(t, c)) = k + 1 /\ Append(t, c)[k + 1] = c
        /\ \A i \in 1..k : Append(t, c)[i] = t[i]
    BY <1>3, <1>4, AppendProperties
  <2>2. \A j \in 0..Len(text) : \A i \in 1..j : SubSeq(text, 1, j)[i] = text[i]
    <3> SUFFICES ASSUME NEW j \in 0..Len(text), NEW i \in 1..j PROVE SubSeq(text, 1, j)[i] = text[i]
      OBVIOUS
    <3>1. 1 \in Int /\ j \in Int /\ \A x \in 1..j : text[x] \in C
      BY <1>3, ElementOfSeq
    <3>2. \A x \in 1..(j - 1 + 1) : SubSeq(text, 1, j)[x] = text[1 + x - 1]
      BY <3>1, SubSeqProperties
    <3>3. i \in 1..(j - 1 + 1) /\ 1 + i - 1 = i
      OBVIOUS
    <3> QED
      BY <3>2, <3>3
  <2>3. \A i \in 1..k + 1 : s[i] = text[i]
    BY <1>3, <2>2
  <2>4. \A i \in 1..k : t[i] = text[i]
    BY <1>3, <2>2
  <2> HIDE DEF s, t
  <2>5. \A i \in 1..k + 1 : s[i] = Append(t, c)[i]
    <3> SUFFICES ASSUME NEW i \in 1..k + 1 PROVE s[i] = Append(t, c)[i]
      OBVIOUS
    <3>1. CASE i = k + 1
      BY <1>3, <2>1, <2>3, <3>1
    <3>2. CASE i \in 1..k
      BY <2>1, <2>3, <2>4, <3>2
    <3>3. i = k + 1 \/ i \in 1..k
      BY <1>3
    <3> QED
      BY <3>1, <3>2, <3>3
  <2> QED
    BY <1>4, <2>1, <2>5, SeqEqual
<1>6. Longest(N, s, k + 1, v)
  <2>1. \A x \in N : x # <<>> => F[x] \in N /\ Longest(N, x, Len(x) - 1, F[x])
    BY FailIs DEF Longest
  <2>2. u \in N /\ Longest(N, t, k, u)
    BY DEF Longest
  <2>3. Longest(N, Append(t, c), k + 1, Advance(P, N, F, u, c))
    <3> HIDE DEF F, c, t
    <3> QED
      BY <1>1, <1>3, <1>4, <2>1, <2>2, AdvanceIs
  <2> QED
    BY <1>5, <2>3 DEF Goto
<1>7. v \in N /\ Ends(v, s) /\ \A w \in N : Ends(w, s) /\ Len(w) <= k + 1 => Len(w) <= Len(v)
  BY <1>6 DEF Longest
<1>8. Out(P, v) = {p \in P : Ends(p, v)}
  BY <1>7, OutIs
<1>9. \A p \in P : p \in Seq(C) /\ Len(p) \in Nat /\ p \in N
  BY <1>1, <1>2
<1> HIDE DEF N, F, v, s, t, c
<1>10. Out(P, v) = {p \in P : Ends(p, s)}
  <2>1. ASSUME NEW p \in P, Ends(p, v) PROVE Ends(p, s)
    BY <1>2, <1>4, <1>7, <1>9, <2>1, EndsOfEnds
  <2>2. ASSUME NEW p \in P, Ends(p, s) PROVE Ends(p, v)
    <3>1. Len(p) <= k + 1
      BY <1>4, <2>2 DEF Ends
    <3>2. Len(p) <= Len(v)
      BY <1>7, <1>9, <2>2, <3>1
    <3> QED
      BY <1>2, <1>4, <1>7, <1>9, <2>2, <3>2, EndsOfEnds
  <2> QED
    BY <1>8, <2>1, <2>2
<1>11. \A p \in P : Ends(p, s) <=> Len(p) <= k + 1 /\ SubSeq(text, k + 1 - Len(p) + 1, k + 1) = p
  <2> SUFFICES ASSUME NEW p \in P
               PROVE  Ends(p, s) <=> Len(p) <= k + 1 /\ SubSeq(text, k + 1 - Len(p) + 1, k + 1) = p
    OBVIOUS
  <2>1. p \in Seq(C)
    BY <1>9
  <2> QED
    BY <1>3, <2>1, EndsAt DEF s
<1>12. \A p \in P : p \in Out(P, v) <=> Len(p) <= k + 1 /\ SubSeq(text, k + 1 - Len(p) + 1, k + 1) = p
  BY <1>10, <1>11
<1> DEFINE A == Within(P, text, k)   B == Within(P, text, k + 1)   H == {<<m, k + 1 - Len(m)>> : m \in Out(P, v)}
<1>13. ASSUME NEW w \in B PROVE w \in A \union H
  <2>1. /\ w \in P \X (0..Len(text)) /\ w[2] + Len(w[1]) <= k + 1
        /\ SubSeq(text, w[2] + 1, w[2] + Len(w[1])) = w[1]
    BY <1>13 DEF Within
  <2>2. w[1] \in P /\ w[2] \in Nat /\ Len(w[1]) \in Nat /\ w = <<w[1], w[2]>>
    BY <1>9, <2>1
  <2>3. CASE w[2] + Len(w[1]) <= k
    BY <2>1, <2>3 DEF Within
  <2>4. CASE ~(w[2] + Len(w[1]) <= k)
    <3>1. w[2] + Len(w[1]) = k + 1 /\ k + 1 - Len(w[1]) = w[2] /\ Len(w[1]) <= k + 1
      BY SMTT(20), <1>3, <2>1, <2>2, <2>4
    <3>2. w[1] \in Out(P, v)
      BY <1>12, <2>1, <2>2, <3>1
    <3> QED
      BY <2>2, <3>1, <3>2
  <2> QED
    BY <2>3, <2>4
<1>14. ASSUME NEW w \in A PROVE w \in B
  <2>1. /\ w \in P \X (0..Len(text)) /\ w[2] + Len(w[1]) <= k
        /\ SubSeq(text, w[2] + 1, w[2] + Len(w[1])) = w[1]
    BY <1>14 DEF Within
  <2>2. w[1] \in P /\ w[2] \in Nat /\ Len(w[1]) \in Nat
    BY <1>9, <2>1
  <2>3. w[2] + Len(w[1]) <= k + 1
    BY <1>3, <2>1, <2>2
  <2> QED
    BY <2>1, <2>3 DEF Within
<1>15. ASSUME NEW m \in Out(P, v) PROVE <<m, k + 1 - Len(m)>> \in B
  <2>1. m \in P /\ Len(m) <= k + 1 /\ SubSeq(text, k + 1 - Len(m) + 1, k + 1) = m
    BY <1>10, <1>12
  <2>2. Len(m) \in Nat /\ k + 1 - Len(m) \in 0..Len(text) /\ (k + 1 - Len(m)) + Len(m) = k + 1
    BY <1>3, <1>9, <2>1
  <2> DEFINE w == <<m, k + 1 - Len(m)>>
  <2>3. /\ w \in P \X (0..Len(text)) /\ w[1] = m /\ w[2] + Len(w[1]) = k + 1
        /\ SubSeq(text, w[2] + 1, w[2] + Len(w[1])) = w[1]
    BY <2>1, <2>2
  <2>4. w[2] + Len(w[1]) <= k + 1
    BY <1>3, <2>3
  <2> HIDE DEF w
  <2>5. w \in B
    BY <2>3, <2>4 DEF Within
  <2> QED
    BY <2>5 DEF w
<1>16. B = A \union H
  <2> HIDE DEF A, B
  <2> QED
    BY <1>13, <1>14, <1>15
<1> QED
  BY <1>6, <1>16 DEF v, s, c, N
-----------------------------------------------------------------------------
(* A scan under way: the node is the longest one that ends what was read,  *)
(* and the hits are the occurrences in it.                                 *)
Pairs(hs) == {<<h.marker, h.offset>> : h \in hs}
Matching(s) ==
  /\ DOMAIN s = {"at", "text", "patterns", "node", "pos", "hits"}
  /\ s = [x \in DOMAIN s |-> s[x]] /\ s.at = "match"
  /\ s.text \in Texts /\ s.patterns \in SUBSET Marker /\ s.patterns # {} /\ s.pos \in 0..Len(s.text)
  /\ Longest(Node(s.patterns), SubSeq(s.text, 1, s.pos), s.pos, s.node)
  /\ Pairs(s.hits) = Within(s.patterns, s.text, s.pos)
Scanned(s) ==
  /\ s.at \in {"ensure", "build", "check", "run"} => s.text \in Texts
  /\ s.at = "match" => Matching(s)
  /\ s.at = "done" => Pairs(s.hits) = Occurrences(s.patterns, s.text)
HitsInv == HoneyInv /\ \A t \in Thread : Scanned(scans[t])

LEMMA WithinIs ==
  ASSUME NEW P \in SUBSET Marker, NEW text \in Texts
  PROVE  Within(P, text, 0) = {} /\ Within(P, text, Len(text)) = Occurrences(P, text)
<1>1. \A p \in P : Len(p) \in Nat /\ Len(p) # 0
  BY HoneyAssumption, LenProperties, EmptySeq
<1>2. \A w \in P \X (0..Len(text)) : ~(w[2] + Len(w[1]) <= 0)
  <2> SUFFICES ASSUME NEW p \in P, NEW k \in 0..Len(text) PROVE ~(k + Len(p) <= 0)
    OBVIOUS
  <2> QED
    BY <1>1
<1> QED
  BY <1>2 DEF Within, Occurrences

Found(ms, k, names) == {[marker |-> m, offset |-> k + 1 - Len(m), known |-> m \in names] : m \in ms}
Places(ms, k) == {<<m, k + 1 - Len(m)>> : m \in ms}

LEMMA PairsOf == ASSUME NEW ms, NEW k, NEW names PROVE Pairs(Found(ms, k, names)) = Places(ms, k)
<1> DEFINE rec(m) == [marker |-> m, offset |-> k + 1 - Len(m), known |-> m \in names]
           hs == {rec(m) : m \in ms}
<1>1. \A m : rec(m).marker = m /\ rec(m).offset = k + 1 - Len(m)
  OBVIOUS
<1> HIDE DEF rec
<1>2. Pairs(hs) = {<<rec(m).marker, rec(m).offset>> : m \in ms}
  <2>1. Pairs(hs) = {<<h.marker, h.offset>> : h \in hs}
    BY DEF Pairs
  <2> QED
    BY <2>1
<1>3. {<<rec(m).marker, rec(m).offset>> : m \in ms} = Places(ms, k)
  BY <1>1 DEF Places
<1>4. hs = Found(ms, k, names)
  BY Zenon DEF rec, Found
<1> QED
  BY <1>2, <1>3, <1>4

LEMMA MatchScanned ==
  ASSUME NEW s, Matching(s), s.pos < Len(s.text),
         NEW v, v = Goto(s.patterns, s.node, s.text[s.pos + 1]), NEW found,
         Pairs(found) = {<<m, s.pos + 1 - Len(m)>> : m \in Out(s.patterns, v)}
  PROVE  Matching([s EXCEPT !.node = v, !.pos = s.pos + 1, !.hits = s.hits \union found])
<1> DEFINE P == s.patterns   text == s.text   k == s.pos
           r == [s EXCEPT !.node = v, !.pos = s.pos + 1, !.hits = s.hits \union found]
<1>1. /\ text \in Texts /\ P \in SUBSET Marker /\ P # {} /\ k \in 0..Len(text)
      /\ Longest(Node(P), SubSeq(text, 1, k), k, s.node) /\ Pairs(s.hits) = Within(P, text, k)
  BY DEF Matching
<1>2. /\ DOMAIN r = DOMAIN s /\ r = [x \in DOMAIN r |-> r[x]] /\ r.at = s.at
      /\ r.text = text /\ r.patterns = P /\ r.node = v /\ r.pos = k + 1 /\ r.hits = s.hits \union found
  <2>1. DOMAIN s = {"at", "text", "patterns", "node", "pos", "hits"} /\ s = [x \in DOMAIN s |-> s[x]]
    BY DEF Matching
  <2> DEFINE n == k + 1   hs == s.hits \union found
             q == [s EXCEPT !.node = v, !.pos = n, !.hits = hs]
  <2> HIDE DEF n, hs
  <2>2. /\ DOMAIN q = DOMAIN s /\ q = [x \in DOMAIN q |-> q[x]] /\ q.at = s.at /\ q.text = s.text
        /\ q.patterns = s.patterns /\ q.node = v /\ q.pos = n /\ q.hits = hs
    BY <2>1
  <2> HIDE DEF q
  <2>3. q = r
    BY DEF q, n, hs
  <2> QED
    BY <2>2, <2>3 DEF n, hs
<1>3. P \subseteq Seq(Char) /\ <<>> \notin P /\ text \in Seq(Char)
  BY <1>1, HoneyAssumption
<1>4. k \in 0..Len(text) - 1 /\ k + 1 \in 0..Len(text)
  <2>1. Len(text) \in Nat
    BY <1>3, LenProperties
  <2> QED
    BY <1>1, <2>1
<1>5. /\ Longest(Node(P), SubSeq(text, 1, k + 1), k + 1, v)
      /\ Within(P, text, k + 1) = Within(P, text, k) \union {<<m, k + 1 - Len(m)>> : m \in Out(P, v)}
  <2> HIDE DEF P, text, k
  <2>1. v = Goto(P, s.node, text[k + 1])
    BY DEF P, text, k
  <2> QED
    BY <1>1, <1>3, <1>4, <2>1, MatchStep
<1>6. Pairs(s.hits \union found) = Within(P, text, k + 1)
  BY <1>1, <1>5 DEF Pairs
<1>7. /\ DOMAIN r = {"at", "text", "patterns", "node", "pos", "hits"} /\ r = [x \in DOMAIN r |-> r[x]]
      /\ r.at = "match" /\ r.text = text /\ r.patterns = P /\ r.node = v /\ r.pos = k + 1
      /\ r.hits = s.hits \union found
  BY <1>2 DEF Matching
<1> HIDE DEF r, P, text, k
<1> QED
  BY <1>1, <1>4, <1>5, <1>6, <1>7 DEF Matching, r

LEMMA HitsStep == HitsInv /\ [HoneyNext]_honeyVars => HitsInv'
<1> SUFFICES ASSUME HitsInv, [HoneyNext]_honeyVars PROVE HitsInv'
  OBVIOUS
<1>0. /\ HoneyInv /\ \A t \in Thread : Scanned(scans[t])
      /\ scans = [t \in Thread |-> scans[t]] /\ automaton \in SUBSET Marker
  BY DEF HitsInv, HoneyInv, ScanInv, HoneyTypeOK
<1>1. HoneyInv'
  BY <1>0, HoneyStep
<1>2. ASSUME scans' = scans PROVE HitsInv'
  BY <1>0, <1>1, <1>2 DEF HitsInv
<1>3. ASSUME NEW t \in Thread, NEW s, scans' = [scans EXCEPT ![t] = s], Scanned(s) PROVE HitsInv'
  <2>1. scans'[t] = s /\ \A u \in Thread : u # t => scans'[u] = scans[u]
    BY <1>0, <1>3
  <2> QED
    BY <1>0, <1>1, <1>3, <2>1 DEF HitsInv
<1>4. ASSUME NEW t \in Thread, NEW text \in Texts, Scan(t, text) PROVE HitsInv'
  <2>1. scans' = [scans EXCEPT ![t] = [at |-> "ensure", text |-> text]]
    BY <1>4 DEF Scan
  <2>2. Scanned([at |-> "ensure", text |-> text])
    BY DEF Scanned
  <2> QED
    BY <1>3, <2>1, <2>2
<1>5. ASSUME NEW t \in Thread, Ensure(t) PROVE HitsInv'
  <2>0. scans[t].at = "ensure" /\ scans[t].text \in Texts /\ "at" \in DOMAIN scans[t]
    BY <1>0, <1>5 DEF Ensure, Scanned, HoneyInv, ScanInv
  <2>1. CASE automaton # NoAutomaton
    <3>1. scans' = [scans EXCEPT ![t] = [scans[t] EXCEPT !.at = "check"]]
      BY <1>0, <1>5, <2>1 DEF Ensure
    <3>2. /\ [scans[t] EXCEPT !.at = "check"].at = "check"
          /\ [scans[t] EXCEPT !.at = "check"].text = scans[t].text
      BY <2>0
    <3>3. Scanned([scans[t] EXCEPT !.at = "check"])
      BY <2>0, <3>2 DEF Scanned
    <3> QED
      BY <1>3, <3>1, <3>3
  <2>2. CASE automaton = NoAutomaton
    <3> DEFINE s == [at |-> "build", text |-> scans[t].text, markers |-> registry]
    <3>1. scans' = [scans EXCEPT ![t] = s]
      BY <1>5, <2>2 DEF Ensure
    <3>2. Scanned(s)
      BY <2>0 DEF Scanned
    <3> QED
      BY <1>3, <3>1, <3>2
  <2> QED
    BY <2>1, <2>2
<1>6. ASSUME NEW t \in Thread, Build(t) PROVE HitsInv'
  <2> DEFINE s == [at |-> "check", text |-> scans[t].text]
  <2>1. scans' = [scans EXCEPT ![t] = s] /\ scans[t].at = "build"
    BY <1>6 DEF Build
  <2>2. Scanned(s)
    BY <1>0, <2>1 DEF Scanned
  <2> QED
    BY <1>3, <2>1, <2>2
<1>7. ASSUME NEW t \in Thread, Check(t) PROVE HitsInv'
  <2>0. scans[t].at = "check" /\ scans[t].text \in Texts
    BY <1>0, <1>7 DEF Check, Scanned
  <2>1. CASE automaton = NoAutomaton
    <3> DEFINE s == [at |-> "done", text |-> scans[t].text, patterns |-> {}, hits |-> {}]
    <3>1. scans' = [scans EXCEPT ![t] = s]
      BY <1>0, <1>7, <2>1 DEF Check
    <3>2. Occurrences({}, scans[t].text) = {} /\ Pairs({}) = {}
      BY DEF Occurrences, Pairs
    <3>3. Scanned(s)
      BY <3>2 DEF Scanned
    <3> QED
      BY <1>3, <3>1, <3>3
  <2>2. CASE automaton # NoAutomaton
    <3> DEFINE s == [at |-> "run", text |-> scans[t].text]
    <3>1. scans' = [scans EXCEPT ![t] = s]
      BY <1>0, <1>7, <2>2 DEF Check
    <3>2. Scanned(s)
      BY <2>0 DEF Scanned
    <3> QED
      BY <1>3, <3>1, <3>2
  <2> QED
    BY <2>1, <2>2
<1>8. ASSUME NEW t \in Thread, Run(t) PROVE HitsInv'
  <2>0. scans[t].at = "run" /\ scans[t].text \in Texts
    BY <1>0, <1>8 DEF Run, Scanned
  <2>1. CASE automaton = NoAutomaton
    <3> DEFINE s == [at |-> "raised", text |-> scans[t].text]
    <3>1. scans' = [scans EXCEPT ![t] = s]
      BY <1>0, <1>8, <2>1 DEF Run
    <3>2. Scanned(s)
      BY DEF Scanned
    <3> QED
      BY <1>3, <3>1, <3>2
  <2>2. CASE automaton # NoAutomaton
    <3> DEFINE text == scans[t].text   P == automaton
               s == [at |-> "match", text |-> text, patterns |-> P, node |-> <<>>, pos |-> 0, hits |-> {}]
    <3>1. scans' = [scans EXCEPT ![t] = s]
      BY <1>0, <1>8, <2>2 DEF Run
    <3>2. P \in SUBSET Marker /\ P # {} /\ text \in Texts
      BY <1>0, <2>0, <2>2 DEF NoAutomaton
    <3> HIDE DEF text, P
    <3>3. P \subseteq Seq(Char) /\ text \in Seq(Char) /\ Len(text) \in Nat
      BY <3>2, HoneyAssumption, LenProperties
    <3>4. <<>> \in Node(P) /\ Node(P) \subseteq Seq(Char)
      BY <3>2, <3>3, Nodes
    <3>5. Longest(Node(P), SubSeq(text, 1, 0), 0, <<>>)
      <4>1. SubSeq(text, 1, 0) = <<>> /\ Len(<<>>) = 0 /\ <<>> \in Seq(Char)
        BY SubSeqEmpty, EmptySeq
      <4>2. Ends(<<>>, <<>>)
        BY <4>1, EndsOfEnds
      <4>3. Longest(Node(P), <<>>, 0, <<>>)
        BY <3>4, <4>1, <4>2 DEF Longest
      <4> QED
        BY <4>1, <4>3
    <3>6. Within(P, text, 0) = {} /\ Pairs({}) = {}
      BY <3>2, WithinIs DEF Pairs
    <3>7. 0 \in 0..Len(text)
      BY <3>3
    <3>8. Matching(s)
      BY <3>2, <3>5, <3>6, <3>7 DEF Matching
    <3>9. Scanned(s)
      BY <3>8 DEF Scanned
    <3> QED
      BY <1>3, <3>1, <3>9
  <2> QED
    BY <2>1, <2>2
<1>9. ASSUME NEW t \in Thread, Match(t) PROVE HitsInv'
  <2> DEFINE s == scans[t]
             v == Goto(s.patterns, s.node, s.text[s.pos + 1])
             found == {[marker |-> m, offset |-> s.pos + 1 - Len(m), known |-> m \in meta] :
                         m \in Out(s.patterns, v)}
             next == [s EXCEPT !.node = v, !.pos = s.pos + 1, !.hits = s.hits \union found]
  <2>1. s.at = "match" /\ s.pos < Len(s.text)
    BY <1>9 DEF Match
  <2>2. scans' = [scans EXCEPT ![t] = next]
    BY <1>0, <1>9 DEF Match
  <2>3. Matching(s)
    BY <1>0, <2>1 DEF Scanned
  <2>4. Pairs(found) = {<<m, s.pos + 1 - Len(m)>> : m \in Out(s.patterns, v)}
    <3>1. Pairs(Found(Out(s.patterns, v), s.pos, meta)) = Places(Out(s.patterns, v), s.pos)
      BY PairsOf
    <3>2. found = Found(Out(s.patterns, v), s.pos, meta)
      BY DEF Found
    <3> QED
      BY <3>1, <3>2, Zenon DEF Places
  <2> HIDE DEF s, v, found
  <2>5. Matching(next)
    BY <2>1, <2>3, <2>4, MatchScanned DEF v
  <2>6. next.at = "match"
    BY <2>5 DEF Matching
  <2> HIDE DEF next
  <2>7. Scanned(next)
    BY <2>5, <2>6 DEF Scanned
  <2> QED
    BY <1>3, <2>2, <2>7
<1>10. ASSUME NEW t \in Thread, Finish(t) PROVE HitsInv'
  <2> DEFINE s == scans[t]
             next == [at |-> "done", text |-> s.text, patterns |-> s.patterns, hits |-> s.hits]
  <2>1. s.at = "match" /\ s.pos = Len(s.text) /\ scans' = [scans EXCEPT ![t] = next]
    BY <1>0, <1>10 DEF Finish
  <2>2. Matching(s)
    BY <1>0, <2>1 DEF Scanned
  <2>3. Pairs(s.hits) = Occurrences(s.patterns, s.text)
    BY <2>1, <2>2, WithinIs DEF Matching
  <2>4. Scanned(next)
    BY <2>3 DEF Scanned
  <2> QED
    BY <1>3, <2>1, <2>4
<1>11. ASSUME Crash PROVE HitsInv'
  <2>1. \A t \in Thread : scans'[t].at = "idle"
    BY <1>11 DEF Crash, NoScan
  <2> QED
    BY <1>1, <2>1 DEF HitsInv, Scanned
<1>12. ASSUME \/ \E m \in Marker : Delete(m)
              \/ Register \/ Invalidate \/ SeedCreate \/ SeedSkip \/ SeedWrite \/ SeedNote \/ SeedEnd
              \/ UNCHANGED honeyVars
       PROVE  HitsInv'
  <2>1. scans' = scans
    BY <1>12 DEF Delete, Register, Invalidate, SeedCreate, SeedSkip, SeedWrite, SeedNote, SeedEnd,
                 honeyVars, scanVars
  <2> QED
    BY <1>2, <2>1
<1> QED
  BY <1>4, <1>5, <1>6, <1>7, <1>8, <1>9, <1>10, <1>11, <1>12 DEF HoneyNext

LEMMA HitsInitInv == HoneyInit => HitsInv
<1> SUFFICES ASSUME HoneyInit PROVE HitsInv
  OBVIOUS
<1>1. \A t \in Thread : scans[t].at = "idle"
  BY DEF HoneyInit, NoScan
<1>2. \A t \in Thread : Scanned(scans[t])
  BY <1>1 DEF Scanned
<1> QED
  BY <1>2, HoneyInitInv DEF HitsInv

LEMMA HitsSound == HitsInv => HitsExact
  BY DEF HitsInv, Scanned, HitsExact, Pairs
-----------------------------------------------------------------------------
(* The detector.  The hits in the order of their sort key, and the list    *)
(* after so many of them.                                                  *)
LEMMA SortedHits ==
  ASSUME NEW S \in SUBSET Interval
  PROVE  LET o == Sorted(S)   n == Cardinality(S) IN
         /\ n \in Nat /\ DOMAIN o = 1..n
         /\ \A k \in 1..n : o[k] \in S
         /\ \A x \in S : \E k \in 1..n : o[k] = x
         /\ \A j, k \in 1..n : j < k => Before(o[j], o[k])
<1> DEFINE before == {p \in S \X S : Before(p[1], p[2])}
<1>1. \A x, y \in S : <<x, y>> \in before <=> Before(x, y)
  OBVIOUS
<1>2. IsFiniteSet(S)
  <2>1. TextLen \in Nat /\ Interval \in SUBSET ((0..TextLen) \X (0..TextLen))
    BY DetectorAssumption DEF Interval
  <2>2. IsFiniteSet((0..TextLen) \X (0..TextLen))
    <3>1. IsFiniteSet(0..TextLen)
      BY <2>1, FS_Interval
    <3> QED
      BY <3>1, FS_Product
  <2> QED
    BY <2>1, <2>2, FS_Subset
<1>3. \A x \in S : x[1] \in Int /\ x[2] \in Int /\ x = <<x[1], x[2]>>
  BY DEF Interval
<1>4. \A x \in S : <<x, x>> \notin before
  BY <1>1, <1>3 DEF Before, Start, Length
<1>5. \A x, y, z \in S : <<x, y>> \in before /\ <<y, z>> \in before => <<x, z>> \in before
  <2> SUFFICES ASSUME NEW x \in S, NEW y \in S, NEW z \in S, Before(x, y), Before(y, z)
               PROVE  Before(x, z)
    BY <1>1
  <2> QED
    BY <1>3 DEF Before, Start, Length
<1>6. \A x, y \in S : x = y \/ <<x, y>> \in before \/ <<y, x>> \in before
  <2> SUFFICES ASSUME NEW x \in S, NEW y \in S, ~Before(x, y), ~Before(y, x) PROVE x = y
    BY <1>1
  <2>1. x[1] = y[1] /\ x[2] = y[2]
    BY <1>3 DEF Before, Start, Length
  <2> QED
    BY <1>3, <2>1
<1> HIDE DEF before
<1>7. Sorted(S) = InOrder(S, before)
  BY DEF Sorted, before
<1> DEFINE o == InOrder(S, before)   n == Cardinality(S)
<1>8. /\ n \in Nat /\ DOMAIN o = 1..n
      /\ \A k \in 1..n : o[k] \in S
      /\ \A x \in S : \E k \in 1..n : o[k] = x
      /\ \A j, k \in 1..n : j < k => <<o[j], o[k]>> \in before
  BY <1>2, <1>4, <1>5, <1>6, InOrderIs
<1> HIDE DEF o, n
<1>9. \A j, k \in 1..n : j < k => Before(o[j], o[k])
  BY <1>1, <1>8
<1> QED
  BY <1>7, <1>8, <1>9 DEF o, n

LEMMA MergedSoFar ==
  ASSUME NEW S \in SUBSET Interval
  PROVE  \E acc : /\ acc[0] = <<>> /\ MergeAll(S) = acc[Cardinality(S)]
                  /\ \A k \in 1..Cardinality(S) : acc[k] = Merge(acc[k - 1], Sorted(S)[k])
<1> DEFINE o == Sorted(S)   n == Cardinality(S)   A == Seq(Interval)
           It(g) == g = [s \in SUBSET DOMAIN o |-> IF s = {} THEN <<>> ELSE Merge(g[s \ {Max(s)}], o[Max(s)])]
           h == CHOOSE g : It(g)
           step == [p \in A \X (1..n) |-> Merge(p[1], o[p[2]])]
<1>1. MergeAll(S) = h[DOMAIN o]
  BY DEF MergeAll, FoldLeft, MapThenFoldSet
<1>2. n \in Nat /\ DOMAIN o = 1..n /\ \A k \in 1..n : o[k] \in Interval
  BY SortedHits
<1>d. \A g : It(g) <=> g = [s \in SUBSET (1..n) |-> IF s = {} THEN <<>> ELSE Merge(g[s \ {Max(s)}], o[Max(s)])]
  BY <1>2
<1> HIDE DEF It, o, n
<1>3. \A a \in A, k \in 1..n : step[<<a, k>>] = Merge(a, o[k]) /\ step[<<a, k>>] \in A
  <2>1. \A a \in A, k \in 1..n : step[<<a, k>>] = Merge(a, o[k])
    OBVIOUS
  <2>2. \A a \in A, h1 \in Interval : Merge(a, h1) \in A
    <3> SUFFICES ASSUME NEW a \in A, NEW h1 \in Interval PROVE Merge(a, h1) \in A
      OBVIOUS
    <3>1. a = <<>> \/ Front(a) \in A
      BY FrontLast
    <3> QED
      BY <3>1, AppendProperties DEF Merge
  <2> QED
    BY <1>2, <2>1, <2>2
<1>4. <<>> \in A
  OBVIOUS
<1> HIDE DEF A, step
<1>5. PICK g : /\ g = [s \in SUBSET (1..n) |-> g[s]]
               /\ \A s \in SUBSET (1..n) :
                    /\ g[s] \in A
                    /\ g[s] = IF s = {} THEN <<>> ELSE step[<<g[s \ {Max(s)}], Max(s)>>]
               /\ \A s \in SUBSET (1..n) : s # {} => g[s \ {Max(s)}] \in A /\ Max(s) \in 1..n
  BY <1>2, <1>3, <1>4, FoldIn
<1>6. It(g)
  <2>1. \A s \in SUBSET (1..n) : g[s] = IF s = {} THEN <<>> ELSE Merge(g[s \ {Max(s)}], o[Max(s)])
    BY <1>3, <1>5
  <2>2. g = [s \in SUBSET (1..n) |-> IF s = {} THEN <<>> ELSE Merge(g[s \ {Max(s)}], o[Max(s)])]
    BY <1>5, <2>1
  <2> QED
    BY <1>d, <2>2
<1>7. It(h)
  BY <1>6
<1> HIDE DEF h
<1>8. \A s \in SUBSET (1..n) : h[s] = IF s = {} THEN <<>> ELSE Merge(h[s \ {Max(s)}], o[Max(s)])
  BY <1>7, <1>d
<1> DEFINE acc == [k \in 0..n |-> h[1..k]]
<1>9. acc[0] = <<>>
  <2>1. 1..0 = {} /\ {} \in SUBSET (1..n) /\ 0 \in 0..n
    BY <1>2
  <2> QED
    BY <1>8, <2>1
<1>10. ASSUME NEW k \in 1..n PROVE acc[k] = Merge(acc[k - 1], o[k])
  <2>1. 1..k \in SUBSET (1..n) /\ 1..k # {} /\ Max(1..k) = k /\ (1..k) \ {Max(1..k)} = 1..(k - 1)
    BY <1>2, LastOfUpTo
  <2>2. k \in 0..n /\ k - 1 \in 0..n
    BY <1>2
  <2>3. h[1..k] = Merge(h[1..(k - 1)], o[k])
    BY <1>8, <2>1
  <2> QED
    BY <2>2, <2>3
<1>11. acc[n] = h[DOMAIN o]
  <2>1. n \in 0..n
    BY <1>2
  <2> QED
    BY <1>2, <2>1
<1> QED
  BY <1>1, <1>9, <1>10, <1>11 DEF o, n

(* A list of disjoint hits in order, the last of which is one of the first *)
(* k hits.                                                                 *)
Resolved(a, o, k) ==
  /\ a \in Seq(Interval) /\ \A i \in 1..Len(a) - 1 : End(a[i]) <= Start(a[i + 1])
  /\ a # <<>> => \E j \in 1..k : Last(a) = o[j]

LEMMA MergeStep ==
  ASSUME NEW n \in Nat, NEW o, \A k \in 1..n : o[k] \in Interval,
         \A j, k \in 1..n : j < k => Before(o[j], o[k]),
         NEW k \in 1..n, NEW a, Resolved(a, o, k - 1)
  PROVE  LET b == Merge(a, o[k]) IN
         /\ Resolved(b, o, k)
         /\ b # <<>> /\ (Last(b) # o[k] => b = a /\ Length(o[k]) <= Length(Last(a)))
         /\ \A i \in 1..Len(a) : (\E m \in 1..Len(b) : b[m] = a[i]) \/ Length(o[k]) > Length(a[i])
<1> DEFINE h == o[k]   b == Merge(a, h)   l == Last(a)   f == Front(a)
<1>1. h \in Interval /\ h[1] \in Int /\ h[2] \in Int /\ h[1] < h[2] /\ k \in Nat /\ 0 < k
  BY DEF Interval
<1>2. /\ a \in Seq(Interval) /\ Len(a) \in Nat
      /\ \A i \in 1..Len(a) - 1 : End(a[i]) <= Start(a[i + 1])
      /\ a # <<>> => \E j \in 1..k - 1 : l = o[j]
  BY LenProperties DEF Resolved
<1>h. h = o[k]
  OBVIOUS
<1>b. b = IF a = <<>> \/ Start(h) >= End(l) THEN Append(a, h)
          ELSE IF Length(h) > Length(l) THEN Append(f, h) ELSE a
  BY DEF Merge
<1> HIDE DEF h, b
<1>3. ASSUME NEW c \in Seq(Interval), c # <<>> => Start(h) >= End(Last(c)),
             \A i \in 1..Len(c) - 1 : End(c[i]) <= Start(c[i + 1])
      PROVE  Resolved(Append(c, h), o, k) /\ Last(Append(c, h)) = h /\ Append(c, h) # <<>>
  <2>1. /\ Append(c, h) \in Seq(Interval) /\ Len(Append(c, h)) = Len(c) + 1 /\ Len(c) \in Nat
        /\ Append(c, h)[Len(c) + 1] = h /\ \A i \in 1..Len(c) : Append(c, h)[i] = c[i]
    BY <1>1, AppendProperties, LenProperties
  <2>2. Last(Append(c, h)) = h /\ Append(c, h) # <<>>
    BY <2>1, EmptySeq DEF Last
  <2>3. ASSUME NEW i \in 1..Len(Append(c, h)) - 1
        PROVE  End(Append(c, h)[i]) <= Start(Append(c, h)[i + 1])
    <3>1. CASE i = Len(c)
      <4>1. c # <<>>
        BY <2>1, <3>1, EmptySeq
      <4>2. c[i] = Last(c) /\ i \in 1..Len(c)
        BY <2>1, <3>1, <2>3 DEF Last
      <4>3. Append(c, h)[i] = Last(c) /\ Append(c, h)[i + 1] = h
        BY <2>1, <3>1, <4>2
      <4>4. Start(h) \in Int /\ End(Last(c)) \in Int
        <5>1. Last(c) \in Interval
          BY <1>3, <4>2, <2>1, ElementOfSeq
        <5> QED
          BY <1>1, <5>1 DEF Start, End, Interval
      <4>5. End(Last(c)) <= Start(h)
        BY <1>3, <4>1, <4>4
      <4> QED
        BY <4>3, <4>5
    <3>2. CASE i # Len(c)
      <4>1. i \in 1..Len(c) - 1 /\ i \in 1..Len(c) /\ i + 1 \in 1..Len(c)
        BY <2>1, <2>3, <3>2
      <4>2. Append(c, h)[i] = c[i] /\ Append(c, h)[i + 1] = c[i + 1]
        BY <2>1, <4>1
      <4> QED
        BY <1>3, <4>1, <4>2
    <3> QED
      BY <3>1, <3>2
  <2>4. k \in 1..k
    BY <1>1
  <2> QED
    BY <1>h, <2>1, <2>2, <2>3, <2>4 DEF Resolved
<1>4. CASE a = <<>> \/ Start(h) >= End(l)
  <2>1. b = Append(a, h)
    BY <1>4, <1>b
  <2>2. Resolved(b, o, k) /\ Last(b) = h /\ b # <<>>
    BY <1>2, <1>3, <1>4, <2>1
  <2>3. \A i \in 1..Len(a) : i \in 1..Len(b) /\ b[i] = a[i]
    <3>1. Len(b) = Len(a) + 1 /\ \A i \in 1..Len(a) : b[i] = a[i]
      BY <1>1, <1>2, <2>1, AppendProperties
    <3> QED
      BY <1>2, <3>1
  <2> QED
    BY <2>2, <2>3 DEF h, b
<1>5. CASE ~(a = <<>> \/ Start(h) >= End(l)) /\ Length(h) > Length(l)
  <2>1. b = Append(f, h)
    BY <1>5, <1>b
  <2>2. f \in Seq(Interval) /\ l \in Interval /\ a = Append(f, l) /\ Len(f) = Len(a) - 1 /\ Len(a) # 0
    <3>1. a \in Seq(Interval) /\ a # <<>>
      BY <1>2, <1>5
    <3> QED
      BY <3>1, FrontLast
  <2>3. /\ Len(f) \in Nat /\ a[Len(f) + 1] = l /\ \A i \in 1..Len(f) : a[i] = f[i]
    <3> HIDE DEF f, l
    <3>1. Len(f) \in Nat /\ Append(f, l)[Len(f) + 1] = l /\ \A i \in 1..Len(f) : Append(f, l)[i] = f[i]
      BY <2>2, AppendProperties, LenProperties
    <3> QED
      BY <2>2, <3>1
  <2>4. PICK j \in 1..k - 1 : l = o[j]
    BY <1>2, <1>5
  <2>5. Start(l) <= Start(h) /\ Start(h) \in Int /\ Start(l) \in Int
    <3>1. j \in 1..n /\ j < k
      BY <2>4
    <3>2. Before(l, h)
      BY <1>h, <2>4, <3>1
    <3>3. l[1] \in Int
      BY <2>2 DEF Interval
    <3> QED
      BY <1>1, <3>2, <3>3 DEF Before, Start
  <2>6. f # <<>> => Start(h) >= End(Last(f))
    <3> SUFFICES ASSUME f # <<>> PROVE Start(h) >= End(Last(f))
      OBVIOUS
    <3>1. Len(f) \in 1..Len(a) - 1 /\ Len(f) \in 1..Len(f)
      BY <2>2, <2>3, EmptySeq
    <3>2. End(a[Len(f)]) <= Start(a[Len(f) + 1])
      BY <1>2, <3>1
    <3>3. Last(f) = a[Len(f)]
      BY <2>3, <3>1 DEF Last
    <3>4. End(Last(f)) <= Start(l)
      BY <2>3, <3>2, <3>3
    <3>5. End(Last(f)) \in Int
      <4>1. a[Len(f)] \in Interval
        BY ZenonT(30), <2>2, <2>3, <3>1, ElementOfSeq
      <4> QED
        BY <3>3, <4>1 DEF End, Interval
    <3> QED
      BY <2>5, <3>4, <3>5
  <2>7. \A i \in 1..Len(f) - 1 : End(f[i]) <= Start(f[i + 1])
    <3> SUFFICES ASSUME NEW i \in 1..Len(f) - 1 PROVE End(f[i]) <= Start(f[i + 1])
      OBVIOUS
    <3>1. i \in 1..Len(a) - 1 /\ i \in 1..Len(f) /\ i + 1 \in 1..Len(f)
      BY <1>2, <2>2, <2>3
    <3> QED
      BY <1>2, <2>3, <3>1
  <2>8. Resolved(b, o, k) /\ Last(b) = h /\ b # <<>>
    BY <1>3, <2>1, <2>2, <2>6, <2>7
  <2>9. ASSUME NEW i \in 1..Len(a)
        PROVE  (\E m \in 1..Len(b) : b[m] = a[i]) \/ Length(h) > Length(a[i])
    <3>1. Len(b) = Len(f) + 1 /\ \A m \in 1..Len(f) : b[m] = f[m]
      BY <1>1, <2>1, <2>2, AppendProperties
    <3>2. i \in 1..Len(f) \/ i = Len(f) + 1
      BY <1>2, <2>2, <2>3
    <3>3. ASSUME i \in 1..Len(f) PROVE i \in 1..Len(b) /\ b[i] = a[i]
      BY <2>3, <3>1, <3>3
    <3>4. ASSUME i = Len(f) + 1 PROVE Length(h) > Length(a[i])
      BY <1>5, <2>3, <3>4
    <3> QED
      BY <3>2, <3>3, <3>4
  <2> QED
    BY <2>8, <2>9 DEF h, b
<1>6. CASE ~(a = <<>> \/ Start(h) >= End(l)) /\ ~(Length(h) > Length(l))
  <2>1. b = a
    BY <1>6, <1>b
  <2>2. \A j \in 1..k - 1 : j \in 1..k
    BY <1>1
  <2>3. Resolved(b, o, k)
    BY <1>2, <2>1, <2>2 DEF Resolved
  <2>4. Length(h) <= Length(l)
    <3>1. l \in Interval
      BY <1>2, <1>6, FrontLast
    <3>2. Length(h) \in Int /\ Length(l) \in Int
      BY <1>1, <3>1 DEF Length, Interval
    <3> QED
      BY <1>6, <3>2
  <2>5. \A i \in 1..Len(a) : \E m \in 1..Len(b) : b[m] = a[i]
    BY <2>1
  <2> QED
    BY <1>6, <2>1, <2>3, <2>4, <2>5 DEF h, b
<1> QED
  BY <1>4, <1>5, <1>6

LEMMA MergeAllIs ==
  ASSUME NEW S \in SUBSET Interval
  PROVE  /\ Resolved(MergeAll(S), Sorted(S), Cardinality(S))
         /\ \A h \in S :
              (\A g \in S : Length(g) < Length(h) \/ (Length(g) = Length(h) /\ Start(g) >= Start(h)))
                => \E i \in 1..Len(MergeAll(S)) : MergeAll(S)[i] = h
<1> DEFINE n == Cardinality(S)   o == Sorted(S)
<1>1. PICK acc : /\ acc[0] = <<>> /\ MergeAll(S) = acc[n]
                 /\ \A k \in 1..n : acc[k] = Merge(acc[k - 1], o[k])
  BY MergedSoFar
<1>2. /\ n \in Nat /\ DOMAIN o = 1..n
      /\ \A k \in 1..n : o[k] \in S
      /\ \A x \in S : \E k \in 1..n : o[k] = x
      /\ \A j, k \in 1..n : j < k => Before(o[j], o[k])
  BY SortedHits
<1>i. \A k \in 1..n : o[k] \in Interval
  BY <1>2
<1> HIDE DEF n, o
<1>3. \A k \in 0..n : Resolved(acc[k], o, k)
  <2> DEFINE T == {k \in 0..n : Resolved(acc[k], o, k)}
  <2>1. 0 \in T
    <3>1. Resolved(<<>>, o, 0)
      BY EmptySeq DEF Resolved
    <3> QED
      BY <1>1, <1>2, <3>1
  <2>2. ASSUME NEW k \in 0..n - 1, k \in T PROVE k + 1 \in T
    <3>1. k + 1 \in 1..n /\ (k + 1) - 1 = k /\ k + 1 \in 0..n
      BY <1>2
    <3>2. Resolved(acc[(k + 1) - 1], o, (k + 1) - 1)
      BY <2>2, <3>1
    <3>3. Resolved(Merge(acc[(k + 1) - 1], o[k + 1]), o, k + 1)
      BY <1>2, <1>i, <3>1, <3>2, MergeStep
    <3> QED
      BY <1>1, <3>1, <3>3
  <2> HIDE DEF T
  <2>3. 0..n \subseteq T
    BY <1>2, <2>1, <2>2, ByCounting
  <2> QED
    BY <2>3 DEF T
<1>4. ASSUME NEW h \in S,
             \A g \in S : Length(g) < Length(h) \/ (Length(g) = Length(h) /\ Start(g) >= Start(h))
      PROVE  \E i \in 1..Len(acc[n]) : acc[n][i] = h
  <2>1. PICK m \in 1..n : o[m] = h
    BY <1>2
  <2>i. \A g \in S : Length(g) \in Int /\ Start(g) \in Int
    BY DEF Interval, Length, Start
  <2> DEFINE Has(k) == \E i \in 1..Len(acc[k]) : acc[k][i] = h
             T == {k \in 0..n : k >= m => Has(k)}
  <2>2. 0 \in T
    BY <1>2
  <2>3. ASSUME NEW k \in 0..n - 1, k \in T PROVE k + 1 \in T
    <3>1. k + 1 \in 1..n /\ (k + 1) - 1 = k /\ k + 1 \in 0..n /\ k \in 0..n
      BY <1>2
    <3> DEFINE a == acc[k]   b == acc[k + 1]   g == o[k + 1]
    <3>2. b = Merge(a, g) /\ Resolved(a, o, k)
      BY <1>1, <1>3, <3>1
    <3>3. /\ Resolved(b, o, k + 1) /\ b # <<>>
          /\ (Last(b) # g => b = a /\ Length(g) <= Length(Last(a)))
          /\ \A i \in 1..Len(a) : (\E j \in 1..Len(b) : b[j] = a[i]) \/ Length(g) > Length(a[i])
      <4>1. Resolved(a, o, (k + 1) - 1)
        BY <3>1, <3>2
      <4>2. o[k + 1] = g
        OBVIOUS
      <4> HIDE DEF a, b, g
      <4> DEFINE d == Merge(a, o[k + 1])
      <4>3. /\ Resolved(d, o, k + 1)
            /\ d # <<>> /\ (Last(d) # o[k + 1] => d = a /\ Length(o[k + 1]) <= Length(Last(a)))
            /\ \A i \in 1..Len(a) : (\E j \in 1..Len(d) : d[j] = a[i]) \/ Length(o[k + 1]) > Length(a[i])
        BY <1>2, <1>i, <3>1, <4>1, MergeStep
      <4>4. d = b
        BY <3>2, <4>2
      <4> QED
        BY <4>2, <4>3, <4>4
    <3>4. g \in S
      BY <1>2, <3>1
    <3>5. CASE k + 1 = m
      <4>1. g = h
        BY <2>1, <3>5
      <4>2. Last(b) = h
        <5> SUFFICES ASSUME Last(b) # h PROVE FALSE
          OBVIOUS
        <5>1. b = a /\ Length(h) <= Length(Last(a)) /\ a # <<>>
          BY <3>3, <4>1
        <5>2. PICK j \in 1..k : Last(a) = o[j]
          BY <3>2, <5>1 DEF Resolved
        <5>3. j \in 1..n /\ j < m
          BY <1>2, <3>1, <3>5, <5>2
        <5>4. Before(Last(a), h) /\ Last(a) \in S
          BY <1>2, <2>1, <5>2, <5>3
        <5> QED
          BY <1>4, <2>i, <5>1, <5>4 DEF Before
      <4>3. Len(b) \in 1..Len(b)
        BY <3>3, EmptySeq, LenProperties DEF Resolved
      <4>4. Has(k + 1)
        BY <4>2, <4>3 DEF Last
      <4> QED
        BY <3>1, <4>4
    <3>6. CASE k + 1 > m
      <4>1. Has(k)
        BY <2>3, <3>1, <3>6
      <4>2. PICK i \in 1..Len(a) : a[i] = h
        BY <4>1
      <4>3. ~(Length(g) > Length(h))
        BY <1>4, <2>i, <3>4
      <4>4. Has(k + 1)
        BY <3>3, <4>2, <4>3
      <4> QED
        BY <3>1, <4>4
    <3>7. CASE k + 1 < m
      BY <3>1, <3>7
    <3> QED
      BY <3>1, <3>5, <3>6, <3>7
  <2> HIDE DEF T
  <2>4. 0..n \subseteq T
    BY <1>2, <2>2, <2>3, ByCounting
  <2>5. n \in 0..n /\ n >= m
    BY <1>2
  <2> QED
    BY <2>4, <2>5 DEF T
<1>5. n \in 0..n
  BY <1>2
<1> QED
  BY <1>1, <1>3, <1>4, <1>5 DEF n, o

LEMMA DetectStep ==
  ASSUME DetectorTypeOK, HitsResolved, [DetectorNext]_detectorVars
  PROVE  DetectorTypeOK' /\ HitsResolved'
<1>1. ASSUME NEW S \in SUBSET Interval, Detect(S) PROVE DetectorTypeOK' /\ HitsResolved'
  <2>1. hits' = S /\ kept' = MergeAll(S)
    BY <1>1 DEF Detect
  <2>2. Resolved(kept', Sorted(S), Cardinality(S))
    BY <2>1, MergeAllIs
  <2>3. DetectorTypeOK' /\ KeptDisjoint'
    BY <2>1, <2>2 DEF Resolved, DetectorTypeOK, KeptDisjoint
  <2>4. LongestKept'
    <3> SUFFICES ASSUME NEW h \in S,
                        \A g \in S : Length(g) < Length(h) \/ (Length(g) = Length(h) /\ Start(g) >= Start(h))
                 PROVE  h \in Range(kept')
      BY <2>1 DEF LongestKept
    <3>1. PICK i \in 1..Len(kept') : kept'[i] = h
      BY <2>1, MergeAllIs
    <3>2. DOMAIN kept' = 1..Len(kept')
      BY <2>2, LenProperties DEF Resolved
    <3> QED
      BY <3>1, <3>2 DEF Range
  <2> QED
    BY <2>3, <2>4 DEF HitsResolved
<1>2. CASE UNCHANGED detectorVars
  BY <1>2 DEF detectorVars, DetectorTypeOK, HitsResolved, KeptDisjoint, LongestKept
<1>3. CASE DetectorNext
  <2>1. PICK m \in 1..MaxHits : \E S \in kSubset(m, Interval) : Detect(S)
    BY <1>3 DEF DetectorNext
  <2>2. PICK S \in kSubset(m, Interval) : Detect(S)
    BY <2>1
  <2>3. S \in SUBSET Interval
    BY <2>2 DEF kSubset
  <2> QED
    BY <1>1, <2>2, <2>3
<1> QED
  BY <1>2, <1>3

LEMMA DetectorSound == DetectorSpec => [](DetectorTypeOK /\ HitsResolved)
<1>1. DetectorInit => DetectorTypeOK /\ HitsResolved
  BY EmptySeq DEF DetectorInit, DetectorTypeOK, HitsResolved, KeptDisjoint, LongestKept
<1>2. DetectorTypeOK /\ HitsResolved /\ [DetectorNext]_detectorVars => (DetectorTypeOK /\ HitsResolved)'
  BY DetectStep
<1> QED
  BY <1>1, <1>2, PTL DEF DetectorSpec

(* For any markers, texts and threads, whatever is registered, deleted and *)
(* invalidated meanwhile, a scan finds every occurrence of a marker of its *)
(* automaton, overlapping ones too, and no other; of any hits the detector *)
(* returns disjoint ones in order and the longest of all (scanner.py,      *)
(* detector.py).                                                           *)
THEOREM ScansExactThm == DetectorSpec /\ HoneySpec => []ScansExact
<1>1. DetectorSpec => []HitsResolved
  BY DetectorSound, PTL
<1>2. HoneySpec => []HitsExact
  BY HitsInitInv, HitsStep, HitsSound, PTL DEF HoneySpec
<1> QED
  BY <1>1, <1>2, PTL DEF ScansExact
=============================================================================
