------------------------- MODULE PolicyEngineProofs -------------------------
(***************************************************************************)
(* What the engine decides, for every context and every threshold.         *)
(***************************************************************************)
EXTENDS PolicyEngine, TLAPS

\* Each rule of engine.py speaks of its own actions only.
LEMMA RulesAreDisjoint ==
  ASSUME NEW c \in PolicyContext
  PROVE  ActionRules(c) =
           IF c.action_type = "EXECUTE_PAYMENT" THEN CheckPayment(c)
           ELSE IF c.action_type = "PAYMENT_DEFERRAL" THEN CheckDeferral(c)
           ELSE IF c.action_type \in SIM_ACTIONS THEN CheckSim(c)
           ELSE Authorized("DEFAULT_ALLOW")
  BY DEF ActionRules, CheckPayment, CheckDeferral, CheckSim, NoObjection, Authorized, Refused,
     Escalate, SIM_ACTIONS

\* The mandatory chain objects exactly when one of its triggers holds.
LEMMA MandatoryIsTrigger ==
  ASSUME NEW c \in PolicyContext
  PROVE  /\ MandatoryTrigger(c) => CheckMandatory(c).verdict = "escalate"
         /\ ~MandatoryTrigger(c) => CheckMandatory(c) = NoObjection
         /\ CheckMandatory(c) # NoObjection <=> MandatoryTrigger(c)
  BY DEF CheckMandatory, MandatoryTrigger, NoObjection, Escalate

\* The ordered rules authorize exactly what no rule objects to (engine.py:32-46).
LEMMA VerdictIsAllowed ==
  ASSUME NEW c \in PolicyContext
  PROVE  IsAuthorized(c) <=> Allowed(c)
<1>1. CASE MandatoryTrigger(c)
  BY <1>1, MandatoryIsTrigger DEF IsAuthorized, EvaluateAction, Allowed
<1>2. CASE ~MandatoryTrigger(c) /\ c.action_type \in SENSITIVE_ACTIONS /\ ~c.identity_verified
  BY <1>2, MandatoryIsTrigger DEF IsAuthorized, EvaluateAction, Allowed, Escalate
<1>3. CASE ~MandatoryTrigger(c) /\ (c.action_type \in SENSITIVE_ACTIONS => c.identity_verified)
  <2>1. EvaluateAction(c) = ActionRules(c)
    BY <1>3, MandatoryIsTrigger DEF EvaluateAction
  <2>2. CASE c.action_type = "EXECUTE_PAYMENT"
    BY <1>3, <2>1, <2>2, RulesAreDisjoint
       DEF IsAuthorized, Allowed, CheckPayment, Authorized, Refused, Escalate
  <2>3. CASE c.action_type = "PAYMENT_DEFERRAL"
    BY <1>3, <2>1, <2>3, RulesAreDisjoint, ThresholdsAssumption
       DEF IsAuthorized, Allowed, CheckDeferral, Authorized, Refused, Escalate, PolicyContext
  <2>4. CASE c.action_type \notin {"EXECUTE_PAYMENT", "PAYMENT_DEFERRAL"}
    BY <1>3, <2>1, <2>4, RulesAreDisjoint
       DEF IsAuthorized, Allowed, CheckSim, Authorized, Escalate, SENSITIVE_ACTIONS
  <2> QED BY <2>2, <2>3, <2>4
<1> QED BY <1>1, <1>2, <1>3

\* No context that has gone worse is authorized where the better one was not.
THEOREM EngineIsAntitone ==
  ASSUME NEW c \in PolicyContext, NEW d \in PolicyContext, NoSafer(d, c), IsAuthorized(d)
  PROVE  IsAuthorized(c)
<1>1. Allowed(d) BY VerdictIsAllowed
<1>2. ~MandatoryTrigger(c)
  <2>1. ~c.fraud_suspected /\ ~c.is_vip /\ ~c.frustration
    BY <1>1 DEF Allowed, MandatoryTrigger, NoSafer
  <2>2. ~(c.clarification_attempts >= CLARIFICATION_MAX_ATTEMPTS)
    BY <1>1 DEF Allowed, MandatoryTrigger, NoSafer, PolicyContext, CLARIFICATION_MAX_ATTEMPTS
  <2>3. ~(c.identity_attempts >= IDENTITY_MAX_ATTEMPTS /\ ~c.identity_verified)
    BY <1>1 DEF Allowed, MandatoryTrigger, NoSafer, PolicyContext, IDENTITY_MAX_ATTEMPTS
  <2> QED BY <2>1, <2>2, <2>3 DEF MandatoryTrigger
<1>3. AboveCap(c.amount) => AboveCap(d.amount)
  BY ThresholdsAssumption DEF NoSafer, AmountAtMost, AboveCap, PolicyContext
<1>4. c.action_type = "PAYMENT_DEFERRAL" =>
        /\ c.account_age_days >= Thresholds.deferral_min_age_days
        /\ c.deferrals_this_year < Thresholds.deferral_max_per_year
        /\ c.unpaid_amount <= Thresholds.deferral_unpaid_threshold
  BY <1>1, ThresholdsAssumption DEF Allowed, NoSafer, PolicyContext
<1>5. Allowed(c) BY <1>1, <1>2, <1>3, <1>4 DEF Allowed, NoSafer
<1> QED BY <1>5, VerdictIsAllowed
=============================================================================
