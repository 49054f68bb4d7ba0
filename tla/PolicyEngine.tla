---------------------------- MODULE PolicyEngine ----------------------------
(***************************************************************************)
(* The deterministic engine of policy-service and the scorer of            *)
(* decision-service: the two pure functions every sensitive action passes. *)
(*                                                                         *)
(* Amounts are integers (the code's floats are compared, never computed    *)
(* with, and may be negative); a confidence is in tenths.  Justifications  *)
(* are wording and are left out.                                           *)
(***************************************************************************)
EXTENDS Integers

CONSTANTS NoAmount,   \* an action whose payload has no amount
          Thresholds  \* PolicyThresholds, from the environment

ASSUME ThresholdsAssumption ==
    /\ NoAmount \notin Int
    /\ Thresholds \in [payment_cap : Int, deferral_min_age_days : Int,
                       deferral_max_per_year : Int, deferral_unpaid_threshold : Int]

SIM_ACTIONS == {"UNBLOCK_SIM", "REPLACE_SIM", "REACTIVATE_SIM"}

SENSITIVE_ACTIONS ==
    {"EXECUTE_PAYMENT", "PAYMENT_DEFERRAL", "TOP_UP", "CHANGE_PLAN", "ACTIVATE_ROAMING"}
        \cup SIM_ACTIONS

PolicyContext ==
    [action_type : SENSITIVE_ACTIONS \cup {"OTHER"},
     is_vip : BOOLEAN, fraud_suspected : BOOLEAN, frustration : BOOLEAN,
     identity_verified : BOOLEAN, clarification_attempts : Int, identity_attempts : Int,
     amount : Int \cup {NoAmount}, account_age_days : Int, deferrals_this_year : Int,
     unpaid_amount : Int, payment_confirmed : BOOLEAN]

Authorized(rule) == [verdict |-> "authorized", rule_id |-> rule]
Refused(rule)    == [verdict |-> "refused", rule_id |-> rule]
Escalate(rule)   == [verdict |-> "escalate", rule_id |-> rule]

\* A rule that returns None.
NoObjection == [verdict |-> "none", rule_id |-> "none"]

IDENTITY_MAX_ATTEMPTS == 3
CLARIFICATION_MAX_ATTEMPTS == 2

\* Mutant: a missing "not" in the last trigger.
CheckMandatoryVerified(ctx) ==
    IF ctx.fraud_suspected THEN Escalate("ESC_FRAUD")
    ELSE IF ctx.is_vip THEN Escalate("ESC_VIP")
    ELSE IF ctx.frustration THEN Escalate("ESC_FRUSTRATION")
    ELSE IF ctx.clarification_attempts >= CLARIFICATION_MAX_ATTEMPTS
         THEN Escalate("ESC_CLARIFICATION")
    ELSE IF ctx.identity_attempts >= IDENTITY_MAX_ATTEMPTS /\ ctx.identity_verified
         THEN Escalate("ESC_IDENTITY_FAILURE")
    ELSE NoObjection

\* The mandatory-escalation chain: the first trigger names the rule.
CheckMandatory(ctx) ==
    IF ctx.fraud_suspected THEN Escalate("ESC_FRAUD")
    ELSE IF ctx.is_vip THEN Escalate("ESC_VIP")
    ELSE IF ctx.frustration THEN Escalate("ESC_FRUSTRATION")
    ELSE IF ctx.clarification_attempts >= CLARIFICATION_MAX_ATTEMPTS
         THEN Escalate("ESC_CLARIFICATION")
    ELSE IF ctx.identity_attempts >= IDENTITY_MAX_ATTEMPTS /\ ~ctx.identity_verified
         THEN Escalate("ESC_IDENTITY_FAILURE")
    ELSE NoObjection

AboveCap(amount) == amount # NoAmount /\ amount > Thresholds.payment_cap

CheckPayment(ctx) ==
    IF ctx.action_type # "EXECUTE_PAYMENT" THEN NoObjection
    ELSE IF ~ctx.payment_confirmed THEN Refused("PAY_NO_CONFIRMATION")
    ELSE IF AboveCap(ctx.amount) THEN Escalate("PAY_ABOVE_CAP")
    ELSE Authorized("PAY_OK")

\* Mutant: an off-by-one at the yearly cap.
CheckDeferralOffByOne(ctx) ==
    IF ctx.action_type # "PAYMENT_DEFERRAL" THEN NoObjection
    ELSE IF ctx.account_age_days < Thresholds.deferral_min_age_days THEN Refused("DEF_MIN_AGE")
    ELSE IF ctx.deferrals_this_year > Thresholds.deferral_max_per_year THEN Refused("DEF_CAP")
    ELSE IF ctx.unpaid_amount > Thresholds.deferral_unpaid_threshold
         THEN Escalate("DEF_UNPAID_REVIEW")
    ELSE Authorized("DEF_OK")

CheckDeferral(ctx) ==
    IF ctx.action_type # "PAYMENT_DEFERRAL" THEN NoObjection
    ELSE IF ctx.account_age_days < Thresholds.deferral_min_age_days THEN Refused("DEF_MIN_AGE")
    ELSE IF ctx.deferrals_this_year >= Thresholds.deferral_max_per_year THEN Refused("DEF_CAP")
    ELSE IF ctx.unpaid_amount > Thresholds.deferral_unpaid_threshold
         THEN Escalate("DEF_UNPAID_REVIEW")
    ELSE Authorized("DEF_OK")

CheckSim(ctx) ==
    IF ctx.action_type \notin SIM_ACTIONS THEN NoObjection
    ELSE IF ~ctx.identity_verified THEN Escalate("SIM_IDENTITY_REQUIRED")
    ELSE Authorized("SIM_OK")

\* At most one of the three rules speaks of an action; without one, DEFAULT_ALLOW.
ActionRules(ctx) ==
    IF CheckPayment(ctx) # NoObjection THEN CheckPayment(ctx)
    ELSE IF CheckDeferral(ctx) # NoObjection THEN CheckDeferral(ctx)
    ELSE IF CheckSim(ctx) # NoObjection THEN CheckSim(ctx)
    ELSE Authorized("DEFAULT_ALLOW")

\* Mutant: the identity backstop before the mandatory chain, and refusing.
EvaluateActionBackstopFirst(ctx) ==
    IF ctx.action_type \in SENSITIVE_ACTIONS /\ ~ctx.identity_verified
    THEN Refused("IDENTITY_STEP_UP")
    ELSE IF CheckMandatory(ctx) # NoObjection THEN CheckMandatory(ctx)
    ELSE ActionRules(ctx)

EvaluateAction(ctx) ==
    IF CheckMandatory(ctx) # NoObjection THEN CheckMandatory(ctx)
    ELSE IF ctx.action_type \in SENSITIVE_ACTIONS /\ ~ctx.identity_verified
    THEN Escalate("IDENTITY_STEP_UP")
    ELSE ActionRules(ctx)

IsAuthorized(ctx) == EvaluateAction(ctx).verdict = "authorized"

(***************************************************************************)
(* decision-service: the confidence in a candidate action.                 *)
(***************************************************************************)
KNOWN_ACTIONS == SENSITIVE_ACTIONS

Confidence(action_type, identity_verified) ==
    IF action_type \notin KNOWN_ACTIONS THEN 2
    ELSE IF identity_verified THEN 9 ELSE 6
-----------------------------------------------------------------------------
(***************************************************************************)
(* What the rules amount to, without their order.                          *)
(***************************************************************************)
MandatoryTrigger(ctx) ==
    \/ ctx.fraud_suspected \/ ctx.is_vip \/ ctx.frustration
    \/ ctx.clarification_attempts >= CLARIFICATION_MAX_ATTEMPTS
    \/ ctx.identity_attempts >= IDENTITY_MAX_ATTEMPTS /\ ~ctx.identity_verified

Allowed(ctx) ==
    /\ ~MandatoryTrigger(ctx)
    /\ ctx.action_type \in SENSITIVE_ACTIONS => ctx.identity_verified
    /\ ctx.action_type = "EXECUTE_PAYMENT" => ctx.payment_confirmed /\ ~AboveCap(ctx.amount)
    /\ ctx.action_type = "PAYMENT_DEFERRAL" =>
          /\ ctx.account_age_days >= Thresholds.deferral_min_age_days
          /\ ctx.deferrals_this_year < Thresholds.deferral_max_per_year
          /\ ctx.unpaid_amount <= Thresholds.deferral_unpaid_threshold

AmountAtMost(a, b) == a = NoAmount \/ a = b \/ (b # NoAmount /\ a <= b)

\* The same action, in a call that has gone no better in any respect.
NoSafer(d, c) ==
    /\ d.action_type = c.action_type
    /\ c.is_vip => d.is_vip
    /\ c.fraud_suspected => d.fraud_suspected
    /\ c.frustration => d.frustration
    /\ d.identity_verified => c.identity_verified
    /\ c.clarification_attempts <= d.clarification_attempts
    /\ c.identity_attempts <= d.identity_attempts
    /\ AmountAtMost(c.amount, d.amount)
    /\ d.account_age_days <= c.account_age_days
    /\ c.deferrals_this_year <= d.deferrals_this_year
    /\ c.unpaid_amount <= d.unpaid_amount
    /\ d.payment_confirmed => c.payment_confirmed
=============================================================================
