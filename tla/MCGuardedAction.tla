--------------------------- MODULE MCGuardedAction ---------------------------
EXTENDS GuardedAction

Caps == [payment_cap |-> 2, deferral_min_age_days |-> 1, deferral_max_per_year |-> 1,
         deferral_unpaid_threshold |-> 2]

\* Payments within and above the cap, a deferral, and a tool without a gate.
Requests ==
    {[action_type |-> "EXECUTE_PAYMENT", amount |-> 2],
     [action_type |-> "EXECUTE_PAYMENT", amount |-> 3],
     [action_type |-> "PAYMENT_DEFERRAL", amount |-> NoAmount],
     [action_type |-> "TOP_UP", amount |-> 3]}

Callers == [is_vip : BOOLEAN, fraud_suspected : {FALSE}, age : {1}, unpaid : {2}]

\* Two payments that the policy allows, of different amounts.
TwoPayments ==
    {[action_type |-> "EXECUTE_PAYMENT", amount |-> 1],
     [action_type |-> "EXECUTE_PAYMENT", amount |-> 2]}

\* A caller whose unpaid amount needs a review before a deferral.
Indebted == [is_vip : {FALSE}, fraud_suspected : {FALSE}, age : {1}, unpaid : {3}]
=============================================================================
