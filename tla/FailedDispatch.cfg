SPECIFICATION Spec
CONSTANTS
    r1 = r1
    r2 = r2
    r3 = r3
    e1 = e1
    e2 = e2
    k1 = k1
    k2 = k2
    Request = {r1, r2, r3}
    Evaluation = {e1, e2}
    Tx = {r1, r2, r3, e1, e2}
    Event = {r1, r2, r3, e1, e2}
    Key = {k1, k2}
    Label = {"policy_verdict", "execution_result"}
    KeyOf <- MCKeyOf
    VerdictOf <- MCVerdictOf
    NoTx = NoTx
    NoAnswer = NoAnswer
INVARIANT
    FailedDispatchRecorded
