CONSTANTS
    NoAmount = NoAmount
    Thresholds <- Caps
    Call = {c1, c2}
    NoCall = NoCall
    Request <- Requests
    Caller <- Indebted
    NoCustomer = NoCustomer
SPECIFICATION Spec
INVARIANTS
    LargeDeferralsReviewed
