CONSTANTS
    NoAmount = NoAmount
    Thresholds <- Caps
    Call = {c1, c2}
    NoCall = NoCall
    Request <- TwoPayments
    Caller <- Callers
    NoCustomer = NoCustomer
SPECIFICATION Spec
INVARIANTS
    ExecutedMeansRequested
