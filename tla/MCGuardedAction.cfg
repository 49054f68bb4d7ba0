CONSTANTS
    NoAmount = NoAmount
    Thresholds <- Caps
    Call = {c1, c2}
    NoCall = NoCall
    Request <- Requests
    Caller <- Callers
    NoCustomer = NoCustomer
SPECIFICATION FairSpec
INVARIANTS
    TypeOK
    EffectsWereAllowed
    ProtectedCallersUntouched
    RefusalIsFinal
    ReferencesAreReal
PROPERTIES
    GuardedCallsReturn
