CONSTANTS
    NoAmount = NoAmount
    Thresholds <- Caps
SPECIFICATION Spec
INVARIANTS
    AuthorizedIffAllowed
    MandatoryFirst
PROPERTIES
    NeverMorePermissive
CHECK_DEADLOCK FALSE
