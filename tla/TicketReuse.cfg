SPECIFICATION Spec
CONSTANTS
    Call = {c1, c2, c3}
    Notice = {c1}
    None = None
    Customer = {alice, bob}
    CONNECTOR_MODE = "mock"
    MaxRestarts = 1
SYMMETRY Symmetry
CHECK_DEADLOCK FALSE
INVARIANTS
    ReferenceNamesTicket
