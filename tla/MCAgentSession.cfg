SPECIFICATION FairSpec
CONSTANTS
    Callback = {c1}
    Notice = {c1}
    Advisors = {a1}
    MaxOutages = 1
    MaxBacklog = 4
    MaxTurns = 3
CHECK_DEADLOCK FALSE
INVARIANTS
    TypeOK
    CallRowFirst
    ConsentAudited
    RowAgreesWithConsent
    FlushedOnClose
    ConsentFirst
    FrustrationShown
    CallbackEscalated
    ConfirmedIsScheduled
PROPERTIES
    ShutdownReturns
    ImplementsJournal
