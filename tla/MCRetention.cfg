SPECIFICATION FairSpec
CONSTANTS
    p1 = p1
    p2 = p2
    t1 = t1
    t2 = t2
    x1 = x1
    Tx = {p1, p2, x1}
    Run = {p1, p2}
    NoTx = NoTx
    CallSession <- Calls
    Turn = {t1, t2}
    SessionOf <- MCSessionOf
    Event <- MCEvent
    Label = {"data_retention"}
INVARIANTS
    TypeOK
    ChainIntact
    TurnsCountedOnce
    RunIsComplete
PROPERTIES
    AppendOnly
    ImplementsChain
    AppendTerminates
    RunsEnd
