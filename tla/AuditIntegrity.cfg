SPECIFICATION IntegritySpec
CONSTANTS
    Tx = {t1, t2}
    NoTx = NoTx
    Event = {e1, e2}
    Label = {l1, l2}
INVARIANT
    RetroactiveEditCaught
CHECK_DEADLOCK FALSE
