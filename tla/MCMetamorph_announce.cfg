CONSTANTS
    Insts = {i1, i2}
    Txs = {t1}
    Reqs = {r1, r2}
    Centralised = FALSE
    UtxoCheckInsts = {}
    MaxRetries = 0
    WaitTargets = {0}
    NetStatuses = {10}
    NoOwner = NoOwner
INIT Init
NEXT Next
INVARIANTS
    AnnouncedOnce
