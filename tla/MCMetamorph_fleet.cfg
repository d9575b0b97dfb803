CONSTANTS
    Insts = {i1, i2}
    Txs = {t1}
    Reqs = {r1, r2}
    Centralised = FALSE
    UtxoCheckInsts = {}
    MaxRetries = 1
    WaitTargets <- MCWaitTargets
    NetStatuses <- MCNetStatuses
    NoOwner = NoOwner
SYMMETRY MCSymmetry
INIT Init
NEXT Next
INVARIANTS
    TypeOK
    OwnerOnlyStores
    MinedHasBlock
    OwnerInductive
    StoreInductive
