CONSTANTS
    Txs = {t1}
    NoTx = NoTx
    MaxDials = 3
    MaxBreaks = 2
    BreakKinds <- MCBreakKinds
    WriteChanCap = 2
    MaxSends = 2
    MaxRemoteMsgs = 2
INIT Init
NEXT Next
INVARIANTS
    PeerTypeOK
    WriteAfterHandshake
    PeerInductive
