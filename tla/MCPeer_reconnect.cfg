CONSTANTS
    Txs = {t1}
    NoTx = NoTx
    MaxDials = 3
    MaxBreaks = 1
    BreakKinds <- MCEofOnly
    WriteChanCap = 1
    MaxSends = 1
    MaxRemoteMsgs = 1
SPECIFICATION Spec
PROPERTIES
    Reconnects
