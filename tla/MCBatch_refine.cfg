\* A batch of three distinct transactions, some of them already stored,
\* every outcome of putTransactionInit.
CONSTANTS
    t1 = t1
    t2 = t2
    t3 = t3
    Hashes = {t1, t2, t3}
    Batch <- MCDistinct
    BadUrls = {}
    NoStatus = NoStatus
SPECIFICATION Spec
PROPERTIES
    ImplementsBatchAbs
CHECK_DEADLOCK FALSE
