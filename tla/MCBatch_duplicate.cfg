\* A batch that holds one transaction twice.
CONSTANTS
    t1 = t1
    t2 = t2
    t3 = t3
    Hashes = {t1, t2, t3}
    Batch <- MCDuplicate
    BadUrls = {}
    NoStatus = NoStatus
SPECIFICATION Spec
PROPERTIES
    ImplementsBatchAbs
CHECK_DEADLOCK FALSE
