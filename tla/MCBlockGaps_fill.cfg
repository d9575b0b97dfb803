\* A chain whose tip is already at least GapRange high (mainnet, testnet):
\* the scanned heights are never negative.
CONSTANTS
    MaxHeight = 5
    GapRange = 2
    MinTip = 2
SPECIFICATION Spec
INVARIANTS
    GapQuerySound
PROPERTIES
    GapsEventuallyFilled
