\* A young chain that holds its genesis block (regtest): the tip may be
\* below GapRange, so the scan starts below height 0.
CONSTANTS
    MaxHeight = 4
    GapRange = 3
    MinTip = 0
SPECIFICATION Spec
PROPERTIES
    GapsEventuallyFilled
