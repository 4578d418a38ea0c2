CONSTANTS
 g1 = g1 g2 = g2
 Baseline0 = 2
 Scalers = {g1, g2}
 Max0 = 2
 NewCaps = {0, 3}
 NewMaxes = {1}
 MaxLimit = 2
 CapBound = 5
SPECIFICATION FairSpec
INVARIANT TypeOK
INVARIANT OvershootBounded
INVARIANT CapTracksMod
PROPERTY DisabledReturns
CHECK_DEADLOCK FALSE
