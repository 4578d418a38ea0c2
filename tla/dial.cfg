CONSTANTS
 d1 = d1 d2 = d2 k1 = k1 k2 = k2
 Dials = {d1, d2}
 Killers = {k1}
 Bailout = 1
SPECIFICATION FairSpec
INVARIANT TypeOK
INVARIANT GivesUpSpent
INVARIANT OneLateDial
PROPERTY ConnsClosed
PROPERTY CancelledReturns
PROPERTY ImplementsOutcomes
