CONSTANTS
 t1 = t1 t2 = t2
 Threads = {t1, t2}
 NoThread = NoThread
 CallsOf <- AnyCall
 NewLoggers = {"custom", "asking"}
 ChanCap = 1
SPECIFICATION FairSpec
INVARIANT TypeOK
INVARIANT GuardedOptions
INVARIANT LockOrder
INVARIANT OnlyTwoKnots
PROPERTY CallsReturn
CHECK_DEADLOCK FALSE
