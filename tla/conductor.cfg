CONSTANTS
 c1 = c1 c2 = c2 s1 = s1 s2 = s2 s3 = s3
 Callers = {c1, c2}
 Spawners = {s1, s2, s3}
 NoCaller = NoCaller
 MaxWorkers = 1
SPECIFICATION FairSpec
INVARIANT TypeOK
INVARIANT PoolOwned
INVARIANT OneLate
PROPERTY PauseReleases
