CONSTANTS
 c1 = c1 e1 = e1 p1 = p1 l1 = l1 s1 = s1 s2 = s2
 NoCaller = NoCaller
 NoProxy = NoProxy
 NoHolder = NoHolder
 Callers = {c1}
 MaxWorkers = 1
 Endpoints = {e1}
 Proxies = {p1}
 Loaders = {l1}
 Spawners = {s1, s2}
 PendingBound = 1
SPECIFICATION FairSpec
INVARIANT TypeOK
INVARIANT EndsEmptyHanded
PROPERTY QueuedValidated
PROPERTY PausedQuiet
