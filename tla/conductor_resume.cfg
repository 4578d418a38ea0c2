CONSTANTS
 c1 = c1 c2 = c2 s1 = s1 s2 = s2 s3 = s3
 Callers = {c1}
 Spawners = {s1, s2}
 NoCaller = NoCaller
 MaxWorkers = 1
SPECIFICATION Spec
INVARIANT ResumedPoolOpen
