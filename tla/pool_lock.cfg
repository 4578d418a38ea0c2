CONSTANTS
 p1 = p1 p2 = p2 q1 = q1 q2 = q2 w1 = w1 w2 = w2 d1 = d1 d2 = d2
 Proxies = {p1}
 Protos = {q1, q2}
 Workers = {w1, w2}
 Dispensers = {d1, d2}
 KindOf <- DialAndStr
 Endpoint <- OwnEndpoint
 ProtoNull = ProtoNull
 NoProxy = NoProxy
 RemoveAfter = 0
 MaxListed = 3
SPECIFICATION Spec
INVARIANT TypeOK
INVARIANT LockDiscipline
INVARIANT ListedVerified
INVARIANT TallyPassed
INVARIANT HandedVerified
PROPERTY ProtoStable
SYMMETRY WorkerSymmetry
CHECK_DEADLOCK FALSE
