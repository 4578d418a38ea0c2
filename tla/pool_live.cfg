CONSTANTS
 p1 = p1 p2 = p2 q1 = q1 q2 = q2 w1 = w1 w2 = w2 d1 = d1 d2 = d2
 Proxies = {p1, p2}
 Protos = {q1}
 Workers = {w1}
 Dispensers = {d1, d2}
 KindOf <- DialAndAny
 Endpoint <- OneEndpoint
 ProtoNull = ProtoNull
 NoProxy = NoProxy
 RemoveAfter = 0
 MaxListed = 2
SPECIFICATION LiveSpec
PROPERTY ImplementsLedger
PROPERTY LockReleased
PROPERTY AnyReturnsAfterClose
