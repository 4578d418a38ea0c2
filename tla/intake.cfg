CONSTANTS
 e1 = e1 e2 = e2 p1 = p1 p2 = p2
 l1 = l1 l2 = l2 s1 = s1 s2 = s2 c1 = c1
 NoProxy = NoProxy
 NoHolder = NoHolder
 Endpoints = {e1}
 Proxies = {p1, p2}
 Loaders = {l1, l2}
 Spawners = {s1, s2}
 Consumers = {c1}
 PendingBound = 2
SPECIFICATION FairSpec
INVARIANT TypeOK
INVARIANT FrontThere
INVARIANT MappedQueued
PROPERTY QueuedTaken
