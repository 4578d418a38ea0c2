CONSTANTS
 Words = {"yeet.com", "127.0.0.1", "1080", "1234", "99999", "user", "pass", "x", "fe80", "0", "2ef0", "c299"}
 V4 = {"127.0.0.1"}
 V6 <- V6Addresses
 CanonV6 <- Netip
 Numbers = {"1080", "1234", "99999"}
 Ports = {"1080", "1234"}
 Proxies <- SomeProxies
 OtherLines <- SomeLines
 Files <- SomeFiles
 MaxRecords = 2
SPECIFICATION Spec
INVARIANT TypeOK
INVARIANT FormatsRead
INVARIANT TakenDialable
INVARIANT DialableTaken
CHECK_DEADLOCK FALSE
