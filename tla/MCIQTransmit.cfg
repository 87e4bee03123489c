SPECIFICATION FairSpec
CONSTANTS
    c1 = c1  c2 = c2  s1 = s1  s2 = s2
    Clients <- TwoClients
    Sources <- OneSource
    Cap = 2
    Blocks = 2
    MaxPackets = 3
    MaxEpoch = 5
INVARIANTS QueueIsCurrent Accounted
PROPERTIES NoResend HeadIsServed QueueDrains
