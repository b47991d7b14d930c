SPECIFICATION FairSpec
CONSTANTS
    Senders = {s1, s2}
    Listeners = {l1, l2}
    Capacities = {0, 1}
    MaxSends = 3
    MaxCloses = 2
INVARIANTS TypeOK EveryListenerHearsAll KeptUntilClosed
PROPERTIES IsALog SendReturnsUnlessDeserted EndReachesReaders
CHECK_DEADLOCK FALSE
