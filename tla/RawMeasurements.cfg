CONSTANTS
    s1 = s1
    s2 = s2
    k1 = k1
    None = None
    Subs = {s1, s2}
    Kits = {k1}
    KitOf <- TwoSubs
    QueueCap = 1
    MaxPublished = 2
SPECIFICATION FairSpec
INVARIANTS TypeOK NoChannelLeak NeverGoesBack NoSilentGap
PROPERTIES ClosedEnds
\* Subscriptions end and the publisher reaches its bound: an end.
CHECK_DEADLOCK FALSE
