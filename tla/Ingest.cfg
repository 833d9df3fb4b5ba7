CONSTANTS
    m1 = m1
    m2 = m2
    m3 = m3
    p1 = p1
    k1 = k1
    k2 = k2
    r1 = r1
    r2 = r2
    Messages = {m1, m2, m3}
    Peripherals = {p1}
    Kits = {k1, k2}
    PeripheralOf <- OnePeripheral
    SenderOf <- Senders
    KitOf <- Owner
    Runners = {r1, r2}
    MaxTaken = 2
    MaxRestarts = 1
    None = None
SPECIFICATION FairSpec
INVARIANTS TypeOK FiledUnderItsKit KitSeen OfferIsNoticed
PROPERTIES EveryMessageHandled
\* Every message has been taken and handled: an end.
CHECK_DEADLOCK FALSE
