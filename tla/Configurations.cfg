CONSTANTS
    r1 = r1
    r2 = r2
    k1 = k1
    k2 = k2
    a1 = a1
    a2 = a2
    b1 = b1
    p1 = p1
    p2 = p2
    Requests = {r1, r2}
    Kits = {k1, k2}
    Configs = {a1, a2, b1}
    KitOf <- TwoKits
    Peripherals = {p1, p2}
    MaxEdits = 2
    None = None
SPECIFICATION Spec
INVARIANTS TypeOK OneActive
PROPERTIES KeepsSlots SettledStays
SYMMETRY Symmetry
\* Every id has been handed out and every row deleted: an end.
CHECK_DEADLOCK FALSE
