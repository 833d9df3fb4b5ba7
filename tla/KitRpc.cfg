CONSTANTS
    c1 = c1
    c2 = c2
    c3 = c3
    k1 = k1
    k2 = k2
    Calls = {c1, c2, c3}
    Kits = {k1, k2}
    KitOf <- TwoKits
    RequestCap = 1
    ResponseCap = 2
    OutboxCap = 1
    Timeout = 2
    Bodies = {"Value", "Error"}
    StrayIds = {0}
    MaxCalls = 2
    MaxCrashes = 1
    MaxForeign = 1
    NoCall = NoCall
    Foreign = {packet}
SPECIFICATION Spec
SYMMETRY Symmetry
INVARIANTS TypeOK AnswerMatchesRequest NoLostCall ResponseFindsWaiter AnsweredByOwnKit
PROPERTIES NoPrematureTimeout KeepsPromise
\* Every call made, cancelled or resolved and the driver stopped: an end.
CHECK_DEADLOCK FALSE
