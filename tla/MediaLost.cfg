CONSTANTS
    m1 = m1
    m2 = m2
    a = a
    b = b
    r1 = r1
    r2 = r2
    Media = {m1, m2}
    Configs = {a, b}
    ConfigOf <- TwoConfigs
    Requests = {r1, r2}
    MaxDeliveries <- Deliveries
    Refusable = {}
    Targets = {m1, a, Kit}
    Kit = Kit
    Uploader = Uploader
    None = None
SPECIFICATION Spec
INVARIANT NeverLost
