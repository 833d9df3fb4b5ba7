CONSTANTS
    c1 = c1
    c2 = c2
    k1 = k1
    q1 = q1
    Calls = {c1, c2}
    Kits = {k1}
    KitOf <- TwoCalls
    RequestCap = 1
    ResponseCap = 1
    OutboxCap = 2
    Timeout = 1
    Bodies = {"Value"}
    StrayIds = {}
    MaxCalls = 2
    MaxCrashes = 0
    MaxForeign = 3
    NoCall = NoCall
    ConnAck = ConnAck
    Message = Message
    Junk = Junk
    Subscribe = Subscribe
    Foreign = {Subscribe}
    Queries = {}
    Batch = 1
    MaxDrops = 0
SPECIFICATION MqttFairSpec
PROPERTY StreamKeepsPolling
CHECK_DEADLOCK FALSE
