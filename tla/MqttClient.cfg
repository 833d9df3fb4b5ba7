CONSTANTS
    c1 = c1
    c2 = c2
    k1 = k1
    q1 = q1
    Calls = {c1}
    Kits = {k1}
    KitOf <- OneCall
    RequestCap = 1
    ResponseCap = 1
    OutboxCap = 4
    Timeout = 1
    Bodies = {"Value"}
    StrayIds = {}
    MaxCalls = 1
    MaxCrashes = 0
    MaxForeign = 4
    NoCall = NoCall
    ConnAck = ConnAck
    Message = Message
    Junk = Junk
    Subscribe = Subscribe
    Foreign = {Subscribe, q1}
    Queries = {q1}
    Batch = 2
    MaxDrops = 1
SPECIFICATION MqttFairSpec
INVARIANTS MqttTypeOK SubscriptionPending
PROPERTIES IsKitRpcNetwork StreamKeepsPolling QueryAnswered EveryCallEnds WaitersReclaimed
CHECK_DEADLOCK FALSE
