SPECIFICATION MCSpec
CONSTANTS
    Handles = {"h1", "h2", "h3"}
    MaxSubscriptions = 3
    MaxEvents = 2
    Hosts = {"h1", "h2"}
    Streams = {"s1"}
    Seeds = {"e1"}
    NULL = "null"
    Index <- MCIndex
    Names = {"n1"}
    Handlers = {"f1"}
    MaxOps = 2
    Parts = {"stop"}
PROPERTY
    StopAlwaysReturns
CHECK_DEADLOCK FALSE
