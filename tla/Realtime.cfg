\* One device: three connections over its life, two of its goroutines that reconnect.
SPECIFICATION FairLinkSpec
CONSTANTS
    Conns = {1, 2, 3}
    Loops = {"l1", "l2"}
    Capacity = 1
    MaxFaults = 2
    MaxCalls = 1
CHECK_DEADLOCK FALSE
INVARIANTS
    HubSendsOnOpen
PROPERTIES
    StaysConnected
    LetsGo
