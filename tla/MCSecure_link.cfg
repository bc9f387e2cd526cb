SPECIFICATION MCSpec
CONSTANTS
    Bodies = {a, b}
    MaxSent = 2
    MaxFaults = 1
    MaxCalls = 3
    MaxFrames = 1
    MaxHeld = 2
CHECK_DEADLOCK FALSE
INVARIANTS
    MCTypeOK
    ChannelSafe
    OnlyProvenServed
    LinkInStep
PROPERTIES
    ImplementsFifoStream
    EverythingArrives
    CallsSettle
