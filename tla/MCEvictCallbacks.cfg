CONSTANTS
    NumCalls = 3
    MaxPanics = 1
SPECIFICATION FairSpec
INVARIANTS
    CallbackUnderHold
    HoldLeavesNoTrace
    EnqueueMeetsHolder
    NoSelfDeadlock
    OutsidersDeliverTheirOwn
    DeliveredOnce
PROPERTIES
    EveryCallSettles
