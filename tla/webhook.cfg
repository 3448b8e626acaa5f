SPECIFICATION ReceiverSpec
CONSTANTS
    e1 = e1 e2 = e2
    Events = {e1, e2}
    Deliveries = {d1, d2, d3}
    Durable = TRUE
    Overlapping <- OnlyFirst
    MaxErrors = 2
    MaxLosses = 2
    MaxCrashes = 1
INVARIANTS HandledOnce RecordedIsOwned
PROPERTY EventuallyHandled
CHECK_DEADLOCK FALSE
