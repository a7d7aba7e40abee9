\* Two loops of one worker and a loop of another one.
CONSTANTS
    l1 = l1
    l2 = l2
    l3 = l3
    d1 = d1
    d2 = d2
    Event = {e1, e2}
    JobEvent = {e1}
    Loop = {l1, l2, l3}
    Dispatcher = {d1, d2}
    NoDispatcher = NoDispatcher
    DispatcherOf <- Mixed
    NoRun = NoRun
    OutboxMaxAttempts = 2
SPECIFICATION OutboxFairSpec
INVARIANTS
    OneWriter
PROPERTIES
    ImplementsDelivery
    EventsSettle
