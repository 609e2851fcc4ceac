\* Two instances competing for one delivery.
SPECIFICATION Spec
CONSTANTS
    Instances = {i1, i2}
    Webhooks = {w1}
    Events = {e1}
    Subscriptions <- AllEvents
    Concurrency = 2
    MaxAttempts = 2
    MaxDowns = 1
    MaxDbErrors = 1
INVARIANTS
    SuccessWasAcknowledged
    ExhaustedSpentBudget
    ConcurrencyBounded
PROPERTIES
    ImplementsContract
SYMMETRY InstanceSymmetry
CHECK_DEADLOCK FALSE
