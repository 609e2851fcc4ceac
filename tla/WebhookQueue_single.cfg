\* One instance, two deliveries, a failing database call and a restart.
SPECIFICATION FairSpec
CONSTANTS
    Instances = {i1}
    Webhooks = {w1}
    Events = {e1, e2}
    Subscriptions <- AllEvents
    Concurrency = 2
    MaxAttempts = 2
    MaxDowns = 1
    MaxDbErrors = 1
INVARIANTS
    OneAttemptAtATime
    RequestsBounded
PROPERTY EventuallyResolved
CHECK_DEADLOCK FALSE
