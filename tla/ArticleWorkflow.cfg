\* One article; five operations of two requests, or six one after another.
SPECIFICATION WorkflowSpec
CONSTANTS
    Articles = {a1}
    PostTypeOf <- AllPosts
    Requests = {q1, q2}
    Offered <- AllOps
    MaxIssued = 6
    MaxTogether = 5
    MaxErrors = 1
SYMMETRY RequestSymmetry
INVARIANTS DatesFollowStatus TrailExplainsStatus SearchableWhenSerial ChainedWhenSerial
PROPERTIES DeletedIsUntouched
CHECK_DEADLOCK FALSE
