\* One process, and a caller who has the password and guesses codes one after another.
SPECIFICATION CodesSpec
CONSTANTS
    Guards = {g1}
    maxAttempts = 3
    windowDuration = 2
    lockDuration = 2
    MaxTime = 3
    MaxPending = 1
    MaxFailures = 3
    MaxErrors = 0
INVARIANT WrongCodesLock
CHECK_DEADLOCK FALSE
