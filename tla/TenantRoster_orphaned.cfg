SPECIFICATION RosterSpec
CONSTANTS
    Users = {u1, u2}
    Managers = {m1, m2}
    MaxOrders = 2
    MaxMishaps = 0
PROPERTY NeverOrphaned
CHECK_DEADLOCK FALSE
