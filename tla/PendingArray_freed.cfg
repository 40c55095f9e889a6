SPECIFICATION Spec
CONSTANTS
    m1 = m1
    m2 = m2
    Null = Null
    Items = {m1, m2}
    MaxItems = 4
    MaxWalks = 2
INVARIANTS GetReturnsTheItem
CHECK_DEADLOCK FALSE
