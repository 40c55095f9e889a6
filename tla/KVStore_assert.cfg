SPECIFICATION Spec
CONSTANTS
    s = s
    a = a
    b = b
    k = k
    j = j
    c = c
    kv1 = kv1
    jv1 = jv1
    cv1 = cv1
    None = None
    Server = s
    Nodes = {s, a, b}
    Keys = {k, c}
    NameOf <- MCNameOf
    HomeOf <- MCHomeOf
    Values = {kv1, jv1, cv1}
    ValuesFor <- MCValuesFor
    Writers <- AtHome
    Getters <- Nobody
    Waiters <- Mixed
    PutBudget = 1
    AskBudget = 1
    Backlog = 2
INVARIANTS OnlyDataArrives
CHECK_DEADLOCK FALSE
