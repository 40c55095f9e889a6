SPECIFICATION FairSpec
CONSTANTS
    s = s
    a = a
    b = b
    k = k
    j = j
    c = c
    kv1 = kv1
    jv1 = jv1
    cv1 = cv1
    None = None
    Server = s
    Nodes = {s, a, b}
    Keys = {k, j, c}
    NameOf <- MCNameOf
    HomeOf <- MCHomeOf
    Values = {kv1, jv1, cv1}
    ValuesFor <- MCValuesFor
    Writers <- CAway
    Getters <- CByB
    Waiters <- TwoOneOne
    PutBudget = 1
    AskBudget = 1
    Backlog = 2
INVARIANTS TypeOK WalkInBounds AnswersOnlyTheAsked WaiterStillListed RightAnswer
PROPERTIES ImplementsBlackboard CoveredIsAnswered
CHECK_DEADLOCK FALSE
