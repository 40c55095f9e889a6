SPECIFICATION AppSpec
CONSTANTS
    main = main
    verify = verify
    check = check
    triv = triv
    numbers = numbers
    sum = sum
    total = total
    trivial = trivial
    None = None
    Server = 0
    Nodes = {0, 1, 2}
    Keys = {main, verify, check, triv}
    NameOf <- OwnName
    HomeOf <- HomeIsZero
    Values = {numbers, sum, total, trivial}
    ValuesFor <- PutValues
    Writers <- Putters
    Getters <- Fetchers
    Waiters <- Awaiters
    PutBudget = 1
    AskBudget = 1
    Backlog = 2
    Programs <- OnlyDemo
INVARIANTS KeyIsAtHome
CHECK_DEADLOCK FALSE
