CONSTANTS
    OP_COUNT = 3
    limit = 3
    Heads <- MCHeads
    Tasks <- MCTasks
    HashOf <- MCHashOf
    Addr = {1, 2, 3, 4, 5}
    MaxFail = 1
SPECIFICATION Spec
INVARIANTS ReaderOnLiveNode ReadIsCurrent NoLeak
PROPERTIES TasksEnd
