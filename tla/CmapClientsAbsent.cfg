CONSTANTS
    c1 = c1
    c2 = c2
    Clients <- MCClients
    Keys <- MCKeys
    HashOf <- MCHashOf
    BUCK_SIZE = 2
    DATA_SIZE = 1
    UINT64 = 8
    Values = {0, 5}
    MaxEntries = 2
    CallsAbsent = TRUE
SPECIFICATION Spec
INVARIANT LockReleased
