CONSTANTS
    Pkt = {1, 2}
    pool_size = 1
    budget = 1
    Lockups = {0}
    MaxSend <- Sends
    Restless = {}
    MaxFaults = 0
SPECIFICATION MCSpec
CHECK_DEADLOCK FALSE
INVARIANTS DoneAfterCopy
