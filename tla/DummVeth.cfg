CONSTANTS
    Pkt = {1, 2, 3, 4}
    pool_size = 2
    budget = 1
    Lockups = {0}
    MaxSend <- Sends
    Restless = {}
    MaxFaults = 0
SPECIFICATION MCSpec
CHECK_DEADLOCK FALSE
PROPERTIES QueueWoken QueueDrained
