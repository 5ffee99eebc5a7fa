CONSTANTS
    Pkt = {1, 2, 3, 4, 5, 6}
    pool_size = 2
    budget = 2
    Lockups = {0, 2}
    MaxSend <- Sends
    Restless = {0}
    MaxFaults = 1
    Share <- Shares
    Drivers = {"dummveth", "deth", "kneigh", "kxdp_generic", "kxdp_native", "kxfrm_cbc", "kxfrm_gcm"}
SPECIFICATION PairSpec
CHECK_DEADLOCK FALSE
INVARIANTS PairConserved SkbFreed PollFindsPacket NeverOutOfPool DoneAfterCopyUnlessClash
