CONSTANTS
    TESTCASE = 7
    BUFFSIZE = 2
    UINT32 = 4
    MaxSpurious = 2
SPECIFICATION Spec
INVARIANTS InOrder RingWindow NoLostWakeup NoUseAfterFree
PROPERTIES Finishes ImplementsFifo
