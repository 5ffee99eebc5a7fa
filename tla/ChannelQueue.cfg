CONSTANTS
    TESTCASE = 7
    BUFFSIZE = 2
    UINT32 = 4
    HeapWords = {0, 1, 3}
    MaxSpurious = 1
CHECK_DEADLOCK FALSE
SPECIFICATION Spec
INVARIANTS CleanRunsCorrect SuccessMeansAll
PROPERTIES Finishes
