CONSTANTS
    TESTCASE = 4
    LIMIT = 2
    Addr = {a1, a2, a3, a4}
    MaxSpurious = 1
SPECIFICATION Spec
INVARIANTS OrderedOrCrashed ListShape
PROPERTIES Finishes ImplementsFifo
