CONSTANTS
    Heads <- MCHeads
    Tasks <- Reading
    Script <- ReadingScript
    Addr = {1, 2, 3, 4, 5}
    Ids = {1, 2}
SPECIFICATION Spec
INVARIANTS PointersLive ListMatchesCalls
PROPERTIES EverythingFreed
