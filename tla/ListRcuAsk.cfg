CONSTANTS
    Heads <- MCHeads
    Tasks <- Asking
    Script <- AskingScript
    Addr = {1, 2, 3}
    Ids = {1, 2}
SPECIFICATION Spec
INVARIANTS PointersLive

