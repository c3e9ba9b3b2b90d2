\* One module, whose two classes are connected one after the other.
CONSTANTS
    Source = {"s1"}
    Module = {"m"}
    None = "none"
    Classes = 2
    HistoryDepth = 2
    MaxEdits = 2
    MaxPresses = 1
    MaxInstances = 4

SPECIFICATION Spec

INVARIANTS
    ListenersNeverStack

CHECK_DEADLOCK FALSE
