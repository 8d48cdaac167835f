SPECIFICATION Spec
CONSTANTS
    Tracks = {1, 2}
    Data = {"x", "y"}
    NoOp = NoOp
    DataLen = 2
    MaxFaults = 3
PROPERTIES  Recovers
