SPECIFICATION Spec
CONSTANTS
    Maps <- MCMaps
    MaxSwaps = 3
    Points = {p1, p2}
    NoPoint = NoPoint
    MaxShapes = 4
SYMMETRY MCSymmetry
INVARIANTS
    TypeOK
    FieldIsTheArea
    OverlaysReturn
