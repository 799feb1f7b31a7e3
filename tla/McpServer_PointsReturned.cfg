CONSTANTS
    Keys = {k1}
    Ids = {i1}
    None = None
    BadId = BadId
    Null = Null
    MaxLines = 2
    MaxSamples = 1
SPECIFICATION Spec
INVARIANT PointsReturned
