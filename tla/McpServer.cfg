CONSTANTS
    Keys = {k1, k2}
    Ids = {i1}
    None = None
    BadId = BadId
    Null = Null
    MaxLines = 2
    MaxSamples = 1
SPECIFICATION Spec
INVARIANTS
    AnswersMatch
    ResultIsWhole
PROPERTY
    LineProcessed
