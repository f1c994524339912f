CONSTANTS
    Starts = {s1, s2, s3, s4}
    None = None
    MaxStops = 1
SPECIFICATION Spec
SYMMETRY MCSymmetry
INVARIANTS TypeOK OneDaemon FilesNameTheDaemon LeftoversAreExplained
CHECK_DEADLOCK FALSE
