CONSTANTS
    Starts = {s1, s2, s3}
    None = None
    MaxStops = 0
SPECIFICATION Spec
INVARIANT OwnsPidFile
CHECK_DEADLOCK FALSE
