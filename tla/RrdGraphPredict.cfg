CONSTANTS
    Archive <- MCArchive
    Commands <- MCCommands
    Outside = Outside
SPECIFICATION Spec
INVARIANT PredictLooksBack
CHECK_DEADLOCK FALSE
