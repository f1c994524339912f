CONSTANTS
    Archive <- MCArchive
    Commands <- MCCommands
    Outside = Outside
SPECIFICATION Spec
INVARIANT PercentOrdersInfinities
CHECK_DEADLOCK FALSE
