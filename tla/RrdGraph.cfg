CONSTANTS
    Archive <- MCArchive
    Commands <- MCCommands
    Outside = Outside
SPECIFICATION Spec
INVARIANTS TypeOK DefRowsConsolidate CdefRowsAreMeant OutputCoversItsTime
CHECK_DEADLOCK FALSE
