SPECIFICATION Spec
CHECK_DEADLOCK FALSE
CONSTANTS
    Kinds = {"poll"}
    MaxAttempts = {1}
    OneThread = FALSE
    Faults = {}
PROPERTY NotDestroyedInUse
