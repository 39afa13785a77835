SPECIFICATION Spec
CONSTANTS
    Exits = {e1}
CHECK_DEADLOCK FALSE
PROPERTY StopTearsDown
