CONSTANTS
    None = None
    Runs = {r1, r2}
SPECIFICATION Spec
PROPERTIES NoCatchUp
CHECK_DEADLOCK FALSE
