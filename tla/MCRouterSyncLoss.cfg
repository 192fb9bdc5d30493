\* A failed Send of a rule is never repaired: the resync Modified is skipped.
CONSTANTS
    r1 = r1
    r2 = r2
    Kinds = {"rule", "ruleendpoint"}
    Names = {r1, r2}
    MaxLosses = 1
    Resync = TRUE
    MaxEvents = 1
    MaxRestarts = 0
SPECIFICATION Spec
PROPERTY ExistingObjectsReachEdge
CHECK_DEADLOCK FALSE
