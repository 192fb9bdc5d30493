\* A rule deleted while its event is still queued is never deleted at the
\* edge when the controller restarts: the relist has no Deleted.
CONSTANTS
    r1 = r1
    r2 = r2
    Kinds = {"rule", "ruleendpoint"}
    Names = {r1, r2}
    MaxLosses = 0
    Resync = TRUE
    MaxEvents = 1
    MaxRestarts = 1
SPECIFICATION Spec
PROPERTY EventuallyConsistent
CHECK_DEADLOCK FALSE
