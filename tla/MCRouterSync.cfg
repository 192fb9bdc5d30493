\* The rule loops and a message layer that may fail, with resync and one
\* controller restart, checked against the best-effort contract.
CONSTANTS
    r1 = r1
    r2 = r2
    Kinds = {"rule", "ruleendpoint"}
    Names = {r1, r2}
    MaxLosses = 1
    Resync = TRUE
    MaxEvents = 1
    MaxRestarts = 1
SPECIFICATION Spec
INVARIANT TypeOK
PROPERTY RouterRefinement
\* Once the API server stops changing and every loop has drained its
\* channel the controller has nothing to do.
CHECK_DEADLOCK FALSE
