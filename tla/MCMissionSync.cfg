\* Convergence of the mission fan-out and the mission-list reconcile: two
\* clusters, two missions, two API server changes after start.
CONSTANTS
    e1 = e1
    e2 = e2
    m1 = m1
    m2 = m2
    Clusters = {e1, e2}
    Missions = {m1, m2}
    MaxEvents = 2
    PeriodicReports = TRUE
SPECIFICATION Spec
PROPERTY EventuallyConverged
