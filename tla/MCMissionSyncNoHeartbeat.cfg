\* A cluster created after start is never put in EdgeClusters; with status
\* updates only on change it never receives the missions.
CONSTANTS
    e1 = e1
    e2 = e2
    m1 = m1
    m2 = m2
    Clusters = {e1, e2}
    Missions = {m1, m2}
    MaxEvents = 3
    PeriodicReports = FALSE
SPECIFICATION Spec
PROPERTY EventuallyConverged
