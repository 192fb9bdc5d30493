\* syncConfigMap with one failing Send and resync: two nodes, two pods, one
\* configmap changed twice.
CONSTANTS
    Nodes = {n1, n2}
    Pods = {p1, p2}
    ConfigMaps = {c1}
    Secrets = {s1}
    NoNode = NoNode
    NoPod = NoPod
    NotEdge = NotEdge
    MaxVersion = 2
    MaxLosses = 1
    MaxPodChanges = 2
    MaxRestarts = 1
SPECIFICATION Spec
PROPERTY UpdatesReachEdge
