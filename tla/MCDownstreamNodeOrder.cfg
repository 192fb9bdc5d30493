\* syncPod handles a pod before syncEdgeNodes has registered its node.
CONSTANTS
    n1 = n1
    n2 = n2
    p1 = p1
    c1 = c1
    s1 = s1
    Nodes = {n1, n2}
    Pods = {p1}
    ConfigMaps = {c1}
    Secrets = {s1}
    NoNode = NoNode
    NoPod = NoPod
    NotEdge = NotEdge
    MaxEvents = 3
    InitNodeStates = {"True", "Absent"}
    InitPodSpecs <- NoInitPods
SPECIFICATION Spec
INVARIANT IndexCoversEdgePods
\* Once every loop has returned after shutdown the controller does nothing
\* more: that final state is the end of the run, not a deadlock.
CHECK_DEADLOCK FALSE
