--------------------------- MODULE LocationCache ---------------------------
(***************************************************************************)
(* The LocationCache of the edge controller: the multi-index that answers  *)
(* "which edge nodes must see this configmap / secret".  Its code          *)
(* (manager.LocationCache) is not part of this repository; its operations  *)
(* are modelled from the contract in spec.md section 4.1.  Each index has  *)
(* its own lock and no operation spans a sync-loop step, so every          *)
(* operation below is one atomic action over the cache variables.          *)
(*                                                                         *)
(* A pod is abstracted to the node it is bound to and the configmaps and   *)
(* secrets its volumes and envFrom sources name.                           *)
(***************************************************************************)
EXTENDS FiniteSets

CONSTANTS
    Nodes,        \* edge-labelled node names
    Pods,         \* pod (namespace, name) keys
    ConfigMaps,   \* configmap (namespace, name) keys
    Secrets,      \* secret (namespace, name) keys
    NoNode,       \* pod.Spec.NodeName = "" (not yet scheduled)
    NoPod,        \* no PodIndex entry for a key
    NotEdge       \* no EdgeNodes entry for a node name

ASSUME NoNode \notin Nodes

VARIABLES
    edgeNodes,    \* EdgeNodes: node -> cached Ready status, or NotEdge
    cmNodes,      \* ConfigMapNodes: configmap -> set of nodes
    secretNodes,  \* SecretNodes: secret -> set of nodes
    podIndex      \* PodIndex: pod -> the spec last indexed, or NoPod

cacheVars == <<edgeNodes, cmNodes, secretNodes, podIndex>>

\* The Ready status strings the cache can hold; "" is what initLocating
\* stores for a node whose Ready condition it did not find.
CachedStatus == {"True", "False", ""}

PodSpec == [node : Nodes \cup {NoNode}, cms : SUBSET ConfigMaps,
            secs : SUBSET Secrets]

CacheTypeOK ==
    /\ edgeNodes \in [Nodes -> CachedStatus \cup {NotEdge}]
    /\ cmNodes \in [ConfigMaps -> SUBSET Nodes]
    /\ secretNodes \in [Secrets -> SUBSET Nodes]
    /\ podIndex \in [Pods -> PodSpec \cup {NoPod}]

-----------------------------------------------------------------------------
(* Queries.  They return snapshots: callers iterate without holding locks. *)

IsEdgeNode(n) == n \in Nodes /\ edgeNodes[n] # NotEdge

GetNodeStatus(n) == IF IsEdgeNode(n) THEN edgeNodes[n] ELSE ""

ConfigMapNodes(c) == cmNodes[c]

SecretNodes(s) == secretNodes[s]

\* The nodes of the indexed pods whose field ("cms" or "secs") names x.
ReferringNodes(index, field, x) ==
    { index[q].node : q \in { q \in Pods : index[q] # NoPod /\ x \in index[q][field] } }

-----------------------------------------------------------------------------
(* Mutations. *)

UpdateEdgeNode(n, status) ==
    /\ edgeNodes' = [edgeNodes EXCEPT ![n] = status]
    /\ UNCHANGED <<cmNodes, secretNodes, podIndex>>

\* DeleteNode drops the node from EdgeNodes and from every value set.
DeleteNode(n) ==
    /\ edgeNodes' = [edgeNodes EXCEPT ![n] = NotEdge]
    /\ cmNodes' = [c \in ConfigMaps |-> cmNodes[c] \ {n}]
    /\ secretNodes' = [s \in Secrets |-> secretNodes[s] \ {n}]
    /\ UNCHANGED podIndex

\* One index of AddOrUpdatePod: keep x's set, drop the pod's previous node
\* if no indexed pod on it still names x, and add the new node if the new
\* spec names x.
Reindexed(set, old, new, newIndex, field, x) ==
    LET stale == IF old # NoPod /\ x \in old[field]
                    /\ old.node \notin ReferringNodes(newIndex, field, x)
                 THEN {old.node} ELSE {}
        added == IF x \in new[field] THEN {new.node} ELSE {}
    IN  (set \ stale) \cup added

\* AddOrUpdatePod(pod): record the pod and diff its references against the
\* spec indexed before for the same key.
AddOrUpdatePod(p, spec) ==
    LET old == podIndex[p]
        newIndex == [podIndex EXCEPT ![p] = spec]
    IN  /\ podIndex' = newIndex
        /\ cmNodes' = [c \in ConfigMaps |->
                         Reindexed(cmNodes[c], old, spec, newIndex, "cms", c)]
        /\ secretNodes' = [s \in Secrets |->
                         Reindexed(secretNodes[s], old, spec, newIndex, "secs", s)]
        /\ UNCHANGED edgeNodes

DeleteConfigMap(c) ==
    /\ cmNodes' = [cmNodes EXCEPT ![c] = {}]
    /\ UNCHANGED <<edgeNodes, secretNodes, podIndex>>

DeleteSecret(s) ==
    /\ secretNodes' = [secretNodes EXCEPT ![s] = {}]
    /\ UNCHANGED <<edgeNodes, cmNodes, podIndex>>

=============================================================================
