----------------------------- MODULE Downstream -----------------------------
(***************************************************************************)
(* The location-driven sync loops of DownstreamController                  *)
(* (src/cloud/pkg/edgecontroller/controller/downstream.go): syncPod,       *)
(* syncConfigMap, syncSecret and syncEdgeNodes, which share the            *)
(* LocationCache, plus initLocating, which primes the cache, and the       *)
(* informers that feed each loop its own FIFO event channel.               *)
(*                                                                         *)
(* Each loop is a goroutine.  A step of a loop runs from one call into the *)
(* LocationCache to the next, so a loop that reads the cache and later     *)
(* writes it (syncPod: IsEdgeNode then AddOrUpdatePod; syncConfigMap:      *)
(* ConfigMapNodes then DeleteConfigMap) takes two steps, and the other     *)
(* loops may run in between.  SendMessage hands a message to the message   *)
(* layer; `sent` records what was handed over.                             *)
(***************************************************************************)
EXTENDS LocationCache, Sequences, SequencesExt, Naturals

CONSTANTS
    MaxEvents,        \* how many cloud changes the informers deliver in a run
    InitNodeStates,   \* the node states the API server may start with
    InitPodSpecs      \* the pod specs the API server may start with

ASSUME MaxEvents \in Nat
ASSUME InitNodeStates \subseteq {"True", "False", "None", "Absent"}
ASSUME InitPodSpecs \subseteq PodSpec

VARIABLES
    cloudNodes,   \* node -> Ready status in the API server, "None", or "Absent"
    cloudPods,    \* pod -> its spec in the API server, or NoPod
    cloudCMs,     \* configmaps that exist in the API server
    cloudSecrets, \* secrets that exist in the API server
    podQ, cmQ, secretQ, nodeQ,  \* the managers' Events() channels
    pc,           \* loop -> "recv" (in its select), "send", or "stopped"
    podEv,        \* syncPod's current event
    cmEv, cmSnap, \* syncConfigMap's current event and node snapshot
    secretEv, secretSnap,
    done,         \* beehiveContext.Done() has fired
    budget,       \* cloud changes still to come
    sent          \* messages handed to the message layer

cloudVars == <<cloudNodes, cloudPods, cloudCMs, cloudSecrets>>
queueVars == <<podQ, cmQ, secretQ, nodeQ>>
loopVars == <<pc, podEv, cmEv, cmSnap, secretEv, secretSnap>>
vars == <<cacheVars, cloudVars, queueVars, loopVars, done, budget, sent>>

Loops == {"pod", "configmap", "secret", "node"}
EventType == {"Added", "Modified", "Deleted"}
NodeState == {"True", "False", "None", "Absent"}
NoEvent == [type |-> "None"]

PodEvent == [type : EventType, pod : Pods, spec : PodSpec]
CMEvent == [type : EventType, name : ConfigMaps]
SecretEvent == [type : EventType, name : Secrets]
NodeEvent == [type : EventType, name : Nodes, status : NodeState \ {"Absent"}]

Message == [kind : {"pod", "configmap", "secret", "node"},
            to : Nodes, name : Pods \cup ConfigMaps \cup Secrets \cup Nodes,
            op : {"insert", "update", "delete"}]

\* Operation of a pod, configmap or node event (downstream.go:91-103, 123-134).
EventOp == [Added |-> "insert", Modified |-> "update", Deleted |-> "delete"]

\* syncSecret maps Added to update as well (downstream.go:171-183).
SecretOp == [Added |-> "update", Modified |-> "update", Deleted |-> "delete"]

TypeOK ==
    /\ CacheTypeOK
    /\ cloudNodes \in [Nodes -> NodeState]
    /\ cloudPods \in [Pods -> PodSpec \cup {NoPod}]
    /\ cloudCMs \subseteq ConfigMaps /\ cloudSecrets \subseteq Secrets
    /\ podQ \in Seq(PodEvent) /\ cmQ \in Seq(CMEvent)
    /\ secretQ \in Seq(SecretEvent) /\ nodeQ \in Seq(NodeEvent)
    /\ pc \in [Loops -> {"recv", "send", "stopped"}]
    /\ podEv \in PodEvent \cup {NoEvent}
    /\ cmEv \in CMEvent \cup {NoEvent} /\ cmSnap \subseteq Nodes
    /\ secretEv \in SecretEvent \cup {NoEvent} /\ secretSnap \subseteq Nodes
    /\ done \in BOOLEAN
    /\ budget \in 0..MaxEvents
    /\ sent \subseteq Message

-----------------------------------------------------------------------------
(* initLocating (downstream.go:475-514).  The node loop keeps `status` in   *)
(* a variable declared outside the loop, so a node without a Ready          *)
(* condition is stored with the status of the node listed before it.       *)

RECURSIVE PrimeEdgeNodes(_, _, _)
PrimeEdgeNodes(list, status, acc) ==
    IF list = <<>> THEN acc
    ELSE LET n == Head(list)
             s == IF cloudNodes[n] \in {"True", "False"} THEN cloudNodes[n] ELSE status
         IN  PrimeEdgeNodes(Tail(list), s, [acc EXCEPT ![n] = s])

\* The pod list is indexed from an empty PodIndex, where AddOrUpdatePod only
\* adds, so the result is the same in every list order.
InitLocating(nodeList) ==
    /\ edgeNodes = PrimeEdgeNodes(nodeList, "", [n \in Nodes |-> NotEdge])
    /\ podIndex = [p \in Pods |-> IF cloudPods[p] # NoPod /\ IsEdgeNode(cloudPods[p].node)
                                  THEN cloudPods[p] ELSE NoPod]
    /\ cmNodes = [c \in ConfigMaps |-> ReferringNodes(podIndex, "cms", c)]
    /\ secretNodes = [s \in Secrets |-> ReferringNodes(podIndex, "secs", s)]

\* The informers start after NewDownstreamController returns and deliver an
\* Added event for every object of their initial list, in some order.
InformerList(q, events) == \E order \in SetToSeqs(events) : q = order

Init ==
    /\ cloudNodes \in [Nodes -> InitNodeStates]
    /\ cloudPods \in [Pods -> InitPodSpecs \cup {NoPod}]
    /\ cloudCMs \in SUBSET ConfigMaps
    /\ cloudSecrets \in SUBSET Secrets
    /\ \E nodeList \in SetToSeqs({n \in Nodes : cloudNodes[n] # "Absent"}) :
           InitLocating(nodeList)
    /\ InformerList(podQ, {[type |-> "Added", pod |-> p, spec |-> cloudPods[p]] :
                            p \in {p \in Pods : cloudPods[p] # NoPod}})
    /\ InformerList(cmQ, {[type |-> "Added", name |-> c] : c \in cloudCMs})
    /\ InformerList(secretQ, {[type |-> "Added", name |-> s] : s \in cloudSecrets})
    /\ InformerList(nodeQ, {[type |-> "Added", name |-> n, status |-> cloudNodes[n]] :
                             n \in {n \in Nodes : cloudNodes[n] # "Absent"}})
    /\ pc = [l \in Loops |-> "recv"]
    /\ podEv = NoEvent /\ cmEv = NoEvent /\ secretEv = NoEvent
    /\ cmSnap = {} /\ secretSnap = {}
    /\ done = FALSE
    /\ budget = MaxEvents
    /\ sent = {}

-----------------------------------------------------------------------------
(* The API server and the informers.  Each change is delivered, in order,  *)
(* to the Events() channel of the manager of its kind.                     *)

Change(q, e) ==
    /\ ~done /\ budget > 0
    /\ budget' = budget - 1
    /\ q' = Append(q, e)

NodeChange(n, s, e) ==
    /\ cloudNodes' = [cloudNodes EXCEPT ![n] = s]
    /\ Change(nodeQ, e)
    /\ UNCHANGED <<cloudPods, cloudCMs, cloudSecrets, podQ, cmQ, secretQ>>

PodChange(p, spec, e) ==
    /\ cloudPods' = [cloudPods EXCEPT ![p] = spec]
    /\ Change(podQ, e)
    /\ UNCHANGED <<cloudNodes, cloudCMs, cloudSecrets, nodeQ, cmQ, secretQ>>

NodeAdded(n, s) ==
    /\ cloudNodes[n] = "Absent"
    /\ NodeChange(n, s, [type |-> "Added", name |-> n, status |-> s])

\* A Ready condition changes status; it is never removed once reported.
NodeModified(n, s) ==
    /\ cloudNodes[n] \notin {"Absent", s}
    /\ s \in {"True", "False"}
    /\ NodeChange(n, s, [type |-> "Modified", name |-> n, status |-> s])

NodeDeleted(n) ==
    /\ cloudNodes[n] # "Absent"
    /\ NodeChange(n, "Absent", [type |-> "Deleted", name |-> n, status |-> cloudNodes[n]])

PodAdded(p, spec) ==
    /\ cloudPods[p] = NoPod
    /\ PodChange(p, spec, [type |-> "Added", pod |-> p, spec |-> spec])

\* The scheduler binds an unbound pod; any other update (status, labels)
\* leaves NodeName and the volumes as they are.
PodModified(p) ==
    /\ cloudPods[p] # NoPod
    /\ \E node \in IF cloudPods[p].node = NoNode THEN Nodes ELSE {cloudPods[p].node} :
           LET spec == [cloudPods[p] EXCEPT !.node = node]
           IN  PodChange(p, spec, [type |-> "Modified", pod |-> p, spec |-> spec])

PodDeleted(p) ==
    /\ cloudPods[p] # NoPod
    /\ PodChange(p, NoPod, [type |-> "Deleted", pod |-> p, spec |-> cloudPods[p]])

\* A configmap or secret event of type t on x is possible given the set of
\* the existing ones, and changes that set.
ObjectChange(t, x, existing) ==
    IF t = "Added" THEN x \notin existing ELSE x \in existing

ObjectAfter(t, x, existing) ==
    IF t = "Deleted" THEN existing \ {x} ELSE existing \cup {x}

ConfigMapChanged(t, c) ==
    /\ ObjectChange(t, c, cloudCMs)
    /\ cloudCMs' = ObjectAfter(t, c, cloudCMs)
    /\ Change(cmQ, [type |-> t, name |-> c])
    /\ UNCHANGED <<cloudNodes, cloudPods, cloudSecrets, nodeQ, podQ, secretQ>>

SecretChanged(t, s) ==
    /\ ObjectChange(t, s, cloudSecrets)
    /\ cloudSecrets' = ObjectAfter(t, s, cloudSecrets)
    /\ Change(secretQ, [type |-> t, name |-> s])
    /\ UNCHANGED <<cloudNodes, cloudPods, cloudCMs, nodeQ, podQ, cmQ>>

CloudChange ==
    /\ \/ \E n \in Nodes, s \in NodeState \ {"Absent"} :
              NodeAdded(n, s) \/ NodeModified(n, s)
       \/ \E n \in Nodes : NodeDeleted(n)
       \/ \E p \in Pods, spec \in PodSpec : PodAdded(p, spec)
       \/ \E p \in Pods : PodModified(p) \/ PodDeleted(p)
       \/ \E t \in EventType, c \in ConfigMaps : ConfigMapChanged(t, c)
       \/ \E t \in EventType, s \in Secrets : SecretChanged(t, s)
    /\ UNCHANGED <<cacheVars, loopVars, done, sent>>

-----------------------------------------------------------------------------
(* syncPod (downstream.go:68-108). *)

\* The select receives an event for a pod whose node is not an edge node
\* and drops it (lines 74-82).
SyncPodSkip ==
    /\ pc["pod"] = "recv" /\ podQ # <<>>
    /\ ~IsEdgeNode(Head(podQ).spec.node)
    /\ podQ' = Tail(podQ)
    /\ UNCHANGED <<cacheVars, cloudVars, cmQ, secretQ, nodeQ, loopVars, done, budget, sent>>

\* The select receives an event for a pod on an edge node (lines 74-82).
SyncPodReceive ==
    /\ pc["pod"] = "recv" /\ podQ # <<>>
    /\ IsEdgeNode(Head(podQ).spec.node)
    /\ podEv' = Head(podQ)
    /\ podQ' = Tail(podQ)
    /\ pc' = [pc EXCEPT !["pod"] = "send"]
    /\ UNCHANGED <<cacheVars, cloudVars, cmQ, secretQ, nodeQ, cmEv, cmSnap,
                   secretEv, secretSnap, done, budget, sent>>

\* Build the message, index the pod on Added and Modified (not on Deleted),
\* and send (lines 83-105).
SyncPodSend ==
    /\ pc["pod"] = "send"
    /\ IF podEv.type \in {"Added", "Modified"}
       THEN AddOrUpdatePod(podEv.pod, podEv.spec)
       ELSE UNCHANGED cacheVars
    /\ sent' = sent \cup {[kind |-> "pod", to |-> podEv.spec.node,
                           name |-> podEv.pod, op |-> EventOp[podEv.type]]}
    /\ pc' = [pc EXCEPT !["pod"] = "recv"]
    /\ podEv' = NoEvent
    /\ UNCHANGED <<cloudVars, queueVars, cmEv, cmSnap, secretEv, secretSnap, done, budget>>

-----------------------------------------------------------------------------
(* syncConfigMap (downstream.go:110-156) and syncSecret (158-205). *)

\* Receive an event and snapshot the nodes the configmap is sent to
\* (lines 116-136).
SyncConfigMapReceive ==
    /\ pc["configmap"] = "recv" /\ cmQ # <<>>
    /\ cmEv' = Head(cmQ)
    /\ cmSnap' = ConfigMapNodes(Head(cmQ).name)
    /\ cmQ' = Tail(cmQ)
    /\ pc' = [pc EXCEPT !["configmap"] = "send"]
    /\ UNCHANGED <<cacheVars, cloudVars, podQ, secretQ, nodeQ, podEv,
                   secretEv, secretSnap, done, budget, sent>>

\* On Deleted purge the index entry, then send to every node of the
\* snapshot (lines 137-153).
SyncConfigMapSend ==
    /\ pc["configmap"] = "send"
    /\ IF cmEv.type = "Deleted" THEN DeleteConfigMap(cmEv.name) ELSE UNCHANGED cacheVars
    /\ sent' = sent \cup {[kind |-> "configmap", to |-> n, name |-> cmEv.name,
                           op |-> EventOp[cmEv.type]] : n \in cmSnap}
    /\ pc' = [pc EXCEPT !["configmap"] = "recv"]
    /\ cmEv' = NoEvent /\ cmSnap' = {}
    /\ UNCHANGED <<cloudVars, queueVars, podEv, secretEv, secretSnap, done, budget>>

SyncSecretReceive ==
    /\ pc["secret"] = "recv" /\ secretQ # <<>>
    /\ secretEv' = Head(secretQ)
    /\ secretSnap' = SecretNodes(Head(secretQ).name)
    /\ secretQ' = Tail(secretQ)
    /\ pc' = [pc EXCEPT !["secret"] = "send"]
    /\ UNCHANGED <<cacheVars, cloudVars, podQ, cmQ, nodeQ, podEv,
                   cmEv, cmSnap, done, budget, sent>>

SyncSecretSend ==
    /\ pc["secret"] = "send"
    /\ IF secretEv.type = "Deleted" THEN DeleteSecret(secretEv.name) ELSE UNCHANGED cacheVars
    /\ sent' = sent \cup {[kind |-> "secret", to |-> n, name |-> secretEv.name,
                           op |-> SecretOp[secretEv.type]] : n \in secretSnap}
    /\ pc' = [pc EXCEPT !["secret"] = "recv"]
    /\ secretEv' = NoEvent /\ secretSnap' = {}
    /\ UNCHANGED <<cloudVars, queueVars, podEv, cmEv, cmSnap, done, budget>>

-----------------------------------------------------------------------------
(* syncEdgeNodes (downstream.go:207-252). *)

\* Variant of SyncEdgeNodeUpdate without the `fallthrough` of line 221:
\* an Added event is consumed and ignored.
SyncEdgeNodeUpdateNoFallthrough ==
    /\ pc["node"] = "recv" /\ nodeQ # <<>>
    /\ Head(nodeQ).type \in {"Added", "Modified"}
    /\ IF Head(nodeQ).status = "None" \/ Head(nodeQ).type = "Added"
       THEN UNCHANGED cacheVars
       ELSE UpdateEdgeNode(Head(nodeQ).name, Head(nodeQ).status)
    /\ nodeQ' = Tail(nodeQ)
    /\ UNCHANGED <<cloudVars, podQ, cmQ, secretQ, loopVars, done, budget, sent>>

\* Variant of SyncEdgeNodeUpdate that stores the status of whatever
\* condition it finds, without the `nsc.Type != v1.NodeReady` filter of
\* line 225: a node without a Ready condition is stored with "None".
SyncEdgeNodeUpdateAnyCondition ==
    /\ pc["node"] = "recv" /\ nodeQ # <<>>
    /\ Head(nodeQ).type \in {"Added", "Modified"}
    /\ UpdateEdgeNode(Head(nodeQ).name, Head(nodeQ).status)
    /\ nodeQ' = Tail(nodeQ)
    /\ UNCHANGED <<cloudVars, podQ, cmQ, secretQ, loopVars, done, budget, sent>>

\* Added and Modified store the Ready condition's status; a node without a
\* Ready condition leaves the cache as it is (lines 219-234).  No message.
SyncEdgeNodeUpdate ==
    /\ pc["node"] = "recv" /\ nodeQ # <<>>
    /\ Head(nodeQ).type \in {"Added", "Modified"}
    /\ IF Head(nodeQ).status = "None"
       THEN UNCHANGED cacheVars
       ELSE UpdateEdgeNode(Head(nodeQ).name, Head(nodeQ).status)
    /\ nodeQ' = Tail(nodeQ)
    /\ UNCHANGED <<cloudVars, podQ, cmQ, secretQ, loopVars, done, budget, sent>>

\* Deleted drops the node from the cache and sends the node a delete of
\* itself (lines 235-245).
SyncEdgeNodeDelete ==
    /\ pc["node"] = "recv" /\ nodeQ # <<>>
    /\ Head(nodeQ).type = "Deleted"
    /\ DeleteNode(Head(nodeQ).name)
    /\ sent' = sent \cup {[kind |-> "node", to |-> Head(nodeQ).name,
                           name |-> Head(nodeQ).name, op |-> "delete"]}
    /\ nodeQ' = Tail(nodeQ)
    /\ UNCHANGED <<cloudVars, podQ, cmQ, secretQ, loopVars, done, budget>>

-----------------------------------------------------------------------------
(* Shutdown. *)

\* beehiveContext.Done() fires.
Cancel ==
    /\ ~done
    /\ done' = TRUE
    /\ UNCHANGED <<cacheVars, cloudVars, queueVars, loopVars, budget, sent>>

\* Variant of Stop for a syncPod whose select has no Done case.
StopWithoutPodDone(l) ==
    /\ l # "pod"
    /\ pc[l] = "recv" /\ done
    /\ pc' = [pc EXCEPT ![l] = "stopped"]
    /\ UNCHANGED <<cacheVars, cloudVars, queueVars, podEv, cmEv, cmSnap,
                   secretEv, secretSnap, done, budget, sent>>

\* The select of loop l takes the Done case and returns (e.g. lines 71-73).
Stop(l) ==
    /\ pc[l] = "recv" /\ done
    /\ pc' = [pc EXCEPT ![l] = "stopped"]
    /\ UNCHANGED <<cacheVars, cloudVars, queueVars, podEv, cmEv, cmSnap,
                   secretEv, secretSnap, done, budget, sent>>

SyncPod == SyncPodSkip \/ SyncPodReceive \/ SyncPodSend
SyncConfigMap == SyncConfigMapReceive \/ SyncConfigMapSend
SyncSecret == SyncSecretReceive \/ SyncSecretSend
SyncEdgeNodes == SyncEdgeNodeUpdate \/ SyncEdgeNodeDelete

Next ==
    \/ CloudChange
    \/ SyncPod \/ SyncConfigMap \/ SyncSecret \/ SyncEdgeNodes
    \/ Cancel
    \/ \E l \in Loops : Stop(l)

(***************************************************************************)
(* Every loop is a goroutine the Go scheduler keeps running, so each is    *)
(* weakly fair.  Go's select picks uniformly among ready cases, so a loop  *)
(* that is in its select infinitely often while Done has fired takes the   *)
(* Done case: Stop is strongly fair.  The API server and Cancel are not    *)
(* fair: nothing forces a cloud change or a shutdown.                      *)
(***************************************************************************)
Fairness ==
    /\ WF_vars(SyncPod) /\ WF_vars(SyncConfigMap)
    /\ WF_vars(SyncSecret) /\ WF_vars(SyncEdgeNodes)
    /\ \A l \in Loops : SF_vars(Stop(l))

Spec == Init /\ [][Next]_vars /\ Fairness

-----------------------------------------------------------------------------
(* Properties. *)

\* Every event the informers delivered has been handled and no loop is in
\* the middle of a handler.
Quiescent ==
    /\ podQ = <<>> /\ cmQ = <<>> /\ secretQ = <<>> /\ nodeQ = <<>>
    /\ \A l \in Loops : pc[l] = "recv"

EdgeNodeSet == {n \in Nodes : IsEdgeNode(n)}

\* The nodes the API server has pods on whose field ("cms" or "secs")
\* names x.
CloudReferringNodes(field, x) ==
    { cloudPods[p].node : p \in { p \in Pods : cloudPods[p] # NoPod /\ x \in cloudPods[p][field] } }

(* EdgeNodeStatusTracksCloud: once syncEdgeNodes has drained its channel,  *)
(* EdgeNodes holds the Ready status the API server has for every node that *)
(* reports one, and no deleted node; whatever initLocating primed and      *)
(* whatever order of Added, Modified and Deleted events came since.        *)
EdgeNodeStatusTracksCloud ==
    nodeQ = <<>> =>
        \A n \in Nodes :
            /\ cloudNodes[n] \in {"True", "False"} => edgeNodes[n] = cloudNodes[n]
            /\ cloudNodes[n] = "Absent" => edgeNodes[n] = NotEdge

(* CacheNodesAreEdge (spec.md section 3, invariant 1, and section 8: after *)
(* Deleted(N), N is in no ConfigMapNodes / SecretNodes set): every node an *)
(* index names is in EdgeNodes.                                            *)
CacheNodesAreEdge ==
    /\ \A c \in ConfigMaps : cmNodes[c] \subseteq EdgeNodeSet
    /\ \A s \in Secrets : secretNodes[s] \subseteq EdgeNodeSet

(* UnreferencedHasNoEntry (spec.md section 3, invariant 2): once every     *)
(* event is handled, a configmap or secret no pod in the API server        *)
(* references has no index entry.                                          *)
UnreferencedHasNoEntry ==
    Quiescent =>
        /\ \A c \in ConfigMaps : cmNodes[c] \subseteq CloudReferringNodes("cms", c)
        /\ \A s \in Secrets : secretNodes[s] \subseteq CloudReferringNodes("secs", s)

(* IndexCoversEdgePods (spec.md section 3: ConfigMapNodes records which    *)
(* edge nodes currently reference the configmap): once every event is      *)
(* handled, each edge node running a pod that references an existing       *)
(* configmap or secret is in its index, so syncConfigMap / syncSecret send *)
(* it the object's updates.                                                *)
IndexCoversEdgePods ==
    Quiescent =>
        \A p \in Pods :
            cloudPods[p] # NoPod /\ IsEdgeNode(cloudPods[p].node) =>
                /\ \A c \in cloudPods[p].cms \cap cloudCMs :
                       cloudPods[p].node \in cmNodes[c]
                /\ \A s \in cloudPods[p].secs \cap cloudSecrets :
                       cloudPods[p].node \in secretNodes[s]

(* InitLocatingStatus (spec.md section 4.3: initLocating records each      *)
(* node and its Ready status): a node that reports no Ready condition is   *)
(* not primed with a Ready status.                                         *)
InitLocatingStatus ==
    \A n \in Nodes : cloudNodes[n] = "None" => edgeNodes[n] \in {"", NotEdge}

(* ShutdownStopsLoops: once beehiveContext is done, every sync loop        *)
(* eventually returns, whatever events are still queued.                   *)
ShutdownStopsLoops ==
    done ~> \A l \in Loops : pc[l] = "stopped"

=============================================================================
