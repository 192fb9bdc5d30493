--------------------------- MODULE ConfigMapResync ---------------------------
(***************************************************************************)
(* syncConfigMap (downstream.go:110-156) with a message layer whose Send   *)
(* may fail (SendMessage, 616-622) and informers that resync, beside the   *)
(* indexing half of syncPod (lines 90-99): a pod on an edge node is        *)
(* re-indexed with a new spec, and AddOrUpdatePod updates ConfigMapNodes   *)
(* by its diff.  What changes besides is the configmap's content,          *)
(* abstracted to a version, and what each edge node holds of it.  A       *)
(* resync delivers Modified with the current version and syncConfigMap     *)
(* sends it as an update to every node of the index again.  All nodes     *)
(* stay edge nodes and no pod or configmap is deleted here: the races of   *)
(* those are in Downstream.                                                *)
(***************************************************************************)
EXTENDS LocationCache, Naturals, Sequences, SequencesExt

CONSTANTS
    MaxVersion,   \* content changes of each configmap in a run
    MaxLosses,    \* how many times MessageLayer.Send may return an error
    MaxPodChanges,\* pod Modified events handled by syncPod in a run
    MaxRestarts   \* controller restarts in a run

ASSUME MaxVersion \in Nat /\ MaxLosses \in Nat /\ MaxPodChanges \in Nat
ASSUME MaxRestarts \in Nat

VARIABLES
    cloudVer,     \* configmap -> the version in the API server
    cmQ,          \* the configmap manager's Events() channel
    pc,           \* syncConfigMap: "recv" or "send"
    cmEv,         \* the event being handled
    cmSnap,       \* the ConfigMapNodes snapshot taken for it
    transport,    \* messages the message layer accepted, in order
    held,         \* node -> configmap -> version the edge node holds
    losses,       \* failed sends so far
    podChanges,   \* pod changes handled so far
    restarts      \* controller restarts so far

vars == <<cacheVars, cloudVer, cmQ, pc, cmEv, cmSnap, transport, held, losses, podChanges,
          restarts>>

Version == 0..MaxVersion
EventType == {"Added", "Modified", "Deleted"}
CMEvent == [type : EventType, name : ConfigMaps, ver : Version]
NoEvent == [type |-> "None"]
Msg == [to : Nodes, name : ConfigMaps, op : {"insert", "update", "delete"}, ver : Version]

TypeOK ==
    /\ CacheTypeOK
    /\ cloudVer \in [ConfigMaps -> Version]
    /\ cmQ \in Seq(CMEvent)
    /\ pc \in {"recv", "send"}
    /\ cmEv \in CMEvent \cup {NoEvent}
    /\ cmSnap \subseteq Nodes
    /\ transport \in Seq(Msg)
    /\ held \in [Nodes -> [ConfigMaps -> Version]]
    /\ losses \in 0..MaxLosses
    /\ podChanges \in 0..MaxPodChanges
    /\ restarts \in 0..MaxRestarts

\* The specs syncPod indexes: pods bound to an edge node (it checks
\* IsEdgeNode first, line 80).
BoundSpec == {spec \in PodSpec : spec.node \in Nodes}

\* What the informer delivers when it starts: an Added per configmap, with
\* its current version, in any order.
Listed(ver) ==
    {[i \in DOMAIN order |-> [type |-> "Added", name |-> order[i], ver |-> ver[order[i]]]] :
        order \in SetToSeqs(ConfigMaps)}

\* initLocating indexes every pod on an edge node (lines 497-503); the
\* configmap and secret sets are then those of the indexed pods.
Located(pods) ==
    /\ edgeNodes' = [n \in Nodes |-> "True"]
    /\ podIndex' = pods
    /\ cmNodes' = [c \in ConfigMaps |-> ReferringNodes(pods, "cms", c)]
    /\ secretNodes' = [s \in Secrets |-> ReferringNodes(pods, "secs", s)]

\* initLocating has indexed the pods, each bound to an edge node; the edge
\* nodes hold the current version; the informer delivers an Added per
\* configmap when it starts.
Init ==
    /\ edgeNodes = [n \in Nodes |-> "True"]
    /\ podIndex \in [Pods -> BoundSpec]
    /\ cmNodes = [c \in ConfigMaps |-> ReferringNodes(podIndex, "cms", c)]
    /\ secretNodes = [s \in Secrets |-> ReferringNodes(podIndex, "secs", s)]
    /\ cloudVer = [c \in ConfigMaps |-> 0]
    /\ cmQ \in Listed(cloudVer)
    /\ pc = "recv" /\ cmEv = NoEvent /\ cmSnap = {}
    /\ transport = <<>>
    /\ held = [n \in Nodes |-> [c \in ConfigMaps |-> 0]]
    /\ losses = 0
    /\ podChanges = 0
    /\ restarts = 0

-----------------------------------------------------------------------------
(* The API server, the informer and the edge. *)

ConfigMapModified(c) ==
    /\ cloudVer[c] < MaxVersion
    /\ cloudVer' = [cloudVer EXCEPT ![c] = @ + 1]
    /\ cmQ' = Append(cmQ, [type |-> "Modified", name |-> c, ver |-> cloudVer[c] + 1])
    /\ UNCHANGED <<cacheVars, pc, cmEv, cmSnap, transport, held, losses, podChanges, restarts>>

\* A periodic resync re-delivers the configmap as Modified.  The resync
\* period is long beside the delivery of messages: the timer fires when
\* the channel is empty and the previous messages have been delivered.
ResyncConfigMap(c) ==
    /\ cmQ = <<>> /\ transport = <<>>
    /\ cmQ' = <<[type |-> "Modified", name |-> c, ver |-> cloudVer[c]]>>
    /\ UNCHANGED <<cacheVars, cloudVer, pc, cmEv, cmSnap, transport, held, losses, podChanges, restarts>>

\* An edge node applies the oldest message of the message layer.
Deliver ==
    /\ transport # <<>>
    /\ LET m == Head(transport)
       IN  held' = [held EXCEPT ![m.to][m.name] = m.ver]
    /\ transport' = Tail(transport)
    /\ UNCHANGED <<cacheVars, cloudVer, cmQ, pc, cmEv, cmSnap, losses, podChanges, restarts>>

\* The controller process restarts: the channel, the loop's current event
\* and the message layer's buffer are in memory and are lost.
\* NewDownstreamController builds an empty cache and runs initLocating
\* (lines 608-613), which indexes the pods the API server has; Start
\* launches the loop and the informer lists the configmaps again.
Restart ==
    /\ restarts < MaxRestarts
    /\ Located(podIndex)
    /\ cmQ' \in Listed(cloudVer)
    /\ pc' = "recv" /\ cmEv' = NoEvent /\ cmSnap' = {}
    /\ transport' = <<>>
    /\ restarts' = restarts + 1
    /\ UNCHANGED <<cloudVer, held, losses, podChanges>>

-----------------------------------------------------------------------------
(* syncPod, its indexing half: a Modified pod on an edge node is indexed   *)
(* with its new spec (lines 90-99).  The pod message itself carries no     *)
(* configmap content and is left out.                                      *)

SyncPodModified(p, spec) ==
    /\ podChanges < MaxPodChanges
    /\ AddOrUpdatePod(p, spec)
    /\ podChanges' = podChanges + 1
    /\ UNCHANGED <<cloudVer, cmQ, pc, cmEv, cmSnap, transport, held, losses, restarts>>

-----------------------------------------------------------------------------
(* syncConfigMap. *)

\* Variant of ConfigMapOp with no Modified case: Modified falls to the
\* default branch and is skipped, as in syncRule.
ConfigMapOpNoModified == [Added |-> "insert", Deleted |-> "delete"]

\* The operation of each event type (lines 122-134); others are skipped.
ConfigMapOp == [Added |-> "insert", Modified |-> "update", Deleted |-> "delete"]

\* Receive an event; skip an unsupported type, or snapshot the nodes the
\* configmap goes to (lines 116-136).
SyncConfigMapReceive ==
    /\ pc = "recv" /\ cmQ # <<>>
    /\ cmQ' = Tail(cmQ)
    /\ IF Head(cmQ).type \in DOMAIN ConfigMapOp
       THEN /\ cmEv' = Head(cmQ)
            /\ cmSnap' = ConfigMapNodes(Head(cmQ).name)
            /\ pc' = "send"
       ELSE UNCHANGED <<pc, cmEv, cmSnap>>
    /\ UNCHANGED <<cacheVars, cloudVer, transport, held, losses, podChanges, restarts>>

\* Purge the entry on Deleted, then send to each node of the snapshot; each
\* Send may fail, and a failure is only logged (lines 137-153, 616-622).
SyncConfigMapSend ==
    /\ pc = "send"
    /\ IF cmEv.type = "Deleted" THEN DeleteConfigMap(cmEv.name) ELSE UNCHANGED cacheVars
    /\ \E failed \in SUBSET cmSnap, order \in SetToSeqs(cmSnap) :
          /\ losses + Cardinality(failed) <= MaxLosses
          /\ losses' = losses + Cardinality(failed)
          /\ transport' = transport \o
                [i \in DOMAIN SelectSeq(order, LAMBDA n : n \notin failed) |->
                   [to |-> SelectSeq(order, LAMBDA n : n \notin failed)[i],
                    name |-> cmEv.name, op |-> ConfigMapOp[cmEv.type], ver |-> cmEv.ver]]
    /\ pc' = "recv" /\ cmEv' = NoEvent /\ cmSnap' = {}
    /\ UNCHANGED <<cloudVer, cmQ, held, podChanges, restarts>>

SyncConfigMap == SyncConfigMapReceive \/ SyncConfigMapSend

Next ==
    \/ \E c \in ConfigMaps : ConfigMapModified(c) \/ ResyncConfigMap(c)
    \/ Deliver
    \/ Restart
    \/ \E p \in Pods, spec \in BoundSpec : SyncPodModified(p, spec)
    \/ SyncConfigMap

(* The loop and the message layer are weakly fair; the resync timer is     *)
(* strongly fair, since it is only enabled while the channel is empty.     *)
Fairness ==
    /\ WF_vars(SyncConfigMap) /\ WF_vars(Deliver)
    /\ \A c \in ConfigMaps : SF_vars(ResyncConfigMap(c))

Spec == Init /\ [][Next]_vars /\ Fairness

-----------------------------------------------------------------------------

(* UpdatesReachEdge (spec.md section 4.4: Send errors are swallowed        *)
(* because resync will replay missed events): even when Sends fail, every  *)
(* node running a pod that names a configmap, including a pod moved there  *)
(* after the configmap was sent, ends up holding its latest content,       *)
(* because each resync fans it out to ConfigMapNodes again.                *)
UpdatesReachEdge ==
    <>[](\A c \in ConfigMaps : \A n \in ReferringNodes(podIndex, "cms", c) :
            held[n][c] = cloudVer[c])

=============================================================================
