---------------------------- MODULE MissionSync ----------------------------
(***************************************************************************)
(* The mission side of DownstreamController (downstream.go): syncMissions  *)
(* fans every mission event out to the clusters of LocationCache's         *)
(* EdgeClusters map, and syncEdgeClusters reconciles a cluster whose       *)
(* reported ReceivedMissions differ from the missions the lister holds by  *)
(* sending it the full mission list.  initLocating fills EdgeClusters.     *)
(*                                                                         *)
(* The edge clusters are part of the environment: each applies the         *)
(* messages it is sent to its set of missions, and reports that set back   *)
(* in its EdgeCluster status, which the informer delivers as Modified.     *)
(* The message layer hands messages over in the order they are sent.       *)
(***************************************************************************)
EXTENDS Naturals, Sequences, SequencesExt

CONSTANTS
    Clusters,      \* edge cluster names
    Missions,      \* mission names
    MaxEvents,     \* how many mission and cluster changes the API server makes
    PeriodicReports \* clusters update their status even when it is unchanged

ASSUME MaxEvents \in Nat /\ PeriodicReports \in BOOLEAN

VARIABLES
    cloudMissions,  \* missions in the API server (and in the mission lister)
    cloudClusters,  \* EdgeCluster objects in the API server
    edgeClusters,   \* LocationCache.EdgeClusters: names stored with value true
    missionQ,       \* the mission manager's Events() channel
    clusterQ,       \* the edge-cluster manager's Events() channel
    pc,             \* loop -> "recv" or "send"
    missionEv,      \* syncMissions' current event
    pending,        \* clusters the current EdgeClusters.Range has not visited
    clusterEv,      \* syncEdgeClusters' current event
    listed,         \* the mission list syncEdgeClusters read from the lister
    held,           \* cluster -> the missions the cluster holds
    reported,       \* cluster -> ReceivedMissions in its last reported status
    budget          \* API server changes still to come

vars == <<cloudMissions, cloudClusters, edgeClusters, missionQ, clusterQ, pc,
          missionEv, pending, clusterEv, listed, held, reported, budget>>

Loops == {"mission", "cluster"}
EventType == {"Added", "Modified", "Deleted"}
NoEvent == [type |-> "None"]

MissionEvent == [type : EventType, name : Missions]
ClusterEvent == [type : EventType, name : Clusters, received : SUBSET Missions]

\* Operation of a mission event (downstream.go:350-361).
MissionOp == [Added |-> "insert", Modified |-> "update", Deleted |-> "delete"]

TypeOK ==
    /\ cloudMissions \subseteq Missions
    /\ cloudClusters \subseteq Clusters
    /\ edgeClusters \subseteq Clusters
    /\ missionQ \in Seq(MissionEvent) /\ clusterQ \in Seq(ClusterEvent)
    /\ pc \in [Loops -> {"recv", "send"}]
    /\ missionEv \in MissionEvent \cup {NoEvent}
    /\ pending \subseteq Clusters
    /\ clusterEv \in ClusterEvent \cup {NoEvent}
    /\ listed \subseteq Missions
    /\ held \in [Clusters -> SUBSET Missions]
    /\ reported \in [Clusters -> SUBSET Missions]
    /\ budget \in 0..MaxEvents

\* NewDownstreamController: initLocating stores every listed edge cluster
\* with value true (downstream.go:503-511).  The informers start after it
\* and deliver an Added event for every object they list.  A cluster
\* holds, and has reported, any set of missions when the controller starts.
Init ==
    /\ cloudMissions \in SUBSET Missions
    /\ cloudClusters \in SUBSET Clusters
    /\ edgeClusters = cloudClusters
    /\ held \in [Clusters -> SUBSET Missions]
    /\ reported = held
    /\ \E order \in SetToSeqs(cloudMissions) :
           missionQ = [i \in DOMAIN order |-> [type |-> "Added", name |-> order[i]]]
    /\ \E order \in SetToSeqs(cloudClusters) :
           clusterQ = [i \in DOMAIN order |->
                         [type |-> "Added", name |-> order[i], received |-> held[order[i]]]]
    /\ pc = [l \in Loops |-> "recv"]
    /\ missionEv = NoEvent /\ pending = {}
    /\ clusterEv = NoEvent /\ listed = {}
    /\ budget = MaxEvents

-----------------------------------------------------------------------------
(* An edge cluster applies a message (the edge side, not in this repository). *)

ApplyMission(have, op, m) == IF op = "delete" THEN have \ {m} ELSE have \cup {m}

-----------------------------------------------------------------------------
(* The API server, the informers and the edge clusters' status reports.    *)

MissionChanged(t, m) ==
    /\ budget > 0
    /\ IF t = "Added" THEN m \notin cloudMissions ELSE m \in cloudMissions
    /\ cloudMissions' = IF t = "Deleted" THEN cloudMissions \ {m}
                        ELSE cloudMissions \cup {m}
    /\ missionQ' = Append(missionQ, [type |-> t, name |-> m])
    /\ budget' = budget - 1
    /\ UNCHANGED <<cloudClusters, edgeClusters, clusterQ, pc, missionEv, pending,
                   clusterEv, listed, held, reported>>

\* An EdgeCluster object is created, for a cluster reporting what it holds.
ClusterAdded(c) ==
    /\ budget > 0
    /\ c \notin cloudClusters
    /\ cloudClusters' = cloudClusters \cup {c}
    /\ reported' = [reported EXCEPT ![c] = held[c]]
    /\ clusterQ' = Append(clusterQ, [type |-> "Added", name |-> c, received |-> held[c]])
    /\ budget' = budget - 1
    /\ UNCHANGED <<cloudMissions, edgeClusters, missionQ, pc, missionEv, pending,
                   clusterEv, listed, held>>

ClusterDeleted(c) ==
    /\ budget > 0
    /\ c \in cloudClusters
    /\ cloudClusters' = cloudClusters \ {c}
    /\ clusterQ' = Append(clusterQ, [type |-> "Deleted", name |-> c, received |-> reported[c]])
    /\ budget' = budget - 1
    /\ UNCHANGED <<cloudMissions, edgeClusters, missionQ, pc, missionEv, pending,
                   clusterEv, listed, held, reported>>

\* A cluster updates its status when its missions changed since its last
\* report, or, with PeriodicReports, at every heartbeat.
ReportDue(c) ==
    /\ c \in cloudClusters
    /\ PeriodicReports \/ held[c] # reported[c]

\* The informer delivers the status update as Modified with the current
\* ReceivedMissions.  Reports are not counted in the budget; at most one
\* waits in the channel.
ClusterReport(c) ==
    /\ ReportDue(c)
    /\ clusterQ = <<>>
    /\ reported' = [reported EXCEPT ![c] = held[c]]
    /\ clusterQ' = <<[type |-> "Modified", name |-> c, received |-> held[c]]>>
    /\ UNCHANGED <<cloudMissions, cloudClusters, edgeClusters, missionQ, pc,
                   missionEv, pending, clusterEv, listed, held, budget>>

-----------------------------------------------------------------------------
(* syncMissions (downstream.go:335-385). *)

\* Receive a mission event, map its type to an operation and start
\* EdgeClusters.Range (lines 342-364).
SyncMissionReceive ==
    /\ pc["mission"] = "recv" /\ missionQ # <<>>
    /\ missionEv' = Head(missionQ)
    /\ missionQ' = Tail(missionQ)
    /\ pending' = edgeClusters
    /\ pc' = [pc EXCEPT !["mission"] = IF edgeClusters = {} THEN "recv" ELSE "send"]
    /\ UNCHANGED <<cloudMissions, cloudClusters, edgeClusters, clusterQ,
                   clusterEv, listed, held, reported, budget>>

\* The Range callback sends the mission to one cluster (lines 365-381).
\* sync.Map.Range may still visit a key deleted since the Range began.
SyncMissionVisit ==
    /\ pc["mission"] = "send"
    /\ \E c \in pending :
          /\ held' = [held EXCEPT ![c] = ApplyMission(@, MissionOp[missionEv.type], missionEv.name)]
          /\ pending' = pending \ {c}
    /\ pc' = [pc EXCEPT !["mission"] = IF pending' = {} THEN "recv" ELSE "send"]
    /\ UNCHANGED <<cloudMissions, cloudClusters, edgeClusters, missionQ, clusterQ,
                   missionEv, clusterEv, listed, reported, budget>>

\* Range does not visit a key deleted since it began.
SyncMissionSkipDeleted ==
    /\ pc["mission"] = "send"
    /\ \E c \in pending \ edgeClusters : pending' = pending \ {c}
    /\ pc' = [pc EXCEPT !["mission"] = IF pending' = {} THEN "recv" ELSE "send"]
    /\ UNCHANGED <<cloudMissions, cloudClusters, edgeClusters, missionQ, clusterQ,
                   missionEv, clusterEv, listed, held, reported, budget>>

-----------------------------------------------------------------------------
(* syncEdgeClusters (downstream.go:387-442). *)

\* Variant of InSync that treats a cluster holding every listed mission as
\* in sync, even if it also holds deleted ones.
InSyncCoversList(received, list) == list \subseteq received

\* The set of ReceivedMissions equals the set of listed missions
\* (reflect.DeepEqual of the two map[string]bool, line 421).
InSync(received, list) == received = list

\* Added / Modified of a cluster whose missions match the lister: nothing
\* is sent (lines 402-423).
SyncEdgeClusterInSync ==
    /\ pc["cluster"] = "recv" /\ clusterQ # <<>>
    /\ Head(clusterQ).type \in {"Added", "Modified"}
    /\ InSync(Head(clusterQ).received, cloudMissions)
    /\ clusterQ' = Tail(clusterQ)
    /\ UNCHANGED <<cloudMissions, cloudClusters, edgeClusters, missionQ, pc,
                   missionEv, pending, clusterEv, listed, held, reported, budget>>

\* Added / Modified of a cluster whose missions differ: list the missions
\* and build the mission-list message (lines 402-427).
SyncEdgeClusterReceive ==
    /\ pc["cluster"] = "recv" /\ clusterQ # <<>>
    /\ Head(clusterQ).type \in {"Added", "Modified"}
    /\ ~InSync(Head(clusterQ).received, cloudMissions)
    /\ clusterEv' = Head(clusterQ)
    /\ listed' = cloudMissions
    /\ clusterQ' = Tail(clusterQ)
    /\ pc' = [pc EXCEPT !["cluster"] = "send"]
    /\ UNCHANGED <<cloudMissions, cloudClusters, edgeClusters, missionQ,
                   missionEv, pending, held, reported, budget>>

\* Send the update of the whole mission list to the cluster (line 430).
SyncEdgeClusterSend ==
    /\ pc["cluster"] = "send"
    /\ held' = [held EXCEPT ![clusterEv.name] = listed]
    /\ pc' = [pc EXCEPT !["cluster"] = "recv"]
    /\ clusterEv' = NoEvent /\ listed' = {}
    /\ UNCHANGED <<cloudMissions, cloudClusters, edgeClusters, missionQ, clusterQ,
                   missionEv, pending, reported, budget>>

\* Deleted removes the cluster from EdgeClusters; nothing is sent
\* (lines 432-433).
SyncEdgeClusterDelete ==
    /\ pc["cluster"] = "recv" /\ clusterQ # <<>>
    /\ Head(clusterQ).type = "Deleted"
    /\ edgeClusters' = edgeClusters \ {Head(clusterQ).name}
    /\ clusterQ' = Tail(clusterQ)
    /\ UNCHANGED <<cloudMissions, cloudClusters, missionQ, pc, missionEv, pending,
                   clusterEv, listed, held, reported, budget>>

-----------------------------------------------------------------------------

Environment ==
    \/ \E t \in EventType, m \in Missions : MissionChanged(t, m)
    \/ \E c \in Clusters : ClusterAdded(c) \/ ClusterDeleted(c)

SyncMissions == SyncMissionReceive \/ SyncMissionVisit \/ SyncMissionSkipDeleted
SyncEdgeClusters ==
    \/ SyncEdgeClusterInSync \/ SyncEdgeClusterReceive
    \/ SyncEdgeClusterSend \/ SyncEdgeClusterDelete

\* Nothing is left to do: every event is handled and no cluster is due to
\* report.
Idle ==
    /\ budget = 0 /\ missionQ = <<>> /\ clusterQ = <<>>
    /\ \A l \in Loops : pc[l] = "recv"
    /\ \A c \in Clusters : ~ReportDue(c)
    /\ UNCHANGED vars

Next ==
    \/ Environment
    \/ \E c \in Clusters : ClusterReport(c)
    \/ SyncMissions \/ SyncEdgeClusters
    \/ Idle

(***************************************************************************)
(* The two loops are goroutines and weakly fair.  An edge cluster that is  *)
(* due to update its status keeps trying until the update lands (it is    *)
(* only disabled while another update waits in the channel): strong       *)
(* fairness per cluster.                                                   *)
(***************************************************************************)
Fairness ==
    /\ WF_vars(SyncMissions) /\ WF_vars(SyncEdgeClusters)
    /\ \A c \in Clusters : SF_vars(ClusterReport(c))

Spec == Init /\ [][Next]_vars /\ Fairness

-----------------------------------------------------------------------------
(* Properties. *)

Quiescent ==
    /\ missionQ = <<>> /\ clusterQ = <<>>
    /\ \A l \in Loops : pc[l] = "recv"

\* Every cluster in the API server holds exactly the missions that exist.
Converged == \A c \in cloudClusters : held[c] = cloudMissions

(* EventuallyConverged: once the API server stops changing, every edge     *)
(* cluster ends up holding exactly the existing missions and keeps them:   *)
(* the per-mission fan-out of syncMissions and the mission-list            *)
(* reconcile of syncEdgeClusters, racing each other, repair whatever a     *)
(* cluster held at start, missed while not in EdgeClusters, or received    *)
(* from a mission list read before a later mission event.                  *)
EventuallyConverged == <>[]Converged

=============================================================================
