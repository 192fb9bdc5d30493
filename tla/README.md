# TLA+ models of the edge controller's downstream controller

This project models `DownstreamController` in
`src/cloud/pkg/edgecontroller/controller/downstream.go`, the cloud side that
turns Kubernetes API-server changes into messages for edge nodes and edge
clusters.

## The system

- **Informers and managers.** Each resource kind (pod, configmap, secret,
  node, rule, rule endpoint, mission, edge cluster) has a manager. Its
  `Events()` channel delivers `Added`, `Modified` and `Deleted` in API-server
  order for that kind. Different kinds are not ordered with respect to each
  other. When the informers start, they emit `Added` for every existing
  object.
- **LocationCache** (in `manager`, not in this repository; its contract is in
  spec.md §4.1) has these indices:
  - `EdgeNodes`: node → Ready status;
  - `ConfigMapNodes` / `SecretNodes`: object → nodes whose pods reference it;
  - `PodIndex`;
  - `EdgeClusters`.
- **initLocating** (lines 475-514) runs before the loops. It lists the edge
  nodes, the pods and the edge clusters and primes the cache.
- **Eight sync loops** (`Start`, lines 445-472), one goroutine each. Each
  loop selects on `beehiveContext.Done()` and on its own channel:
  - `syncPod` checks `IsEdgeNode`, indexes the pod and sends it;
  - `syncConfigMap` and `syncSecret` snapshot the object's node set, purge
    the set on delete, and send to every node in the snapshot;
  - `syncEdgeNodes` keeps `EdgeNodes`;
  - `syncMissions` fans a mission out to every entry of `EdgeClusters`;
  - `syncEdgeClusters` compares a cluster's `ReceivedMissions` with the
    mission lister and sends the whole list when they differ;
  - `syncRule` and `syncRuleEndpoint` send Added as insert and Deleted as
    delete, skip Modified, and use no cache.
- **SendMessage** (lines 616-622) hands a message to the message layer. A
  failure is only logged.

The loops interact only through the LocationCache and through the order in
which the informers deliver events.

## Modules

| Module | Models | State ↔ code |
|---|---|---|
| `LocationCache` | The cache, from spec.md §4.1 (spec-modelled) | `edgeNodes`, `cmNodes`, `secretNodes` and `podIndex` are the four indices. A pod is abstracted to its node plus the configmaps and secrets it names. Each operation is one atomic action, because each index has its own lock. |
| `Downstream` | initLocating and the syncPod, syncConfigMap, syncSecret and syncEdgeNodes loops, with shutdown | `cloud*` is the API server. `podQ`/`cmQ`/`secretQ`/`nodeQ` are the `Events()` channels. `pc` is each loop's position, and `podEv`/`cmEv`/`cmSnap`/... hold the values a loop carries between its two steps. `sent` records the messages sent. `done` is `beehiveContext.Done()`. |
| `MissionSync` | initLocating's edge-cluster part, syncMissions and syncEdgeClusters | `edgeClusters` is `lc.EdgeClusters`. `held[c]` is what cluster c holds and `reported[c]` is the last `ReceivedMissions` it reported. `pending` is what the Range has still to visit. `listed` is the lister result. |
| `RouterObjects` | The best-effort delivery contract of spec.md §1, §4.4 and §9, for rules and rule endpoints (abstract) | `backlog[k]` holds the insert/delete operations the cloud issued and the edge has not applied. The edge applies them in order (`Apply`). Any of them may be lost (`Lose`). A restart replaces them with one insert per existing object (`Restart`). |
| `RouterSync` | syncRule, syncRuleEndpoint, SendMessage with a failing Send, informer resync, and controller restart | `queue[k]` is the manager's channel. `transport` is what the message layer accepted. `edge[k]` is what the edge holds. `SyncObject(k)` is one loop iteration: `RouterOp` maps Added to insert and Deleted to delete, and Modified is skipped. `SendMessage` appends to `transport` or, up to `MaxLosses` times, fails and is only logged. `Restart` empties the channels and the buffer, and the informers relist. |
| `ConfigMapResync` | syncConfigMap (lines 110-156) with a failing `SendMessage`, a resyncing informer and a controller restart, beside syncPod's re-indexing of a Modified pod (lines 80-99) | `cloudVer[c]` is the configmap's content as a version. `cmQ` is the channel; `pc`/`cmEv`/`cmSnap` are the loop between `ConfigMapNodes` and the send loop. `transport` is what the message layer accepted; `held[n][c]` is the version node n holds. `SyncPodModified` re-indexes a pod with any spec bound to an edge node, at most `MaxPodChanges` times. `Restart` loses the channel, the current event and the message layer's buffer, then rebuilds the cache by initLocating (`Located`, lines 497-503, called at 608-613) and relists the configmaps as Added. |
| `MCDownstream`, `MCMissionSync`, `MCRouterSync` | Model values and symmetry for TLC | |

A loop step runs from one cache call to the next. A handler that reads the
cache and writes it later is split into a receive action and a send action:
- syncPod: `IsEdgeNode` (line 80), then `AddOrUpdatePod` (line 94);
- syncConfigMap: `ConfigMapNodes` (line 136), then `DeleteConfigMap` (line 138).

Other loops may run between the two steps. The mission fan-out sends to one
cluster per step, because `sync.Map.Range` does not block deletions.

initLocating is a recursive fold (`PrimeEdgeNodes`). It keeps the code's
`status` variable declared outside the node loop. Every order of the node
list is explored.

## Runs

| Run | Cfg | Expect | Shows |
|---|---|---|---|
| downstream_safety | MCDownstream.cfg | pass | `EdgeNodeStatusTracksCloud`: once the node channel is drained, EdgeNodes equals the API server. |
| downstream_shutdown | MCDownstreamShutdown.cfg | pass | `ShutdownStopsLoops`: each loop returns after Done, even with events queued. |
| node_delete_race | MCDownstreamNodeDelete.cfg | violation | `CacheNodesAreEdge` fails: a node deleted between `IsEdgeNode` and `AddOrUpdatePod` is re-added to ConfigMapNodes. |
| pod_delete_stale | MCDownstreamPodDelete.cfg | violation | `UnreferencedHasNoEntry` fails: pod deletes are never removed from the index. |
| node_after_pod | MCDownstreamNodeOrder.cfg | violation | `IndexCoversEdgePods` fails: a pod handled before its node's Added is dropped and never indexed. The same property also catches two other causes (hazards at lines 236 and 138). A node that is deleted and added again does not get its pods re-indexed. A configmap deleted and re-created under the same name reaches no node. With initial pods and nodes and two changes, TLC finds the node case. |
| init_stale_status | MCDownstreamInitStatus.cfg | violation | `InitLocatingStatus` fails: a node without a Ready condition inherits the previous node's status. |
| mission_convergence | MCMissionSync.cfg | pass | `EventuallyConverged` (TypeOK is not checked here: no plausible mutant of the loops breaks it): with periodic status reports, each registered cluster ends up holding exactly the cloud's missions, despite stale lists and the Range/delete race. |
| router_refinement | MCRouterSync.cfg | pass | `RouterRefinement`: RouterSync implements `RouterObjects!Spec` under the mapping `backlog[k] = InFlight(k)`. `InFlight(k)` is the kind-k messages in the message layer followed by the operations of the Added/Deleted events still queued. Per-kind order is kept. Skipped Modified and resync change nothing. Each operation is eventually applied or lost. A restart replays what exists. The run has one failed Send and one restart. |
| router_loss_not_repaired | MCRouterSyncLoss.cfg | violation | `ExistingObjectsReachEdge` fails: after one failed Send of a rule insert, the periodic resync never repairs it, because it arrives as Modified and is skipped. |
| router_restart_delete | MCRouterSyncRestart.cfg | violation | `EventuallyConsistent` fails: a rule whose Deleted is queued when the controller restarts stays at the edge, because the relist has only Added. |
| configmap_resync | ConfigMapResync.cfg | pass | `UpdatesReachEdge`: with one failed Send, content changes and a restart (possibly in the middle of a fan-out), every node running a pod that names the configmap, including a pod moved there, eventually holds its latest version, because syncConfigMap sends a resync Modified as an update. Contrast with router_loss_not_repaired. |
| mission_no_heartbeat | MCMissionSyncNoHeartbeat.cfg | violation | `EventuallyConverged` fails: a cluster created after start is never put in EdgeClusters, and if it reports only on change it never gets later missions. |

Each property of a pass run has a mutant in PROJECT.json that TLC breaks:
- a syncEdgeNodes that stores a non-Ready condition (breaks `TypeOK`);
- a missing `fallthrough` in syncEdgeNodes;
- a syncPod with no Done case;
- a subset test instead of `reflect.DeepEqual`;
- a rule loop that sends Modified as update (breaks RouterSync's `TypeOK`);
- a rule loop whose Deleted case builds an insert (breaks `RouterRefinement`);
- a configmap loop that skips Modified like the rule loop (breaks `UpdatesReachEdge`).

## Bounds

The Downstream model uses two nodes, one pod key, one configmap and one
secret. Two nodes are the least that lets a pod move between nodes and
initLocating carry a status from one node to the next.

`MaxEvents` bounds the changes after start; the initial informer events
come on top of it.
- The safety run uses 2 changes (3.7M states, about 1 minute). That is
  enough for an Added, Modified or Deleted of a node to follow
  initLocating's priming or another node event.
- The shutdown run uses 1 change.
- The violation runs use 3 changes.
- Node symmetry is used only in the safety run, because the properties are
  symmetric in nodes.

MissionSync uses two clusters, two missions and 2 changes (1.2M states).

RouterSync uses the two kinds and two names, with at most one Send failure
and one restart (`MaxLosses`, `MaxRestarts`).
- The refinement run allows one API-server change on top of the initial
  list. A name can then be deleted while its initial Added is still queued
  or in the message layer, which is the ordering case. Two changes took over
  5 minutes because of the liveness part of the refinement.
- The violation runs need only one change.

ConfigMapResync uses two nodes, two pods, one configmap, two pod changes, two
content changes, one failed Send and one restart (1.4M states, about 2
minutes). Two pods let one pod move to a node after the configmap was sent
there for another, or to a node the configmap never reached. Deleted configmap events are not generated
there (the Deleted branch of `SyncConfigMapSend` is covered by Downstream):
the property is about content reaching the nodes that use it.

## Fairness

Each loop is a goroutine with nothing else to wait on, so each is weakly
fair. Go's `select` picks uniformly among ready cases, so `Stop(l)` is
strongly fair: the Done case is taken eventually, even with a busy channel.
In MissionSync, status reports (`ClusterReport`) are strongly fair only when
`PeriodicReports` is TRUE, which stands for the edge's periodic status
updates. The API server and Cancel get no fairness.

In RouterSync, the loops and the message layer's delivery are weakly fair.
Resync is a timer and is only enabled while the channel is empty, so it is
strongly fair. Failed sends are not fair; they are bounded by `MaxLosses`.
ConfigMapResync uses the same fairness (restarts and pod changes get
none; they are bounded), and its resync fires only when the
channel and the message layer are empty: the resync period is long beside
message delivery.

The safety and shutdown cfgs set `CHECK_DEADLOCK FALSE`, and so do the
RouterSync cfgs. After every loop
has returned, the controller really does stop.

## Not modelled

- Type-assertion failures, `BuildResource` errors and lister `List` errors.
  Each is a logged `continue`/`break` on input the API server does not
  produce.
- Startup failures in `NewDownstreamController` (lines 516-589). These are
  manager constructions that return an error before any loop starts, so
  there is no state to model. Its successful path, initLocating then
  Start, is modelled (Downstream `Init`, ConfigMapResync `Restart`).
- Services/endpoints managers, which are created but unused.
- Send failures in the Downstream and MissionSync loops. They are modelled
  for the rule loops (RouterSync) and the configmap loop (ConfigMapResync);
  the secret loop is the same code as the configmap loop.

## Further work

- Invariants that relate the LocationCache indices to the pod index alone
  (the node sets are at most, or exactly, the nodes of the indexed pods
  that name the object) are not checked. The cache is modelled from
  spec.md, and its operations keep such relations by construction
  whatever order downstream.go calls them in. What the loops can get wrong
  is checked against the API server instead: `CacheNodesAreEdge`,
  `UnreferencedHasNoEntry` and `IndexCoversEdgePods` (violation runs).
- A configmap deleted and then re-created while syncPod runs is already
  reached by node_after_pod: after `DeleteConfigMap` wipes the set, the
  configmap reaches no node, and `IndexCoversEdgePods` catches this.
