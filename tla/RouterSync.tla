----------------------------- MODULE RouterSync -----------------------------
(***************************************************************************)
(* syncRule and syncRuleEndpoint (downstream.go:254-333) and the message   *)
(* layer behind SendMessage (616-622).  The two loops are the same code    *)
(* over two kinds: each takes an event from its manager's channel, maps    *)
(* Added to insert and Deleted to delete, skips Modified, and sends.  A    *)
(* handler touches no shared state besides the message layer, so it is one *)
(* step.  Send may fail; SendMessage only logs the error.  The message     *)
(* layer delivers what it accepted in order; the edge applies it.          *)
(*                                                                         *)
(* The informers may resync, delivering Modified for every existing        *)
(* object, and the controller process may restart: the channels and the   *)
(* message layer's buffer are in memory and are lost, and the informers    *)
(* list the API server again and deliver Added for what exists.            *)
(***************************************************************************)
EXTENDS Naturals, Sequences, SequencesExt

CONSTANTS
    Kinds,        \* {"rule", "ruleendpoint"}
    Names,        \* object names
    MaxLosses,    \* how many times MessageLayer.Send may return an error
    Resync,       \* the informers resync periodically
    MaxEvents,    \* API server changes in a run
    MaxRestarts   \* controller restarts in a run

ASSUME Kinds = {"rule", "ruleendpoint"}
ASSUME Resync \in BOOLEAN
ASSUME MaxEvents \in Nat /\ MaxRestarts \in Nat /\ MaxLosses \in Nat

VARIABLES
    cloud,      \* kind -> objects in the API server
    queue,      \* kind -> the manager's Events() channel
    transport,  \* messages the message layer accepted, not yet at the edge
    edge,       \* kind -> objects the edge holds
    budget,     \* API server changes still to come
    restarts,   \* restarts so far
    losses      \* failed sends so far

vars == <<cloud, queue, transport, edge, budget, restarts, losses>>

EventType == {"Added", "Modified", "Deleted"}
Event == [type : EventType, name : Names]
Message == [kind : Kinds, op : {"insert", "delete"}, name : Names]

TypeOK ==
    /\ cloud \in [Kinds -> SUBSET Names]
    /\ queue \in [Kinds -> Seq(Event)]
    /\ transport \in Seq(Message)
    /\ edge \in [Kinds -> SUBSET Names]
    /\ budget \in 0..MaxEvents
    /\ restarts \in 0..MaxRestarts
    /\ losses \in 0..MaxLosses

\* The informer's initial list: one Added per existing object, in any order.
Listed(objs) == {[i \in DOMAIN s |-> [type |-> "Added", name |-> s[i]]] : s \in SetToSeqs(objs)}

\* Start launches the two loops after the informers have synced
\* (downstream.go:459-463).  The edge was in step before the start.
Init ==
    /\ cloud \in [Kinds -> SUBSET Names]
    /\ queue \in [Kinds -> UNION {Listed(cloud[k]) : k \in Kinds}]
    /\ \A k \in Kinds : queue[k] \in Listed(cloud[k])
    /\ transport = <<>>
    /\ edge = cloud
    /\ budget = MaxEvents
    /\ restarts = 0
    /\ losses = 0

-----------------------------------------------------------------------------
(* The API server, the informers and the edge. *)

CloudChange(k, t, n) ==
    /\ budget > 0
    /\ IF t = "Added" THEN n \notin cloud[k] ELSE n \in cloud[k]
    /\ cloud' = [cloud EXCEPT ![k] = CASE t = "Added" -> @ \cup {n}
                                       [] t = "Deleted" -> @ \ {n}
                                       [] OTHER -> @]
    /\ queue' = [queue EXCEPT ![k] = Append(@, [type |-> t, name |-> n])]
    /\ budget' = budget - 1
    /\ UNCHANGED <<transport, edge, restarts, losses>>

\* A periodic resync re-delivers an existing object as Modified.  At most
\* one resync event waits in a channel.
ResyncObject(k, n) ==
    /\ Resync
    /\ n \in cloud[k]
    /\ queue[k] = <<>>
    /\ queue' = [queue EXCEPT ![k] = <<[type |-> "Modified", name |-> n]>>]
    /\ UNCHANGED <<cloud, transport, edge, budget, restarts, losses>>

\* The edge applies the oldest message the message layer holds.
Deliver ==
    /\ transport # <<>>
    /\ LET m == Head(transport)
       IN  edge' = [edge EXCEPT ![m.kind] = IF m.op = "insert" THEN @ \cup {m.name}
                                                              ELSE @ \ {m.name}]
    /\ transport' = Tail(transport)
    /\ UNCHANGED <<cloud, queue, budget, restarts, losses>>

\* The controller process restarts: channels and the message layer's buffer
\* are lost, and the informers deliver Added for every existing object.
Restart ==
    /\ restarts < MaxRestarts
    /\ queue' \in [Kinds -> UNION {Listed(cloud[k]) : k \in Kinds}]
    /\ \A k \in Kinds : queue'[k] \in Listed(cloud[k])
    /\ transport' = <<>>
    /\ restarts' = restarts + 1
    /\ UNCHANGED <<cloud, edge, budget, losses>>

-----------------------------------------------------------------------------
(* The loops. *)

\* Variant of RouterOp where the Deleted case builds an insert, as if its
\* BuildRouter line were copied from the Added case.
RouterOpAllInsert == [Added |-> "insert", Deleted |-> "insert"]

\* Variant of RouterOp that sends Modified as an update, as the configmap
\* loop does.
RouterOpWithModified == [Added |-> "insert", Deleted |-> "delete", Modified |-> "update"]

\* The operation of each supported event type; Modified and anything else
\* are logged and skipped (lines 277-288).
RouterOp == [Added |-> "insert", Deleted |-> "delete"]

\* SendMessage: the message layer accepts the message, or Send returns an
\* error, which is logged and dropped (lines 616-622).
SendMessage(m) ==
    \/ transport' = Append(transport, m) /\ UNCHANGED losses
    \/ losses < MaxLosses /\ losses' = losses + 1 /\ UNCHANGED transport

\* One iteration of the loop of kind k: receive, skip an unsupported type,
\* or build the message and send it (lines 260-289).
SyncObject(k) ==
    /\ queue[k] # <<>>
    /\ queue' = [queue EXCEPT ![k] = Tail(@)]
    /\ LET e == Head(queue[k])
       IN  IF e.type \in DOMAIN RouterOp
           THEN SendMessage([kind |-> k, op |-> RouterOp[e.type], name |-> e.name])
           ELSE UNCHANGED <<transport, losses>>
    /\ UNCHANGED <<cloud, edge, budget, restarts>>

SyncRule == SyncObject("rule")

SyncRuleEndpoint == SyncObject("ruleendpoint")

Next ==
    \/ \E k \in Kinds, t \in EventType, n \in Names : CloudChange(k, t, n)
    \/ \E k \in Kinds, n \in Names : ResyncObject(k, n)
    \/ Deliver
    \/ Restart
    \/ SyncRule \/ SyncRuleEndpoint

(***************************************************************************)
(* The loops are goroutines and the message layer drains its buffer: all  *)
(* weakly fair.  Resync is driven by a timer: strongly fair, because it is *)
(* only enabled while the channel is empty.                                *)
(***************************************************************************)
Fairness ==
    /\ WF_vars(SyncRule) /\ WF_vars(SyncRuleEndpoint) /\ WF_vars(Deliver)
    /\ \A k \in Kinds, n \in Names : SF_vars(ResyncObject(k, n))

Spec == Init /\ [][Next]_vars /\ Fairness

-----------------------------------------------------------------------------
(* Properties. *)

\* The operations of kind k still on their way to the edge: those the
\* message layer holds, then those the channel's events will produce.
InFlight(k) ==
    LET sent == SelectSeq(transport, LAMBDA m : m.kind = k)
        queued == SelectSeq(queue[k], LAMBDA e : e.type \in {"Added", "Deleted"})
    IN  [i \in DOMAIN sent |-> [op |-> sent[i].op, name |-> sent[i].name]]
        \o [i \in DOMAIN queued |->
              [op |-> IF queued[i].type = "Added" THEN "insert" ELSE "delete",
               name |-> queued[i].name]]

Abstract == INSTANCE RouterObjects WITH
    Lossy <- MaxLosses > 0, backlog <- [k \in Kinds |-> InFlight(k)]

(* RouterRefinement: the two loops and the message layer implement the     *)
(* best-effort contract of RouterObjects: the edge applies, in the API     *)
(* server's order, a subsequence of the inserts and deletes of each kind,  *)
(* every one is eventually applied or lost, skipped Modified events and    *)
(* resyncs change nothing, and a restart replays the existing objects.     *)
RouterRefinement == Abstract!Spec

(* ExistingObjectsReachEdge (spec.md section 4.4: errors are swallowed    *)
(* because resync will replay missed events): once the API server stops    *)
(* changing, every rule and endpoint it holds reaches the edge, even when  *)
(* a Send failed, since the informers keep resyncing them.                 *)
ExistingObjectsReachEdge == <>[](\A k \in Kinds : cloud[k] \subseteq edge[k])

(* EventuallyConsistent (spec.md sections 1 and 4.4: upstream state is the *)
(* truth and resync replays missed events): once the API server stops      *)
(* changing, the edge ends up holding exactly its rules and endpoints.     *)
EventuallyConsistent == <>[](\A k \in Kinds : edge[k] = cloud[k])

=============================================================================
