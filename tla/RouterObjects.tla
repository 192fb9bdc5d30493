--------------------------- MODULE RouterObjects ---------------------------
(***************************************************************************)
(* What the cloud promises the edge about router-plane objects (rules and  *)
(* rule endpoints), as spec.md states it: delivery is best effort, with no *)
(* retry and no outbox (sections 1, 4.4 and 9), and the informers replay    *)
(* the objects that exist when the controller starts.                      *)
(*                                                                         *)
(* backlog[k] holds the insert / delete operations of kind k that the      *)
(* cloud has issued and the edge has not yet applied, in the order the     *)
(* API server made the changes.  The edge applies them in that order; any *)
(* of them may be lost; a restart of the controller forgets the backlog    *)
(* and replaces it by one insert per object that exists.                   *)
(***************************************************************************)
EXTENDS Sequences, SequencesExt

CONSTANTS
    Kinds,      \* the router-plane kinds: rule, ruleendpoint
    Names,      \* object names
    Lossy       \* whether MessageLayer.Send may fail

VARIABLES
    cloud,      \* kind -> the objects in the API server
    edge,       \* kind -> the objects the edge holds
    backlog     \* kind -> the operations still to reach the edge

vars == <<cloud, edge, backlog>>

Op == [op : {"insert", "delete"}, name : Names]

\* Apply one operation to the set of objects the edge holds.
ApplyOp(have, o) == IF o.op = "insert" THEN have \cup {o.name} ELSE have \ {o.name}

\* One insert per existing object, in any order.
Relisted(objs) == {[i \in DOMAIN s |-> [op |-> "insert", name |-> s[i]]] : s \in SetToSeqs(objs)}

TypeOK ==
    /\ cloud \in [Kinds -> SUBSET Names]
    /\ edge \in [Kinds -> SUBSET Names]
    /\ backlog \in [Kinds -> Seq(Op)]

\* The edge was in step with the cloud before the controller started.
Init ==
    /\ cloud \in [Kinds -> SUBSET Names]
    /\ edge = cloud
    /\ backlog \in [Kinds -> UNION {Relisted(cloud[k]) : k \in Kinds}]
    /\ \A k \in Kinds : backlog[k] \in Relisted(cloud[k])

Create(k, n) ==
    /\ n \notin cloud[k]
    /\ cloud' = [cloud EXCEPT ![k] = @ \cup {n}]
    /\ backlog' = [backlog EXCEPT ![k] = Append(@, [op |-> "insert", name |-> n])]
    /\ UNCHANGED edge

Delete(k, n) ==
    /\ n \in cloud[k]
    /\ cloud' = [cloud EXCEPT ![k] = @ \ {n}]
    /\ backlog' = [backlog EXCEPT ![k] = Append(@, [op |-> "delete", name |-> n])]
    /\ UNCHANGED edge

\* The edge applies the oldest operation of kind k.
Apply(k) ==
    /\ backlog[k] # <<>>
    /\ edge' = [edge EXCEPT ![k] = ApplyOp(@, Head(backlog[k]))]
    /\ backlog' = [backlog EXCEPT ![k] = Tail(@)]
    /\ UNCHANGED cloud

\* An operation is lost on its way and never applied.
Lose(k, i) ==
    /\ Lossy
    /\ i \in DOMAIN backlog[k]
    /\ backlog' = [backlog EXCEPT ![k] = RemoveAt(@, i)]
    /\ UNCHANGED <<cloud, edge>>

\* The controller restarts: what was on its way is gone and every existing
\* object is announced again.
Restart ==
    /\ backlog' \in [Kinds -> UNION {Relisted(cloud[k]) : k \in Kinds}]
    /\ \A k \in Kinds : backlog'[k] \in Relisted(cloud[k])
    /\ UNCHANGED <<cloud, edge>>

Next ==
    \/ \E k \in Kinds, n \in Names : Create(k, n) \/ Delete(k, n)
    \/ \E k \in Kinds : Apply(k)
    \/ \E k \in Kinds : \E i \in DOMAIN backlog[k] : Lose(k, i)
    \/ Restart

\* Every operation still on its way is eventually applied or lost.
Spec == Init /\ [][Next]_vars /\ \A k \in Kinds : WF_vars(Apply(k))

=============================================================================
