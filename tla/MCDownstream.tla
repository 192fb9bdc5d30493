---------------------------- MODULE MCDownstream ----------------------------
(* Model-checking instance of Downstream: nodes, pods, configmaps and      *)
(* secrets are model values given in the .cfg files.                       *)
EXTENDS Downstream, TLC

CONSTANTS n1, n2, p1, c1, s1

NodeSymmetry == Permutations({n1, n2})

\* No pod exists when initLocating runs.
NoInitPods == {}

\* initLocating may find a pod, on either node, that mounts c1 and s1.
InitPodOnANode == {[node |-> n, cms |-> {c1}, secs |-> {s1}] : n \in {n1, n2}}

=============================================================================
