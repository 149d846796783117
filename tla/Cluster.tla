------------------------------- MODULE Cluster ------------------------------
(***************************************************************************)
(* A Kubernetes Deployment as internal/kubernetes reads it.  The cluster   *)
(* itself is external: pods start, become ready, fail and go away, and the *)
(* controller publishes counts in the status of the Deployment, later.     *)
(* Pods of the old and of the new revision have the same labels, and the   *)
(* client tells them apart as little as this module does.                  *)
(***************************************************************************)
EXTENDS Naturals

CONSTANTS
    Replicas,       \* spec.replicas
    Surge           \* pods a rollout may have in addition

ASSUME ReplicasAssumption == Replicas \in Nat \ {0} /\ Surge \in Nat

VARIABLES
    exists,     \* is there a Deployment of this name?
    pods,       \* pods that match its selector: how many ready, how many not
    published   \* status.readyReplicas and the condition Available

cluster == <<exists, pods, published>>

-----------------------------------------------------------------------------
(* The cluster.                                                            *)

Total == pods.ready + pods.starting

PodCounts == {p \in [ready : 0..(Replicas + Surge), starting : 0..(Replicas + Surge)] :
                  p.ready + p.starting <= Replicas + Surge}

\* The Deployment is available when all its replicas were ready.
StatusOf(p) == [ready |-> p.ready, available |-> p.ready >= Replicas]

ClusterInit ==
    /\ exists \in BOOLEAN
    /\ pods \in PodCounts
    /\ \E p \in PodCounts : published = StatusOf(p)

PodsChange ==
    /\ exists
    /\ \/ Total < Replicas + Surge /\ pods' = [pods EXCEPT !.starting = @ + 1]
       \/ pods.starting > 0 /\ pods' = [pods EXCEPT !.starting = @ - 1, !.ready = @ + 1]
       \/ pods.starting > 0 /\ pods' = [pods EXCEPT !.starting = @ - 1]
       \/ pods.ready > 0 /\ pods' = [pods EXCEPT !.ready = @ - 1, !.starting = @ + 1]
       \/ pods.ready > 0 /\ pods' = [pods EXCEPT !.ready = @ - 1]
    /\ UNCHANGED <<exists, published>>

StatusPublished ==
    /\ exists /\ published # StatusOf(pods)
    /\ published' = StatusOf(pods)
    /\ UNCHANGED <<exists, pods>>

-----------------------------------------------------------------------------
(* The client.                                                             *)

\* mapPodToHealth: a pod is healthy when it runs and is ready; the report
\* counts those, and counts all that match the selector.
CheckPodHealth == [total |-> Total, healthy |-> pods.ready]

\* WaitForReady is satisfied by the status as published, whatever generation
\* of the Deployment it was published for.
Ready == published.available /\ published.ready = Replicas
=============================================================================
