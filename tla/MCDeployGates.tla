---------------------------- MODULE MCDeployGates ---------------------------
(***************************************************************************)
(* Model checking of DeployGates and, beside it, of Rollout, the post-     *)
(* check of one deployment in detail.  A behaviour is of the one or of the *)
(* other: the part that is not active stays in one state.                  *)
(***************************************************************************)
EXTENDS DeployGates, Rollout

VARIABLE active

sideBySide == <<vars, rollout, active>>

SideBySideInit ==
    \/ /\ active = "deploy" /\ Init
       /\ exists = FALSE /\ canceled = FALSE /\ waited = FALSE /\ seen = {}
       /\ pods = [ready |-> 0, starting |-> 0] /\ published = StatusOf(pods)
       /\ gates = <<>>
       /\ check = [pc |-> "returned", gate |-> 1, decisions |-> <<>>, outcome |-> "none"]
    \/ /\ active = "rollout" /\ RolloutInit
       /\ kube = TRUE /\ dryRun = FALSE /\ history = <<>>
       /\ opts = [d \in Deployer |-> [post |-> FALSE, auto |-> FALSE]]
       /\ pc = [d \in Deployer |-> "start"]
       /\ cleared = [d \in Deployer |-> FALSE]
       /\ prev = [d \in Deployer |-> 0]
       /\ decisions = [d \in Deployer |-> <<>>]
       /\ attempted = [d \in Deployer |-> FALSE]
       /\ report = [d \in Deployer |-> [status |-> "none", rolledBack |-> FALSE]]
       /\ op = [pc |-> "idle", target |-> 0]

SideBySideNext ==
    \/ active = "deploy" /\ Next /\ UNCHANGED <<rollout, active>>
    \/ active = "rollout" /\ RolloutNext /\ UNCHANGED <<vars, active>>

SideBySide == SideBySideInit /\ [][SideBySideNext]_sideBySide /\ RolloutFairness
=============================================================================
