---------------------------- MODULE ClusterNodes ----------------------------
(***************************************************************************)
(* The Nodes of the cluster and the VMs under them, as the cloud controller *)
(* manager sees them.  A Node and its VM carry the same number.             *)
(***************************************************************************)
EXTENDS Naturals, FiniteSets

CONSTANT Targets        \* the VMs, numbered: requests list them in this order

ASSUME TargetsAssumption == Targets \subseteq Nat /\ IsFiniteSet(Targets)

VARIABLES
    node,       \* node[t]: "ready", "down" (not Ready, tainted or excluded) or "none"
    vm,         \* the VMs that exist
    anomaly,    \* the VM API's wrong answers: VMs left out by .exact reads and by the .lists
    plan        \* what the environment may do in this behaviour

(* loadBalancerNodeEligible *)
Eligible == {t \in Targets : node[t] = "ready"}

NoAnomaly == [exact |-> {}, lists |-> {}]

(* GetVM; the VM inventory and the members of the VPC. *)
ReadsAlive(t) == t \in vm \ anomaly.exact
Listed == vm \ anomaly.lists

(* The exact read finds the VM and the lists contain it: resolveVM for a Node
   with a provider ID, validateStandardNLBTargetVMCloudAuthority. *)
Resolved(t) == ReadsAlive(t) /\ t \in Listed

First(S) == CHOOSE t \in S : \A u \in S : t <= u
=============================================================================
