------------------------- MODULE TerminationRecovery -------------------------
(***************************************************************************)
(* The two controllers that drive NodeRemoval and may take the termination   *)
(* finalizer off the target NodeClaim: Karpenter's lifecycle controller      *)
(* (external, it calls Delete once the Node is gone and removes the          *)
(* finalizer when Delete says NotFound), and this repository's termination   *)
(* recovery controller, for the wake-up the lifecycle controller misses.     *)
(* Recovery stores when it first saw no matching Node together with a digest *)
(* of the create fence, waits, runs Delete, and re-reads everything before   *)
(* it removes the finalizer.  The digest changes when the cleanup marker is  *)
(* written into the fence, so it is the marker here.                         *)
(***************************************************************************)
EXTENDS NodeRemoval

VARIABLES
    node,    \* a Node with the target's provider ID is in the API
    aged,    \* the stored observation is older than the wait
    seen     \* what recovery read before its cloud audit: digest and observation

all == <<plan, claim, journal, slot, launch, vm, fip, rel, wire, hit, pass, faults, node, aged, seen>>
others == <<plan, journal, slot, launch, vm, fip, rel, wire, hit, faults>>

RInit ==
    /\ Init
    /\ node = TRUE /\ aged = FALSE
    /\ seen = [digest |-> FALSE, obs |-> "none"]

(* The digest of the create fence: with or without the marker. *)
Digest == claim.marker
ObsOf(digest) == IF digest THEN "afterMarker" ELSE "beforeMarker"

Eligible == claim.exists /\ claim.term

----------------------------------------------------------------------------
(* Karpenter's lifecycle controller (external). *)

LifecycleDelete ==
    /\ plan.lifecycle /\ Eligible /\ ~node
    /\ At("karpenter", "idle") /\ Goto("karpenter", "enter")
    /\ UNCHANGED <<others, claim, node, aged, seen>>

LifecycleFinalize ==
    /\ At("karpenter", "returned") /\ Fail("karpenter")
    /\ claim' = [claim EXCEPT !.term = FALSE]
    /\ UNCHANGED <<others, node, aged, seen>>

----------------------------------------------------------------------------
(* TerminationRecoveryController.Reconcile. *)

(* A stored observation of another digest is an error, for good. *)
Drifted == claim.obs # "none" /\ claim.obs # ObsOf(Digest)

RecoveryIdle == plan.recovery /\ Eligible /\ At("recovery", "idle") /\ ~Drifted

(* A matching Node clears the evidence. *)
RecoveryReset ==
    /\ RecoveryIdle /\ node /\ claim.obs # "none"
    /\ claim' = [claim EXCEPT !.obs = "none"] /\ aged' = FALSE
    /\ UNCHANGED <<others, pass, node, seen>>

(* No Node: first remember it, then, the wait over, audit the cloud. *)
RecoveryObserve ==
    /\ RecoveryIdle /\ ~node /\ claim.obs = "none"
    /\ claim' = [claim EXCEPT !.obs = ObsOf(Digest)] /\ aged' = FALSE
    /\ UNCHANGED <<others, pass, node, seen>>

RecoveryAudit ==
    /\ RecoveryIdle /\ ~node /\ claim.obs # "none" /\ aged
    /\ seen' = [digest |-> Digest, obs |-> claim.obs]
    /\ Goto("recovery", "enter")
    /\ UNCHANGED <<others, claim, node, aged>>

(* The readback after the audit: identity, digest, observation and Node must *)
(* be what they were. *)
Unchanged == Eligible /\ Digest = seen.digest /\ claim.obs = seen.obs

(* Mutant: the Node is not looked for again. *)
RecoveryFinalizeBlind ==
    /\ At("recovery", "returned") /\ Fail("recovery")
    /\ claim' = IF Unchanged THEN [claim EXCEPT !.term = FALSE] ELSE claim
    /\ UNCHANGED <<others, node, aged, seen>>

RecoveryFinalize ==
    /\ At("recovery", "returned") /\ Fail("recovery")
    /\ claim' = IF ~Unchanged THEN claim
                ELSE IF node THEN [claim EXCEPT !.obs = "none"]
                ELSE [claim EXCEPT !.term = FALSE]
    /\ aged' = (aged /\ claim'.obs # "none")
    /\ UNCHANGED <<others, node, seen>>

----------------------------------------------------------------------------
(* The wait passes; the Node is deleted, or its kubelet registers it again.  *)
Age ==
    /\ claim.obs # "none" /\ ~aged /\ aged' = TRUE
    /\ UNCHANGED <<others, claim, pass, node, seen>>

NodeDeleted ==
    /\ node /\ node' = FALSE
    /\ UNCHANGED <<others, claim, pass, aged, seen>>

NodeReturns ==
    /\ plan.rejoins /\ ~node /\ vm = "live" /\ node' = TRUE
    /\ UNCHANGED <<others, claim, pass, aged, seen>>

(* The create-protection controller: with the termination finalizer gone, a  *)
(* read-only audit of VM, address and relation releases its own finalizer    *)
(* and the NodeClaim goes. *)
Release ==
    /\ claim.exists /\ ~claim.term
    /\ VMAbsent /\ ~OrphanAddress /\ ~RelationShown
    /\ claim' = [claim EXCEPT !.exists = FALSE]
    /\ UNCHANGED <<others, pass, node, aged, seen>>

Step(A) == A /\ UNCHANGED <<node, aged, seen>>

PassStep(p) ==
    /\ \/ Enter(p) \/ ReadLive(p) \/ ReadGone(p) \/ RecallVM(p)
       \/ AuthorizeVM(p) \/ ProveVM(p) \/ SendVM(p) \/ Absent(p)
       \/ AddressAssigned(p) \/ AddressFree(p) \/ AuthorizeDelete(p)
       \/ ProveAddress(p, "unassign", "assigned") \/ ProveAddress(p, "delete", "free")
       \/ SendAddress(p, "unassign") \/ SendAddress(p, "delete")
       \/ AddressGone(p) \/ ObserveDelete(p) \/ AddressTaken(p) \/ Confirm(p)
       \/ DetachFound(p) \/ DetachDispatch(p) \/ ProveDetach(p) \/ SendDetach(p)
       \/ DetachGone(p) \/ ObserveDetach(p) \/ Converged(p)
    /\ UNCHANGED <<node, aged, seen>>

RecoveryStep ==
    RecoveryReset \/ RecoveryObserve \/ RecoveryAudit \/ RecoveryFinalize

Next ==
    \/ \E p \in Passes : Step(Enter(p))
    \/ \E p \in Passes : Step(ReadLive(p))
    \/ \E p \in Passes : Step(ReadGone(p))
    \/ \E p \in Passes : Step(RecallVM(p))
    \/ \E p \in Passes : Step(AuthorizeVM(p))
    \/ \E p \in Passes : Step(ProveVM(p))
    \/ \E p \in Passes : Step(SendVM(p))
    \/ \E p \in Passes : Step(Absent(p))
    \/ \E p \in Passes : Step(AddressAssigned(p))
    \/ \E p \in Passes : Step(AddressFree(p))
    \/ \E p \in Passes : Step(AuthorizeDelete(p))
    \/ \E p \in Passes : Step(ProveAddress(p, "unassign", "assigned"))
    \/ \E p \in Passes : Step(ProveAddress(p, "delete", "free"))
    \/ \E p \in Passes, op \in {"unassign", "delete"} : Step(SendAddress(p, op))
    \/ \E p \in Passes : Step(AddressGone(p))
    \/ \E p \in Passes : Step(ObserveDelete(p))
    \/ \E p \in Passes : Step(AddressTaken(p))
    \/ \E p \in Passes : Step(Confirm(p))
    \/ \E p \in Passes : Step(DetachFound(p))
    \/ \E p \in Passes : Step(DetachDispatch(p))
    \/ \E p \in Passes : Step(ProveDetach(p))
    \/ \E p \in Passes : Step(SendDetach(p))
    \/ \E p \in Passes : Step(DetachGone(p))
    \/ \E p \in Passes : Step(ObserveDetach(p))
    \/ \E p \in Passes : Step(Converged(p))
    \/ \E p \in Passes : Step(Abandon(p))
    \/ LifecycleDelete \/ LifecycleFinalize
    \/ RecoveryReset \/ RecoveryObserve \/ RecoveryAudit \/ RecoveryFinalize
    \/ Age \/ NodeDeleted \/ NodeReturns \/ Release
    \/ Step(LaunchAuthorize) \/ Step(LaunchReissue) \/ Step(LaunchSlot) \/ Step(LaunchPost)
    \/ Step(LaunchWatch) \/ Step(LaunchFinish) \/ Step(LaunchAbandon)
    \/ \E r \in Requests : Step(Commit(r))
    \/ \E r \in Requests : Step(Lose(r))
    \/ Step(CloudReleases) \/ Step(CloudReallocates)

Spec == RInit /\ [][Next]_all

LifecycleStep == LifecycleDelete \/ LifecycleFinalize
TimeStep == Age \/ NodeDeleted
CloudStep(r) == Step(Commit(r))
LaunchStep ==
    /\ LaunchAuthorize \/ LaunchReissue \/ LaunchSlot \/ LaunchPost \/ LaunchWatch
       \/ LaunchFinish
    /\ UNCHANGED <<node, aged, seen>>

FairSpec ==
    /\ Spec
    /\ \A p \in Passes : WF_all(PassStep(p))
    /\ \A r \in Requests : WF_all(CloudStep(r))
    /\ WF_all(LifecycleStep) /\ WF_all(LaunchStep) /\ WF_all(RecoveryStep) /\ WF_all(TimeStep) /\ WF_all(Release)

----------------------------------------------------------------------------
(* Properties. *)

(* A floating IP is unassigned and deleted by its number.  However a pass is *)
(* cut short, repeated or overlapped by another, no request of the target's  *)
(* removal reaches the number once the platform has given it to somebody     *)
(* else: no second request is sent for an issued receipt, and a receipt is   *)
(* observed only when its request can no longer be on its way                *)
(* (deleteOwnedFloatingIPWithProof, AuthorizeRemovalMutation).               *)
OthersKeepTheirs == plan.late \/ ~hit

(* The cleanup marker is written, and Karpenter's finalizer removed, only    *)
(* when VM, floating IP and firewall relation are all gone; recovery, which  *)
(* removes it by itself, has also found no Node with that provider ID after  *)
(* the audit, although the Node may register again while the VM lives        *)
(* (CloudProvider.delete, TerminationRecoveryController.Reconcile).          *)
FinalizerLast ==
    claim.marker \/ ~claim.term =>
        /\ vm = "gone" /\ fip \in {"none", "other"} /\ "target" \notin rel
        /\ claim.term \/ plan.lifecycle \/ ~node

(* The slot keeps the launch of one claim and the removal of another off the *)
(* same firewall: an assignment and a detachment are never in flight at the  *)
(* same time, through crashes, rejections and lost requests                  *)
(* (acquireFirewallMutationSlot).  Two overlapping deletes of one claim are  *)
(* excepted: one may reject the issue the other has just sent again.         *)
OneFirewallOwner ==
    \/ plan.late \/ (plan.lifecycle /\ plan.recovery)
    \/ ~({"assign", "detach"} \subseteq wire)

(* Without faults, and with Karpenter's lifecycle controller awake, a        *)
(* deleted NodeClaim goes away, also when its firewall slot is first held by *)
(* a launch. *)
RemovalEnds == (plan.faults = 0 /\ plan.lifecycle) ~> ~claim.exists

(* The recovery controller "closes a Karpenter lifecycle missed-wakeup       *)
(* race": with the Node gone and the lifecycle controller asleep, it takes   *)
(* the termination finalizer off by itself. *)
RecoveryEnds == (plan.faults = 0 /\ plan.recovery) ~> ~claim.term
=============================================================================
