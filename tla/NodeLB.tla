------------------------------- MODULE NodeLB -------------------------------
(***************************************************************************)
(* Publishing Services through the Nodes of a shard.  A Service that asks    *)
(* for the node load balancer class gets a finalizer, a NodePool for its     *)
(* shard, a Cilium child Service and a place in the shard's firewall policy. *)
(* It is opened in steps kept in its annotations, each written by a pass of  *)
(* its own: restage (closed, its policy may enter the firewall), active      *)
(* (the datapath is authorized), staged (the child is open); then its public *)
(* status.  An edited policy goes all the way back: old policy, closed, new  *)
(* policy.                                                                   *)
(*                                                                         *)
(* One worker makes one pass at a time (sync); a pass is a chain of writes   *)
(* that a crash may cut anywhere.  One shard is modelled; the attachment of  *)
(* its firewall to VMs and the ready label are FirewallRelation's.           *)
(***************************************************************************)
EXTENDS ShardFirewall

NewService(p) == [life |-> "live", want |-> p, fin |-> FALSE, active |-> FALSE, staged |-> NoPolicy,
                  restage |-> NoPolicy, material |-> FALSE, proven |-> FALSE]

NoService == [NewService(NoPolicy) EXCEPT !.life = "gone"]

Begin(s, goal, pc) == [Idle EXCEPT !.pc = pc, !.s = s, !.goal = goal, !.pol = svc[s].want]

(* Clear the markers that let a datapath be open. *)
Unmarked(r) == [r EXCEPT !.active = FALSE, !.staged = NoPolicy, !.restage = NoPolicy]

-----------------------------------------------------------------------------
(* sync: which pass a Service needs. *)

(* Its state depends on the NodePool that anchors it. *)
Established(s) ==
    \/ svc[s].active \/ svc[s].staged # NoPolicy \/ svc[s].restage # NoPolicy \/ public[s]
    \/ svc[s].material /\ ~svc[s].proven

(* Only assigned: nothing that costs was ever made for it. *)
Prospective(s) == ~svc[s].active /\ svc[s].staged = NoPolicy /\ svc[s].restage = NoPolicy /\ ~public[s]

Unproven(s) == pool.life = "none" /\ ~svc[s].proven /\ ~(~svc[s].material /\ Prospective(s))

(* The policy it is staged or being staged with is not the one it has. *)
NeedsRestage(s) ==
    \/ svc[s].staged # NoPolicy /\ svc[s].staged # svc[s].want
    \/ svc[s].restage # NoPolicy /\ svc[s].restage # svc[s].want
    \/ svc[s].active /\ svc[s].staged = NoPolicy /\ svc[s].restage = NoPolicy

(* The anchor is recorded on a Service; a proof of its cleanup is void. *)
Material(r) == [r EXCEPT !.material = TRUE, !.proven = FALSE]

Materialized(marks) == [t \in Services |-> IF t \in marks THEN Material(svc[t]) ELSE svc[t]]

Syncable(s) == At("idle") /\ svc[s].life = "live" /\ Valid(s)

(* ensureServiceMetadata: the finalizer and the shard; a proof of an earlier *)
(* cleanup of the shard no longer counts.                                    *)
SyncMetadata(s) ==
    /\ Syncable(s) /\ (~svc[s].fin \/ svc[s].proven)
    /\ svc' = [svc EXCEPT ![s] = [@ EXCEPT !.fin = TRUE, !.proven = FALSE,
                                           !.material = @ /\ ~svc[s].proven]]
    /\ UNCHANGED <<plan, child, public, pool, fw, wire, work>>

Planned(s) == Syncable(s) /\ svc[s].fin /\ ~svc[s].proven

(* validateEstablishedAggregateShardAnchor: the anchor disappeared, or it is *)
(* recorded on every Service of the shard.                                   *)
Anchorless(s) == Established(s) /\ pool.life = "none"
Recorded(s) == IF Established(s) /\ pool.life # "none" THEN Materialized(References) ELSE svc
WithdrawAll(s) == [Begin(s, "serve", "close") EXCEPT !.todo = References]

(* An edited policy: close the Service, then restage it. *)
SyncRestage(s) ==
    /\ Planned(s) /\ NeedsRestage(s)
    /\ work' = IF Anchorless(s) THEN WithdrawAll(s)
               ELSE [Begin(s, "restage", "close") EXCEPT !.todo = {s}, !.then = "child"]
    /\ svc' = Recorded(s)
    /\ UNCHANGED <<plan, child, public, pool, fw, wire>>

(* reconcileDeletingAggregateNodePool: somebody deleted the NodePool. *)
SyncDrain(s) ==
    /\ Planned(s) /\ ~NeedsRestage(s) /\ pool.life = "deleting"
    /\ work' = IF pool.vms THEN [Begin(s, "drain", "close") EXCEPT !.todo = References]
                           ELSE Begin(s, "drain", "delete")
    /\ svc' = Recorded(s)
    /\ UNCHANGED <<plan, child, public, pool, fw, wire>>

SyncServe(s) ==
    /\ Planned(s) /\ ~NeedsRestage(s) /\ pool.life # "deleting"
    /\ work' = IF Anchorless(s) THEN WithdrawAll(s) ELSE Begin(s, "serve", "pool")
    /\ svc' = Recorded(s)
    /\ UNCHANGED <<plan, child, public, pool, fw, wire>>

(* ensureNodePool: the anchor first, then the record of it on every Service. *)
EnsureNodePool ==
    /\ At("pool") /\ pool.life = "none"
    /\ pool' = [NoPool EXCEPT !.life = "live", !.vms = TRUE]
    /\ UNCHANGED <<plan, kube, fw, wire, work>>

FirstBootstrap(s) == ~svc[s].active /\ svc[s].staged = NoPolicy /\ svc[s].restage = NoPolicy

(* A first bootstrap is restaged like an edit; a Service being restaged is   *)
(* closed again before its policy is looked at.                              *)
MarkMaterialized ==
    /\ At("pool") /\ pool.life # "none"
    /\ svc' = IF Live THEN Materialized(References) ELSE svc
    /\ LET s == work.s IN
       CASE pool.life = "deleting" -> FailShardClosed
         [] FirstBootstrap(s) -> work' = [work EXCEPT !.pc = "close", !.goal = "restage",
                                                      !.todo = {s}, !.then = "child"]
         [] svc[s].restage # NoPolicy -> Close({s}, {}, "child")
         [] OTHER -> Goto("policy")
    /\ UNCHANGED <<plan, child, public, pool, fw, wire>>

-----------------------------------------------------------------------------
(* clearAggregateServiceDatapath: the functional child, then the public      *)
(* status, then the markers.                                                 *)

CloseChild(t) ==
    /\ At("close") /\ t \in work.todo /\ child[t] = "open"
    /\ child' = [child EXCEPT ![t] = "closed"]
    /\ UNCHANGED <<plan, svc, public, pool, fw, wire, work>>

ClosePublic(t) ==
    /\ At("close") /\ t \in work.todo /\ child[t] # "open"
    /\ public' = [public EXCEPT ![t] = FALSE]
    /\ work' = Rest([work EXCEPT !.todo = @ \ {t}])
    /\ UNCHANGED <<plan, svc, child, pool, fw, wire>>

ClearMarkers(t) ==
    /\ At("close") /\ t \in work.clear \ work.todo
    /\ svc' = [svc EXCEPT ![t] = Unmarked(@)]
    /\ work' = Rest([work EXCEPT !.clear = @ \ {t}])
    /\ UNCHANGED <<plan, child, public, pool, fw, wire>>

-----------------------------------------------------------------------------
(* prepareAggregateServiceRestage and ensureDatapathService. *)

EnsureChild ==
    /\ At("child")
    /\ child' = [child EXCEPT ![work.s] = IF @ = "none" THEN "closed" ELSE @]
    /\ IF work.goal = "restage" THEN Close({work.s}, {work.s}, "fence")
       ELSE IF work.goal = "serve" THEN Goto("policy")
       ELSE Goto(work.goal)
    /\ UNCHANGED <<plan, svc, public, pool, fw, wire>>

(* The restage fence names the policy the pass began with. *)
RestageFence ==
    /\ At("fence")
    /\ svc' = IF svc[work.s].life = "live" /\ svc[work.s].fin /\ ~public[work.s]
              THEN [svc EXCEPT ![work.s].restage = work.pol]
              ELSE svc
    /\ Goto("idle")
    /\ UNCHANGED <<plan, child, public, pool, fw, wire>>

-----------------------------------------------------------------------------
(* sync, once the policy is reconciled. *)

Decide == At("decide") /\ work.goal = "serve"

(* No firewall with a known policy: the whole shard is withdrawn. *)
ServeUnprotected ==
    /\ Decide /\ ~work.out.have
    /\ FailShardClosed
    /\ UNCHANGED <<plan, kube, pool, fw, wire>>

(* A request was sent: nothing is published before a fresh list. *)
ServeWaits ==
    /\ Decide /\ work.out.have /\ work.out.sent
    /\ Goto("idle")
    /\ UNCHANGED <<plan, kube, pool, fw, wire>>

Deciding == Decide /\ work.out.have /\ ~work.out.sent

(* The applied ledger does not hold the policy of the Service. *)
ServeUncovered ==
    /\ Deciding /\ ~Covers(work.out.ledger, work.s)
    /\ Close({work.s}, {}, "idle")
    /\ UNCHANGED <<plan, kube, pool, fw, wire>>

(* It does: authorize the datapath, stage it, or publish it. *)
ServeCovered ==
    /\ Deciding /\ Covers(work.out.ledger, work.s)
    /\ work' = [work EXCEPT !.pc = "child",
                            !.goal = IF svc[work.s].restage # NoPolicy /\ ~svc[work.s].active
                                     THEN "authorizeDatapath" ELSE "publish"]
    /\ UNCHANGED <<plan, kube, pool, fw, wire>>

(* validatePlannedDatapathContract: the Service is as the pass planned it. *)
Contract(s) == svc[s].life = "live" /\ svc[s].want = work.pol /\ child[s] # "none"

AuthorizeDatapath ==
    /\ At("authorizeDatapath")
    /\ svc' = IF Contract(work.s) /\ (svc[work.s].active \/ child[work.s] # "open")
              THEN [svc EXCEPT ![work.s].active = TRUE] ELSE svc
    /\ Goto("idle")
    /\ UNCHANGED <<plan, child, public, pool, fw, wire>>

(* publishDatapathStatus: the child names the private addresses. *)
PublishDatapath ==
    /\ At("publish")
    /\ LET s == work.s
           ok == Contract(s) /\ svc[s].active IN
       /\ child' = IF ok THEN [child EXCEPT ![s] = "open"] ELSE child
       /\ Goto(IF ~ok THEN "idle" ELSE
                IF svc[s].restage # NoPolicy /\ svc[s].staged = NoPolicy THEN "stage" ELSE "status")
    /\ UNCHANGED <<plan, svc, public, pool, fw, wire>>

(* Mutant: the restaging mark stays. *)
RestageForever ==
    /\ At("stage")
    /\ LET s == work.s IN
       svc' = IF svc[s].active /\ svc[s].restage = work.pol
              THEN [svc EXCEPT ![s].staged = work.pol] ELSE svc
    /\ Goto("idle")
    /\ UNCHANGED <<plan, child, public, pool, fw, wire>>

(* markAggregateDatapathStaged *)
MarkStaged ==
    /\ At("stage")
    /\ LET s == work.s IN
       svc' = IF svc[s].active /\ svc[s].restage = work.pol
              THEN [svc EXCEPT ![s].staged = work.pol, ![s].restage = NoPolicy] ELSE svc
    /\ Goto("idle")
    /\ UNCHANGED <<plan, child, public, pool, fw, wire>>

(* publishPublicProxyStatus *)
PublishStatus ==
    /\ At("status")
    /\ public' = IF Contract(work.s) /\ svc[work.s].active
                 THEN [public EXCEPT ![work.s] = TRUE] ELSE public
    /\ Goto("idle")
    /\ UNCHANGED <<plan, svc, child, pool, fw, wire>>

-----------------------------------------------------------------------------
(* cleanupAggregateService and quarantineAggregateService. *)

(* A malformed Service whose datapath is gone holds no capacity. *)
Quarantined(s) == ~Valid(s) /\ child[s] = "none" /\ ~public[s]

OtherOwner(s) == \E t \in References \ {s} : svc[t].life = "live" /\ ~Quarantined(t)

(* The anchor is recorded, then the Service is withdrawn before any cloud    *)
(* work.  A NodePool that disappeared without a proof stops the cleanup.     *)
SyncCleanup(s) ==
    /\ At("idle") /\ svc[s].life = "deleting" /\ svc[s].fin
    /\ ~Unproven(s)
    /\ svc' = IF pool.life = "none" THEN svc ELSE Materialized(References)
    /\ work' = [Begin(s, "cleanup", "close") EXCEPT !.todo = {s}, !.then = "owner"]
    /\ UNCHANGED <<plan, child, public, pool, fw, wire>>

SyncQuarantine(s) ==
    /\ At("idle") /\ svc[s].life = "live" /\ svc[s].fin /\ ~Valid(s)
    /\ work' = [Begin(s, "quarantine", "close") EXCEPT !.todo = {s}, !.clear = {s}, !.then = "drop"]
    /\ UNCHANGED <<plan, kube, pool, fw, wire>>

(* deleteOwnedDatapathService *)
DropChild ==
    /\ At("drop")
    /\ child' = [child EXCEPT ![work.s] = "none"]
    /\ Goto(IF work.goal = "cleanup" THEN "finalize" ELSE "owner")
    /\ UNCHANGED <<plan, svc, public, pool, fw, wire>>

(* Another Service uses the shard: only this one's policy has to leave. *)
OwnerRemains ==
    /\ At("owner") /\ OtherOwner(work.s)
    /\ Goto("policy")
    /\ UNCHANGED <<plan, kube, pool, fw, wire>>

(* Mutant: an issued PUT is not awaited. *)
LeaveWhenListed ==
    /\ At("decide") /\ work.goal = "cleanup"
    /\ IF work.out.failed \/ work.out.ledger[work.s] # NoPolicy
       THEN Goto("idle") ELSE Close({work.s}, {work.s}, "drop")
    /\ UNCHANGED <<plan, kube, pool, fw, wire>>

(* It has left when the applied ledger is without it and no PUT may follow. *)
LeaveShard ==
    /\ At("decide") /\ work.goal = "cleanup"
    /\ IF work.out.failed \/ work.out.ledger[work.s] # NoPolicy \/ ~work.out.ready
       THEN Goto("idle") ELSE Close({work.s}, {work.s}, "drop")
    /\ UNCHANGED <<plan, kube, pool, fw, wire>>

QuarantineEnds ==
    /\ At("decide") /\ work.goal = "quarantine"
    /\ Goto("idle")
    /\ UNCHANGED <<plan, kube, pool, fw, wire>>

(* The last owner.  A NodePool that is gone was proved clean, or never was. *)
LastOwner ==
    /\ At("owner") /\ ~OtherOwner(work.s)
    /\ IF work.goal = "quarantine"
       THEN Goto(IF svc[work.s].proven \/ pool.life = "none" THEN "idle" ELSE "deletePool")
       ELSE IF pool.life # "none" THEN Close({work.s}, {work.s}, "deletePool")
       ELSE IF Unproven(work.s) THEN Goto("idle")
       ELSE Close({work.s}, {work.s}, "drop")
    /\ UNCHANGED <<plan, kube, pool, fw, wire>>

(* The capacity must be gone before the firewall is touched. *)
DeleteNodePool ==
    /\ At("deletePool")
    /\ pool' = [pool EXCEPT !.life = "deleting"]
    /\ Goto(IF pool.vms THEN "idle" ELSE "delete")
    /\ UNCHANGED <<plan, kube, fw, wire>>

Proven(r) == [r EXCEPT !.proven = TRUE]

(* Mutant: only the Service at work is handed the proof. *)
ProveOneOwner ==
    /\ At("prove")
    /\ svc' = [svc EXCEPT ![work.s] = Proven(@)]
    /\ Goto("unpool")
    /\ UNCHANGED <<plan, child, public, pool, fw, wire>>

(* The proof is handed to every Service before the anchor goes. *)
MarkProven ==
    /\ At("prove")
    /\ svc' = [t \in Services |-> IF t \in References THEN Proven(svc[t]) ELSE svc[t]]
    /\ Goto("unpool")
    /\ UNCHANGED <<plan, child, public, pool, fw, wire>>

RemovePoolFinalizer ==
    /\ At("unpool")
    /\ pool' = NoPool
    /\ CASE work.goal = "drain" -> FailShardClosed
         [] work.goal = "cleanup" -> Close({work.s}, {work.s}, "drop")
         [] OTHER -> Goto("idle")
    /\ UNCHANGED <<plan, kube, fw, wire>>

RemoveServiceFinalizer ==
    /\ At("finalize")
    /\ svc' = IF svc[work.s].life = "deleting" /\ ~public[work.s]
              THEN [svc EXCEPT ![work.s] = NoService] ELSE svc
    /\ Goto("idle")
    /\ UNCHANGED <<plan, child, public, pool, fw, wire>>

-----------------------------------------------------------------------------
(* Everybody else. *)

Edit(s, p) ==
    /\ plan.edits > 0 /\ svc[s].life = "live" /\ svc[s].want # p
    /\ plan' = [plan EXCEPT !.edits = @ - 1]
    /\ svc' = [svc EXCEPT ![s].want = p]
    /\ UNCHANGED <<child, public, pool, fw, wire, work>>

Delete(s) ==
    /\ s \in plan.deletes /\ svc[s].life = "live"
    /\ plan' = [plan EXCEPT !.deletes = @ \ {s}]
    /\ svc' = [svc EXCEPT ![s] = IF @.fin THEN [@ EXCEPT !.life = "deleting"] ELSE NoService]
    /\ UNCHANGED <<child, public, pool, fw, wire, work>>

PoolDeleted ==
    /\ "pool" \in plan.outside /\ Live
    /\ plan' = [plan EXCEPT !.outside = @ \ {"pool"}]
    /\ pool' = [pool EXCEPT !.life = "deleting"]
    /\ UNCHANGED <<kube, fw, wire, work>>

(* Karpenter removes the Nodes of a NodePool that is being deleted. *)
CapacityDrains ==
    /\ pool.life = "deleting" /\ pool.vms
    /\ pool' = [pool EXCEPT !.vms = FALSE]
    /\ UNCHANGED <<plan, kube, fw, wire, work>>

(* The controller stops; the next leader starts its passes from nothing. *)
Crash ==
    /\ ~At("idle")
    /\ Fault
    /\ work' = Idle
    /\ UNCHANGED <<kube, pool, fw, wire>>

-----------------------------------------------------------------------------
Init ==
    /\ plan \in Plans
    /\ svc = [s \in Services |-> IF s \in plan.live THEN NewService(FirstPolicy[s]) ELSE NoService]
    /\ child = [s \in Services |-> "none"]
    /\ public = [s \in Services |-> FALSE]
    /\ pool = NoPool
    /\ fw = [id |-> 0, rules |-> Nothing, last |-> 0]
    /\ wire = {}
    /\ work = Idle

(* What the worker does when it is not idle, without a fault. *)
PolicyStep ==
    \/ NothingDesired \/ PolicyRefused \/ ObserveAppliedAbsence \/ PromotePending
    \/ StageCreate \/ RetireRejectedCreate \/ CreateAmbiguous \/ IssueCreate
    \/ PolicyIsReady \/ PutUnresolved \/ StageUpdate \/ UpdateAmbiguous \/ IssueUpdate
    \/ AuthorizeMutation \/ RejectUndispatched \/ SendMutation
    \/ CreateSucceeds \/ UpdateSucceeds \/ MutationFails

DeleteStep ==
    \/ DeleteRefused \/ ObserveDeleted \/ RecordCleanupSeen \/ AwaitDelete \/ IssueDelete
    \/ AuthorizeDelete \/ SendDelete \/ DeleteAnswered

ServeStep ==
    \/ EnsureNodePool \/ MarkMaterialized \/ EnsureChild \/ RestageFence
    \/ ServeUnprotected \/ ServeWaits \/ ServeUncovered \/ ServeCovered
    \/ AuthorizeDatapath \/ PublishDatapath \/ MarkStaged \/ PublishStatus

CleanupStep ==
    \/ DropChild \/ OwnerRemains \/ LeaveShard \/ QuarantineEnds \/ LastOwner \/ DeleteNodePool
    \/ MarkProven \/ RemovePoolFinalizer \/ RemoveServiceFinalizer

CloseStep(t) == CloseChild(t) \/ ClosePublic(t) \/ ClearMarkers(t)

Sync(s) ==
    \/ SyncMetadata(s) \/ SyncRestage(s) \/ SyncDrain(s) \/ SyncServe(s)
    \/ SyncCleanup(s) \/ SyncQuarantine(s)

FaultStep == MutationUnanswered \/ MutationNotSent \/ MarkCreateRejected \/ DeleteUnanswered \/ Crash

Next ==
    \/ \E s \in Services : Sync(s)
    \/ \E t \in Services : CloseStep(t)
    \/ PolicyStep
    \/ DeleteStep
    \/ ServeStep
    \/ CleanupStep
    \/ \E m \in wire : Commit(m)
    \/ CapacityDrains
    \/ FaultStep
    \/ \E s \in Services : Delete(s)
    \/ \E s \in Services : \E p \in plan.to : Edit(s, p)
    \/ PoolDeleted
    \/ FirewallVanishes

Spec == Init /\ [][Next]_vars

Fairness ==
    /\ WF_vars(PolicyStep \/ DeleteStep \/ ServeStep \/ CleanupStep
               \/ \E t \in Services : CloseStep(t))
    /\ \A s \in Services : SF_vars(Sync(s))
    /\ SF_vars(IssueDelete)
    /\ WF_vars(\E m \in wire : Commit(m))
    /\ WF_vars(CapacityDrains)

FairSpec == Spec /\ Fairness

-----------------------------------------------------------------------------
(* Writes that can still change the firewall when they commit. *)
Writes == {m \in wire : m.op # "delete" /\ (m.op = "create" \/ m.id = fw.id)}

(* The issued receipt admits one write of the firewall at a time: two        *)
(* creates, two PUTs, or a create beside an existing firewall are never      *)
(* outstanding together, so no late write overwrites a newer policy, through *)
(* unanswered requests, crashes and the retirement of a rejected create      *)
(* (reconcileShardFirewallPolicy).                                           *)
OneWrite == Cardinality(Writes) <= 1 /\ (Listed => \A m \in wire : m.op # "create")

(* "source-range tightening [is] an old-policy -> closed -> new-policy       *)
(* transition, even across controller crashes"                               *)
(* (desiredStagedShardFirewallPolicy): while the child of a Service is open, *)
(* the firewall admits for it the policy it was opened with, or nothing.     *)
OpenedAs(s) == IF svc[s].staged # NoPolicy THEN svc[s].staged ELSE svc[s].restage

ClosedBetweenPolicies == \A s \in Services :
    child[s] = "open" => fw.rules[s] \in {NoPolicy, OpenedAs(s)}

(* When the last finalizer of a Service is removed (cleanupAggregateService) *)
(* its child is deleted, the shared firewall admits nothing for it, and no   *)
(* write that can still commit would bring its rules back.                   *)
GoneIsWithdrawn == \A s \in Services : svc[s].life = "gone" =>
    /\ child[s] = "none" /\ fw.rules[s] = NoPolicy
    /\ \A m \in Writes : m.rules[s] = NoPolicy

(* The NodePool is the only record of its firewall: once its finalizer is    *)
(* removed the firewall is gone from the cloud and no create of it can still *)
(* commit (deleteAggregateShardFirewall, removePoolFinalizer).               *)
NoOrphan == pool.life = "none" => ~Listed /\ \A m \in wire : m.op # "create"

(* A write was issued and neither it nor its failure is ever seen: the       *)
(* receipt refuses every later write, by design.                             *)
Stuck == <>[]pool.issued

(* Every valid Service is published in the end, with the policy it has,      *)
(* through edits, a NodePool or firewall deleted by others, refused and      *)
(* unanswered requests and crashes, unless a write stays unresolved (sync).  *)
ServicesServe == Stuck \/ \A s \in Services :
    <>[](svc[s].life = "live" /\ Valid(s) => public[s] /\ child[s] = "open" /\ fw.rules[s] = svc[s].want)

(* The cleanup of a deleted Service ends, alone or beside other Services of  *)
(* the shard that stay or are deleted too, unless a write stays unresolved   *)
(* (cleanupAggregateService).                                                *)
CleanupEnds == Stuck \/ \A s \in Services : (svc[s].life = "deleting") ~> (svc[s].life = "gone")
=============================================================================
