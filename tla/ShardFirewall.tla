---------------------------- MODULE ShardFirewall ----------------------------
(***************************************************************************)
(* The aggregate firewall of one node load balancer shard.  Its rules are    *)
(* the union of what the shard's Services publish, so a Service that joins,  *)
(* edits its policy or leaves is one PUT of the whole rule set.  The shard's *)
(* NodePool carries the receipts: the applied policy and its ledger (which   *)
(* Service contributes which policy), the pending one and whether a create   *)
(* or a PUT of it was issued, and the receipts of the delete.                *)
(*                                                                         *)
(* reconcileShardFirewallPolicy and deleteAggregateShardFirewall are given   *)
(* here one action per outcome; NodeLB gives the passes that call them.  The *)
(* cloud is one firewall, whose identity is never reused, and the requests   *)
(* on the wire, which commit late or never.                                  *)
(***************************************************************************)
EXTENDS Naturals, FiniteSets

CONSTANTS Services, Policies, FirstPolicy, Confirmations, Plans

(* What may happen in a behaviour: the Services that exist, what they may be *)
(* edited to and how often, which of them may be deleted, what somebody else *)
(* may delete, and the faults.                                               *)
PlanType == [live : SUBSET Services, edits : Nat, to : SUBSET Policies,
             deletes : SUBSET Services, outside : SUBSET {"pool", "firewall"}, faults : Nat]

ASSUME ShardAssumption == Plans \subseteq PlanType /\ Confirmations \in Nat \ {0}

VARIABLES
    plan,     \* the plan, and what is left of its edits and faults
    svc,      \* each Service: its life, policy, finalizer and annotations
    child,    \* its Cilium Service: none, closed (no ingress) or open
    public,   \* whether its own status names the addresses
    pool,     \* the shard's NodePool and the receipts on it
    fw,       \* the firewall in the cloud
    wire,     \* requests sent and not committed
    work      \* where the one worker stands

kube == <<svc, child, public>>
vars == <<plan, kube, pool, fw, wire, work>>

NoPolicy == "none"
Invalid == "invalid"
Nothing == [s \in Services |-> NoPolicy]

(* The policy hash of a rule set: which Service a rule is for is not in it. *)
Hash(l) == {l[s] : s \in Services} \ {NoPolicy}

NoPool == [life |-> "none", vms |-> FALSE, uuid |-> 0, applied |-> Nothing, pending |-> Nothing,
           issued |-> FALSE, rejected |-> FALSE, absent |-> 0,
           seen |-> 0, target |-> 0, deleting |-> FALSE, gone |-> 0]

(* What reconcileShardFirewallPolicy returns: whether a firewall with an     *)
(* applied policy is known, its ledger, PolicyReady, MutationIssued, and     *)
(* whether there is an error.                                                *)
Outcome(have, ledger, ready, sent, failed) ==
    [have |-> have, ledger |-> ledger, ready |-> ready, sent |-> sent, failed |-> failed]

NoOutcome == Outcome(FALSE, Nothing, FALSE, FALSE, FALSE)
Failed == [NoOutcome EXCEPT !.failed = TRUE]

Idle == [pc |-> "idle", s |-> "none", goal |-> "none", pol |-> NoPolicy, todo |-> {},
         clear |-> {}, then |-> "idle", des |-> Nothing, op |-> "none", n |-> 0, out |-> NoOutcome]

At(pc) == work.pc = pc
Goto(pc) == work' = IF pc = "idle" THEN Idle ELSE [work EXCEPT !.pc = pc]

(* Withdraw the datapaths of todo, drop the markers of clear, go on at then. *)
Rest(w) ==
    IF w.todo \cup w.clear # {} THEN w
    ELSE IF w.then = "idle" THEN Idle ELSE [w EXCEPT !.pc = w.then]

Close(todo, clear, then) ==
    work' = Rest([work EXCEPT !.pc = "close", !.todo = todo, !.clear = clear, !.then = then])

(* Every Service with the finalizer and this shard's annotation. *)
References == {s \in Services : svc[s].fin}

(* No Node is eligible and no Service of the shard is published any more. *)
FailShardClosed == Close(References, {}, "idle")

Fault == plan.faults > 0 /\ plan' = [plan EXCEPT !.faults = @ - 1]

-----------------------------------------------------------------------------
(* The desired policy. *)

Valid(s) == svc[s].want # Invalid

(* Mutant: any staged policy will do. *)
StagedOnce(s) == svc[s].active /\ svc[s].staged # NoPolicy

(* The datapath is authorized, and staged with the policy the Service has. *)
Staged(s) == svc[s].active /\ svc[s].staged = svc[s].want

(* It is being restaged and is closed: neither status names an address. *)
Restaging(s) == svc[s].restage = svc[s].want /\ ~public[s] /\ child[s] = "closed"

Member(s) == svc[s].life = "live" /\ svc[s].fin /\ Valid(s) /\ (Staged(s) \/ Restaging(s))

Desired == [s \in Services |-> IF Member(s) THEN svc[s].want ELSE NoPolicy]

(* The applied ledger holds the Service's policy as it is now. *)
Covers(ledger, s) == Valid(s) /\ ledger[s] = svc[s].want

-----------------------------------------------------------------------------
(* The receipts, and what the list shows. *)

Resolved(p) == [p EXCEPT !.pending = Nothing, !.issued = FALSE, !.rejected = FALSE, !.absent = 0]

(* The pending policy is the applied one. *)
Promoted(p) == [Resolved(p) EXCEPT !.uuid = fw.id, !.applied = p.pending]

(* Only the NodePool is left of what was recorded. *)
Forgotten(p) == [NoPool EXCEPT !.life = p.life, !.vms = p.vms]

(* The firewall is listed: observations of its absence are void. *)
Cleared(p) == [p EXCEPT !.absent = 0]

(* One more spaced observation of absence is enough. *)
Confirmed(n) == n + 1 >= Confirmations

Listed == fw.id # 0
Live == pool.life = "live"
Pending == pool.pending # Nothing

Reconciling == At("policy") /\ Desired # Nothing
Anchored == Reconciling /\ Live

Return(out) == work' = [work EXCEPT !.pc = "decide", !.out = out, !.des = Nothing, !.op = "none", !.n = 0]
Ready(ledger) == Outcome(TRUE, ledger, TRUE, FALSE, FALSE)
Known(failed) == Outcome(TRUE, pool.applied, FALSE, FALSE, failed)

(* The firewall by the applied identity, or by the shard's stable name. *)
Current == Anchored /\ Listed /\ pool.uuid \in {0, fw.id}
Visible == Current /\ Pending /\ Hash(fw.rules) = Hash(pool.pending)
Applied == Current /\ ~Visible /\ pool.uuid # 0 /\ Hash(fw.rules) = Hash(pool.applied)
Adoptable == Current /\ ~Visible /\ pool.uuid = 0 /\ Hash(fw.rules) = Hash(Desired)
Absent == Anchored /\ ~Listed /\ pool.uuid = 0

(* No Service is staged: there is nothing to reconcile. *)
NothingDesired ==
    /\ At("policy") /\ Desired = Nothing
    /\ Return(NoOutcome)
    /\ UNCHANGED <<plan, kube, pool, fw, wire>>

(* The NodePool is no live anchor, or the firewall is not the recorded one,  *)
(* or its rules are neither the applied nor the pending policy.              *)
PolicyRefused ==
    /\ Reconciling
    /\ ~Live \/ (Listed /\ ~(Visible \/ Applied \/ Adoptable))
    /\ Return(Failed)
    /\ UNCHANGED <<plan, kube, pool, fw, wire>>

(* The applied firewall is not listed.  Once that is proved its policy and   *)
(* any PUT of it are forgotten: a PUT cannot bring a firewall back.          *)
ObserveAppliedAbsence ==
    /\ Anchored /\ ~Listed /\ pool.uuid # 0
    /\ pool' = IF Confirmed(pool.absent) THEN Forgotten(pool) ELSE [pool EXCEPT !.absent = @ + 1]
    /\ Return(NoOutcome)
    /\ UNCHANGED <<plan, kube, fw, wire>>

(* The listed rules are the pending policy, or nothing was recorded and they *)
(* are the desired one.                                                      *)
PromotePending ==
    /\ Visible \/ Adoptable
    /\ LET ledger == IF Visible THEN pool.pending ELSE Desired IN
       /\ pool' = [Resolved(pool) EXCEPT !.uuid = fw.id, !.applied = ledger]
       /\ Return([Ready(ledger) EXCEPT !.ready = ledger = Desired])
    /\ UNCHANGED <<plan, kube, fw, wire>>

-----------------------------------------------------------------------------
(* There is no firewall: create it. *)

Rejected == pool.issued /\ pool.rejected

StageCreate ==
    /\ Absent /\ ~pool.issued /\ pool.pending # Desired
    /\ pool' = [pool EXCEPT !.pending = Desired, !.absent = 0]
    /\ Return(NoOutcome)
    /\ UNCHANGED <<plan, kube, fw, wire>>

(* The provider refused the create.  Spaced lists without the name prove it. *)
RetireRejectedCreate ==
    /\ Absent /\ Rejected
    /\ pool' = IF Confirmed(pool.absent)
               THEN [pool EXCEPT !.issued = FALSE, !.rejected = FALSE, !.absent = 0]
               ELSE [pool EXCEPT !.absent = @ + 1]
    /\ Return([NoOutcome EXCEPT !.failed = ~Confirmed(pool.absent)])
    /\ UNCHANGED <<plan, kube, fw, wire>>

(* An issued create that is not visible is never repeated. *)
CreateAmbiguous ==
    /\ Absent /\ pool.issued /\ ~pool.rejected
    /\ Return(Failed)
    /\ UNCHANGED <<plan, kube, pool, fw, wire>>

Issue(op) ==
    /\ pool' = [pool EXCEPT !.issued = TRUE]
    /\ work' = [work EXCEPT !.pc = "authorize", !.op = op, !.des = Desired]
    /\ UNCHANGED <<plan, kube, fw, wire>>

IssueCreate == Absent /\ ~pool.issued /\ pool.pending = Desired /\ Issue("create")

-----------------------------------------------------------------------------
(* There is one: update it. *)

InFlight == pool.issued /\ Hash(pool.pending) # Hash(Desired)

PolicyIsReady ==
    /\ Applied /\ pool.applied = Desired /\ ~InFlight
    /\ Return(Ready(Desired))
    /\ pool' = Cleared(pool)
    /\ UNCHANGED <<plan, kube, fw, wire>>

(* The applied policy is the desired one, but a PUT of another may commit. *)
PutUnresolved ==
    /\ Applied /\ pool.applied = Desired /\ InFlight
    /\ Return(Known(TRUE))
    /\ pool' = Cleared(pool)
    /\ UNCHANGED <<plan, kube, fw, wire>>

Behind == Applied /\ pool.applied # Desired

(* The desired policy becomes the pending one; when the rules are the same   *)
(* only the ledger is written.                                               *)
StageUpdate ==
    /\ Behind /\ ~pool.issued /\ pool.pending # Desired
    /\ pool' = IF ~Pending /\ Hash(pool.applied) = Hash(Desired)
               THEN [Cleared(pool) EXCEPT !.applied = Desired]
               ELSE [Cleared(pool) EXCEPT !.pending = Desired]
    /\ Return(Known(FALSE))
    /\ UNCHANGED <<plan, kube, fw, wire>>

(* No PUT follows an issued one before its policy is visible. *)
UpdateAmbiguous ==
    /\ Behind /\ pool.issued
    /\ Return(Known(TRUE))
    /\ pool' = Cleared(pool)
    /\ UNCHANGED <<plan, kube, fw, wire>>

(* Mutant: a pending PUT is not awaited. *)
IssueUpdateAgain == Behind /\ pool.pending = Desired /\ Issue("put")

IssueUpdate == Behind /\ ~pool.issued /\ pool.pending = Desired /\ Issue("put")

-----------------------------------------------------------------------------
(* The final authority before the request, the request and its reply. *)

(* Requests that are alike are told apart by how many were already sent. *)
Request == [op |-> work.op, id |-> pool.uuid, rules |-> work.des, n |-> work.n]

(* The receipt and the policy assembled from the live Services are unchanged *)
(* and the cloud is as it was.                                               *)
Authority ==
    /\ Live /\ pool.issued /\ pool.pending = work.des
    /\ Desired = work.des
    /\ fw.id = pool.uuid
    /\ Listed => Hash(fw.rules) = Hash(pool.applied)

AuthorizeMutation ==
    /\ At("authorize") /\ Authority
    /\ Goto("send")
    /\ UNCHANGED <<plan, kube, pool, fw, wire>>

(* The list shows the policy that was to be written. *)
Readback == Listed /\ pool.uuid \in {0, fw.id} /\ Hash(fw.rules) = Hash(work.des)

(* Nothing was sent: the receipt is staged again, unless the firewall to be  *)
(* created is there already.                                                 *)
RejectUndispatched ==
    /\ At("authorize") /\ ~Authority
    /\ IF work.op = "create" /\ Readback
       THEN pool' = Promoted(pool) /\ Return(Ready(work.des))
       ELSE /\ pool' = [pool EXCEPT !.issued = FALSE]
            /\ Return(IF work.op = "put" THEN Known(TRUE) ELSE Failed)
    /\ UNCHANGED <<plan, kube, fw, wire>>

SendMutation ==
    /\ At("send")
    /\ LET n == Cardinality({m \in wire : m.op # "delete"}) IN
       /\ wire' = wire \cup {[Request EXCEPT !.n = n]}
       /\ work' = [work EXCEPT !.pc = "reply", !.n = n]
    /\ UNCHANGED <<plan, kube, pool, fw>>

(* A committed create is promoted from the list. *)
CreateSucceeds ==
    /\ At("reply") /\ work.op = "create" /\ Request \notin wire /\ Readback
    /\ pool' = Promoted(pool)
    /\ Return(Ready(work.des))
    /\ UNCHANGED <<plan, kube, fw, wire>>

(* A committed PUT is left to the next pass. *)
UpdateSucceeds ==
    /\ At("reply") /\ work.op = "put" /\ Request \notin wire /\ Readback
    /\ Return([Known(FALSE) EXCEPT !.sent = TRUE])
    /\ UNCHANGED <<plan, kube, pool, fw, wire>>

(* The outcome is unknown.  The list may show it; otherwise the receipt      *)
(* stays issued, and the request may commit later or not at all.             *)
MutationUnanswered ==
    /\ At("reply")
    /\ Fault
    /\ wire' \in {wire, wire \ {Request}}
    /\ IF Readback
       THEN pool' = Promoted(pool) /\ Return(Ready(work.des))
       ELSE /\ UNCHANGED pool
            /\ Return(IF work.op = "put" THEN [Known(TRUE) EXCEPT !.sent = TRUE] ELSE Failed)
    /\ UNCHANGED <<kube, fw>>

(* The PUT failed because the firewall is gone. *)
MutationFails ==
    /\ At("reply") /\ Request \notin wire /\ ~Readback
    /\ Return(IF work.op = "put" THEN [Known(TRUE) EXCEPT !.sent = TRUE] ELSE Failed)
    /\ UNCHANGED <<plan, kube, pool, fw, wire>>

(* The client knows that the request did not leave. *)
MutationNotSent ==
    /\ At("reply") /\ Request \in wire
    /\ Fault
    /\ wire' = wire \ {Request}
    /\ pool' = [pool EXCEPT !.issued = FALSE]
    /\ Return(IF work.op = "put" THEN Known(TRUE) ELSE Failed)
    /\ UNCHANGED <<kube, fw>>

(* The provider refused the create and the name is absent. *)
MarkCreateRejected ==
    /\ At("reply") /\ work.op = "create" /\ Request \in wire /\ ~Listed
    /\ Fault
    /\ wire' = wire \ {Request}
    /\ pool' = [pool EXCEPT !.rejected = TRUE, !.absent = 0]
    /\ Return(Failed)
    /\ UNCHANGED <<kube, fw>>

-----------------------------------------------------------------------------
(* Deleting the firewall of a NodePool that is going away. *)

Identity == IF pool.target # 0 THEN pool.target ELSE IF pool.uuid # 0 THEN pool.uuid ELSE pool.seen

(* The delete is proved, or this pass ends without it. *)
DeleteProved ==
    IF work.goal = "drain"
    THEN LET live == {s \in References : svc[s].life = "live"} IN Close(live, live, "prove")
    ELSE Goto("prove")

DeletePassEnds == IF work.goal = "drain" THEN FailShardClosed ELSE Goto("idle")

(* Mutant: an issued create that is not seen is forgotten. *)
NeverOutstanding == FALSE

(* A create was issued and never seen: it may still commit. *)
CreateOutstanding == pool.issued /\ ~pool.rejected /\ Identity = 0

DeleteRefused ==
    /\ At("delete")
    /\ (~Listed /\ CreateOutstanding) \/ (Listed /\ Identity \notin {0, fw.id})
    /\ DeletePassEnds
    /\ UNCHANGED <<plan, kube, pool, fw, wire>>

ObserveDeleted ==
    /\ At("delete") /\ ~Listed /\ ~CreateOutstanding
    /\ IF Confirmed(pool.gone)
       THEN pool' = Forgotten(pool) /\ DeleteProved
       ELSE pool' = [pool EXCEPT !.target = Identity, !.gone = @ + 1] /\ DeletePassEnds
    /\ UNCHANGED <<plan, kube, fw, wire>>

(* The firewall of an issued create is recorded before it is deleted. *)
RecordCleanupSeen ==
    /\ At("delete") /\ Listed /\ Identity = 0
    /\ pool' = [pool EXCEPT !.seen = fw.id, !.gone = 0]
    /\ DeletePassEnds
    /\ UNCHANGED <<plan, kube, fw, wire>>

(* A delete already issued is waited for until a resend is due. *)
AwaitDelete ==
    /\ At("delete") /\ Listed /\ Identity = fw.id /\ pool.deleting
    /\ pool' = [pool EXCEPT !.gone = 0]
    /\ DeletePassEnds
    /\ UNCHANGED <<plan, kube, fw, wire>>

IssueDelete ==
    /\ At("delete") /\ Listed /\ Identity = fw.id
    /\ pool' = [pool EXCEPT !.target = fw.id, !.deleting = TRUE, !.gone = 0]
    /\ work' = [work EXCEPT !.pc = "authorizeDelete", !.des = fw.rules]
    /\ UNCHANGED <<plan, kube, fw, wire>>

(* The firewall changed after the delete was issued: nothing is sent. *)
AuthorizeDelete ==
    /\ At("authorizeDelete")
    /\ IF fw.id = pool.target /\ fw.rules = work.des
       THEN Goto("sendDelete") /\ UNCHANGED pool
       ELSE DeletePassEnds /\ pool' = [pool EXCEPT !.deleting = FALSE]
    /\ UNCHANGED <<plan, kube, fw, wire>>

DeleteRequest == [op |-> "delete", id |-> pool.target, rules |-> Nothing, n |-> 0]

SendDelete ==
    /\ At("sendDelete")
    /\ wire' = wire \cup {DeleteRequest}
    /\ Goto("deleteReply")
    /\ UNCHANGED <<plan, kube, pool, fw>>

(* Whatever the answer, absence is for a later pass to prove. *)
DeleteAnswered ==
    /\ At("deleteReply") /\ DeleteRequest \notin wire
    /\ DeletePassEnds
    /\ UNCHANGED <<plan, kube, pool, fw, wire>>

(* No answer: the request stays on the wire or is lost; or it never left. *)
DeleteUnanswered ==
    /\ At("deleteReply") /\ DeleteRequest \in wire
    /\ Fault
    /\ \/ wire' \in {wire, wire \ {DeleteRequest}} /\ UNCHANGED pool
       \/ wire' = wire \ {DeleteRequest} /\ pool' = [pool EXCEPT !.deleting = FALSE]
    /\ DeletePassEnds
    /\ UNCHANGED <<kube, fw>>

-----------------------------------------------------------------------------
(* The cloud. *)

(* A create adds a firewall; a PUT or a delete reaches only its identity. *)
Commit(m) ==
    /\ wire' = wire \ {m}
    /\ fw' = CASE m.op = "create" /\ ~Listed -> [id |-> fw.last + 1, rules |-> m.rules, last |-> fw.last + 1]
              [] m.op = "put" /\ fw.id = m.id -> [fw EXCEPT !.rules = m.rules]
              [] m.op = "delete" /\ fw.id = m.id -> [fw EXCEPT !.id = 0, !.rules = Nothing]
              [] OTHER -> fw
    /\ UNCHANGED <<plan, kube, pool, work>>

(* Somebody deletes the firewall in the console. *)
FirewallVanishes ==
    /\ "firewall" \in plan.outside /\ Listed
    /\ plan' = [plan EXCEPT !.outside = @ \ {"firewall"}]
    /\ fw' = [fw EXCEPT !.id = 0, !.rules = Nothing]
    /\ UNCHANGED <<kube, pool, wire, work>>
=============================================================================
