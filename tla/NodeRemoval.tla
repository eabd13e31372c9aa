----------------------------- MODULE NodeRemoval -----------------------------
(***************************************************************************)
(* Removing a worker: CloudProvider.delete and Adapter.DeleteVM destroy the  *)
(* VM of a deleted NodeClaim (the target), its floating IP and its relation  *)
(* to the shared base firewall, in that order, each under a receipt of the   *)
(* removal journal (RemovalJournal) or of the firewall ledger (FirewallSlot) *)
(* and each proved absent before the next.  Meanwhile another NodeClaim (the *)
(* newcomer) is being launched and wants its VM on the same firewall.        *)
(*                                                                         *)
(* Two passes may overlap: Karpenter's lifecycle controller and the          *)
(* termination recovery controller both call Delete.  A pass may be dropped  *)
(* anywhere (a crash, a timeout, a failed read) and begins again.  A request *)
(* is on the wire until it commits or is lost; a pass does not learn which.  *)
(* A spaced absence proof (three reads) outlasts the requests that were sent *)
(* before it, unless plan.late.                                             *)
(***************************************************************************)
EXTENDS RemovalJournal, FirewallSlot, FiniteSets

CONSTANTS Plans, MaxIssue

ASSUME MaxIssueAssumption == MaxIssue \in Nat \ {0}
ASSUME PlansAssumption == \A q \in Plans : q.newcomer \in BOOLEAN

Passes == {"karpenter", "recovery"}
Requests == {"vm", "unassign", "delete", "detach", "assign"}

(* Where a pass stands before the proof and before the dispatch of a request. *)
Proving == [vm |-> "proveVM", unassign |-> "proveUnassign", delete |-> "proveDelete"]
Sending == [vm |-> "sendVM", unassign |-> "sendUnassign", delete |-> "sendDelete",
            detach |-> "sendDetach"]

VARIABLES
    plan,      \* what may happen in this behaviour
    claim,     \* the target NodeClaim: its finalizer, cleanup marker, absence observation
    journal,   \* its removal journal
    slot,      \* the ledger's slot of the base firewall
    launch,    \* the newcomer's assignment receipt and where its launch stands
    vm, fip,   \* the target's VM; its address: assigned, free, none, other (somebody else's)
    rel,       \* the relations of the base firewall
    wire,      \* requests that were sent and have not committed
    hit,       \* a request of the target changed somebody else's address
    pass,      \* the DeleteVM calls
    faults     \* how many more crashes, failed proofs and lost requests there are

cloud == <<vm, fip, rel, hit>>
vars == <<plan, claim, journal, slot, launch, vm, fip, rel, wire, hit, pass, faults>>

NoDetach == [held |-> FALSE, fresh |-> FALSE, sent |-> FALSE, phase |-> "none", issue |-> 0]
Idle == [pc |-> "idle", fip |-> FALSE, auth |-> Inactive, dt |-> NoDetach]

Init ==
    /\ plan \in Plans
    /\ claim = [exists |-> TRUE, term |-> TRUE, marker |-> FALSE, obs |-> "none"]
    /\ journal = Ready
    /\ slot = Empty
    /\ launch = [exists |-> plan.newcomer, pc |-> "idle", phase |-> "issued", issue |-> 1]
    /\ vm = "live" /\ fip = "assigned" /\ rel = {"target"}
    /\ wire = {} /\ hit = FALSE
    /\ pass = [p \in Passes |-> Idle]
    /\ faults = plan.faults

At(p, pc) == pass[p].pc = pc
Goto(p, pc) == pass' = [pass EXCEPT ![p].pc = pc]
Settled(p, pc) == pass' = [pass EXCEPT ![p].pc = pc, ![p].auth = Inactive]
Fail(p) == pass' = [pass EXCEPT ![p] = Idle]
Send(r) == wire' = wire \cup {r}

(* A fault is taken from the budget. *)
Fault == faults > 0 /\ faults' = faults - 1
Proof(holds) == IF holds THEN Fault ELSE UNCHANGED faults

(* Nothing of these kinds is in flight or about to be sent by another pass. *)
Quiet(p, kinds) ==
    \/ plan.late
    \/ /\ wire \cap kinds = {}
       /\ \A q \in Passes \ {p}, k \in kinds : ~At(q, Sending[k])

----------------------------------------------------------------------------
(* What the adapter reads: each is several indexes that must agree.          *)

(* Exact GET, VM list and network list all omit the VM, or an exact          *)
(* tombstone is shown. *)
VMAbsent == vm = "gone"

(* The canonical VM still carries the claim's whole ownership. *)
LiveTarget == vm = "live"

(* The exact-address GET and the unfiltered inventory agree. *)
Shown(state) == fip = state

(* The named, owned address of a live VM. *)
OwnedAddress == Shown("assigned")

(* An orphaned address matches the durable identity, assigned or not. *)
OrphanAddress == Shown("assigned") \/ Shown("free")

(* The relation collection names the target's VM. *)
RelationShown == "target" \in rel

(* The reads that follow a receipt and precede its request. *)
RemovalTarget(state) == VMAbsent /\ Shown(state)
DetachTarget == VMAbsent /\ RelationShown

----------------------------------------------------------------------------
(* The removal journal, as the adapter calls it.                            *)

(* authorize(present = TRUE): a fresh receipt, the receipt already issued,   *)
(* or an error that ends the pass.                                          *)
Authorize(p, op, issued, pending) ==
    \/ /\ claim.exists /\ MayIssue(journal, op) /\ journal.issue < MaxIssue
       /\ journal' = Issue(journal, op)
       /\ pass' = [pass EXCEPT ![p].pc = issued,
                               ![p].auth = [Fence(journal') EXCEPT !.allow = TRUE]]
    \/ /\ claim.exists /\ Pending(journal, op)
       /\ pass' = [pass EXCEPT ![p].pc = pending, ![p].auth = Fence(journal)]
       /\ UNCHANGED journal
    \/ /\ ~claim.exists \/ (~MayIssue(journal, op) /\ ~Pending(journal, op))
       /\ Fail(p) /\ UNCHANGED journal

(* observe: nothing without an unsettled receipt; an error if the stored     *)
(* receipt is no longer the caller's.                                       *)
Observe(p, f, next) ==
    IF f.phase \in {"none", "observed"} THEN Settled(p, next) /\ UNCHANGED journal
    ELSE IF claim.exists /\ CanFinish(journal, f, "observed")
         THEN journal' = Finished(journal, "observed") /\ Settled(p, next)
         ELSE Fail(p) /\ UNCHANGED journal

(* reject: this invocation holds the issue and has not sent the request. *)
Reject(p) ==
    /\ journal' = IF claim.exists /\ CanFinish(journal, pass[p].auth, "rejected")
                  THEN Finished(journal, "rejected") ELSE journal
    /\ Fail(p)

----------------------------------------------------------------------------
(* CloudProvider.delete: the marker of an earlier converged delete and one   *)
(* 404 are enough; otherwise the whole of DeleteVM runs.                     *)
Enter(p) ==
    /\ At(p, "enter")
    /\ Goto(p, IF claim.marker /\ VMAbsent THEN "returned" ELSE "read")
    /\ UNCHANGED <<plan, faults, claim, journal, slot, launch, cloud, wire>>

(* The VM is there: its owned address must be there too. *)
ReadLive(p) ==
    /\ At(p, "read") /\ ~VMAbsent
    /\ IF OwnedAddress
       THEN pass' = [pass EXCEPT ![p].pc = "authorizeVM", ![p].fip = TRUE]
       ELSE Fail(p)
    /\ UNCHANGED <<plan, faults, claim, journal, slot, launch, cloud, wire>>

(* The journal holds the observed DELETE of the address. *)
DeleteOnRecord == Archived(journal)

(* The number is another allocation, made after that DELETE was issued. *)
Reallocated == Shown("other") /\ DeleteOnRecord

(* The address of an absent VM is gone: seen absent, once if its DELETE is   *)
(* on record and three times otherwise, or reallocated. *)
OrphanGone(p) ==
    \/ Shown("none") /\ (DeleteOnRecord \/ Quiet(p, {"unassign", "delete"}))
    \/ Reallocated

(* The VM is absent from every index (a spaced proof): an orphaned address   *)
(* is looked for by its durable identity.                                    *)
ReadGone(p) ==
    /\ At(p, "read") /\ VMAbsent
    /\ \/ /\ OrphanAddress
          /\ pass' = [pass EXCEPT ![p].pc = "recallVM", ![p].fip = TRUE]
       \/ /\ OrphanGone(p)
          /\ pass' = [pass EXCEPT ![p].pc = "recallVM", ![p].fip = FALSE]
       \/ Shown("other") /\ ~Reallocated /\ Fail(p)
    /\ UNCHANGED <<plan, faults, claim, journal, slot, launch, cloud, wire>>

RecallVM(p) ==
    /\ At(p, "recallVM")
    /\ pass' = [pass EXCEPT ![p].pc = "absent", ![p].auth = Recall(journal, "vm")]
    /\ UNCHANGED <<plan, faults, claim, journal, slot, launch, cloud, wire>>

AuthorizeVM(p) ==
    /\ At(p, "authorizeVM")
    /\ Authorize(p, "vm", "proveVM", "proveVM")
    /\ UNCHANGED <<plan, faults, claim, slot, launch, cloud, wire>>

(* A fresh issue proves its target once more and is rejected if it cannot;   *)
(* an inherited issue is sent again once three spaced proofs still find the  *)
(* VM, and is left alone if they do not.                                     *)
ProveVM(p) ==
    /\ At(p, "proveVM")
    /\ \/ LiveTarget /\ Goto(p, "sendVM") /\ UNCHANGED <<journal, faults>>
       \/ pass[p].auth.allow /\ Proof(LiveTarget) /\ Reject(p)
       \/ /\ ~pass[p].auth.allow /\ ~LiveTarget /\ Goto(p, "absent")
          /\ UNCHANGED <<journal, faults>>
    /\ UNCHANGED <<plan, claim, slot, launch, cloud, wire>>

SendVM(p) ==
    /\ At(p, "sendVM") /\ Send("vm") /\ Goto(p, "absent")
    /\ UNCHANGED <<plan, faults, claim, journal, slot, launch, cloud>>

(* Core absence, spaced, and its receipt. *)
Absent(p) ==
    /\ At(p, "absent") /\ VMAbsent
    /\ Observe(p, pass[p].auth, IF pass[p].fip THEN "address" ELSE "confirm")
    /\ UNCHANGED <<plan, faults, claim, slot, launch, cloud, wire>>

----------------------------------------------------------------------------
(* deleteOwnedFloatingIPWithProof: one loop over what the inventory shows.   *)

AddressAssigned(p) ==
    /\ At(p, "address") /\ Shown("assigned") /\ ~Pending(journal, "unassign")
    /\ Authorize(p, "unassign", "proveUnassign", "address")
    /\ UNCHANGED <<plan, faults, claim, slot, launch, cloud, wire>>

(* Mutant: a visible free address settles the unassignment at first sight. *)
AddressFreeAtOnce(p) ==
    /\ At(p, "address") /\ Shown("free")
    /\ Observe(p, Recall(journal, "unassign"), "authorizeDelete")
    /\ UNCHANGED <<plan, faults, claim, slot, launch, cloud, wire>>

(* An unsettled unassignment is observed after three reads that agree; then  *)
(* the DELETE is asked for. *)
AddressFree(p) ==
    LET f == Recall(journal, "unassign") IN
    /\ At(p, "address") /\ Shown("free")
    /\ f.phase \in {"none", "observed"} \/ Quiet(p, {"unassign"})
    /\ ~Pending(journal, "delete")
    /\ Observe(p, f, "authorizeDelete")
    /\ UNCHANGED <<plan, faults, claim, slot, launch, cloud, wire>>

AuthorizeDelete(p) ==
    /\ At(p, "authorizeDelete")
    /\ Authorize(p, "delete", "proveDelete", "address")
    /\ UNCHANGED <<plan, faults, claim, slot, launch, cloud, wire>>

(* proveFreshFloatingIPRemovalTarget: the VM absent, the address as the      *)
(* request expects it; a proof that fails rejects the issue.                 *)
ProveAddress(p, op, state) ==
    /\ At(p, Proving[op])
    /\ \/ RemovalTarget(state) /\ Goto(p, Sending[op]) /\ UNCHANGED <<journal, faults>>
       \/ Proof(RemovalTarget(state)) /\ Reject(p)
    /\ UNCHANGED <<plan, claim, slot, launch, cloud, wire>>

SendAddress(p, op) ==
    /\ At(p, Sending[op]) /\ Send(op) /\ Settled(p, "address")
    /\ UNCHANGED <<plan, faults, claim, journal, slot, launch, cloud>>

(* Three absences: both receipts are observed, then the loop ends. *)
AddressGone(p) ==
    /\ At(p, "address") /\ Shown("none") /\ Quiet(p, {"unassign", "delete"})
    /\ Observe(p, Recall(journal, "unassign"), "observeDelete")
    /\ UNCHANGED <<plan, faults, claim, slot, launch, cloud, wire>>

ObserveDelete(p) ==
    /\ At(p, "observeDelete")
    /\ Observe(p, Recall(journal, "delete"), "confirm")
    /\ UNCHANGED <<plan, faults, claim, slot, launch, cloud, wire>>

(* The address carries another identity: the pass refuses to touch it. *)
AddressTaken(p) ==
    /\ At(p, "address") /\ Shown("other") /\ Fail(p)
    /\ UNCHANGED <<plan, faults, claim, journal, slot, launch, cloud, wire>>

(* One corroborated read before the firewall: VM gone, no address assigned.  *)
Confirm(p) ==
    /\ At(p, "confirm") /\ VMAbsent /\ ~Shown("assigned") /\ Goto(p, "detach")
    /\ UNCHANGED <<plan, faults, claim, journal, slot, launch, cloud, wire>>

----------------------------------------------------------------------------
(* detachExactFirewallRelationAfterVMDeletion.                              *)

TargetSlotSettled == Terminal(slot, claim.exists, "none")
LaunchSlotSettled == Terminal(slot, launch.exists,
                              IF slot.issue = launch.issue THEN launch.phase ELSE "other")

(* AuthorizeBaseFirewallDetach: the claim's own detach is returned without   *)
(* the right to send; anything else must be settled to be replaced.          *)
AuthorizeDetach(p, pc) ==
    \/ /\ claim.exists
       /\ Owns(slot, "target", "detach") /\ slot.phase \in {"issued", "observed"}
       /\ pass' = [pass EXCEPT ![p].pc = pc,
              ![p].dt = [@ EXCEPT !.held = TRUE, !.phase = slot.phase, !.issue = slot.issue]]
       /\ UNCHANGED slot
    \/ /\ ~(Owns(slot, "target", "detach") /\ slot.phase \in {"issued", "observed"})
       /\ claim.exists
       /\ IF slot.owner = "target" THEN TargetSlotSettled ELSE LaunchSlotSettled
       /\ slot.issue < MaxIssue
       /\ slot' = Taken("target", "detach", slot.issue + 1)
       /\ pass' = [pass EXCEPT ![p].pc = pc,
              ![p].dt = [@ EXCEPT !.held = TRUE, !.fresh = (pc = "detach"),
                                  !.phase = "issued", !.issue = slot'.issue]]
    \/ /\ ~claim.exists \/ (slot.owner = "newcomer" /\ ~LaunchSlotSettled)
       /\ Fail(p) /\ UNCHANGED slot

(* The relation is seen: the slot is asked for. *)
DetachFound(p) ==
    /\ At(p, "detach") /\ RelationShown /\ ~pass[p].dt.held
    /\ AuthorizeDetach(p, "detach")
    /\ UNCHANGED <<plan, faults, claim, journal, launch, cloud, wire>>

FirstDispatch(p) == pass[p].dt.fresh /\ ~pass[p].dt.sent

(* An issued detach is dispatched at once when fresh; otherwise after three  *)
(* reads that still show the relation and a second look at the slot.         *)
DetachDispatch(p) ==
    /\ At(p, "detach") /\ RelationShown
    /\ pass[p].dt.held /\ pass[p].dt.phase = "issued"
    /\ IF FirstDispatch(p) \/ (Owns(slot, "target", "detach") /\ slot.phase = "issued"
                               /\ slot.issue = pass[p].dt.issue)
       THEN Goto(p, "proveDetach") ELSE Fail(p)
    /\ UNCHANGED <<plan, faults, claim, journal, slot, launch, cloud, wire>>

(* rejectUndispatched: only a fresh issue this pass never sent. *)
RejectDetach(p) ==
    /\ slot' = IF FirstDispatch(p)
               THEN SlotFinished(slot, "target", "detach", pass[p].dt.issue, "rejected")
               ELSE slot
    /\ Fail(p)

ProveDetach(p) ==
    /\ At(p, "proveDetach")
    /\ \/ DetachTarget /\ Goto(p, "sendDetach") /\ UNCHANGED <<slot, faults>>
       \/ Proof(DetachTarget) /\ RejectDetach(p)
    /\ UNCHANGED <<plan, claim, journal, launch, cloud, wire>>

SendDetach(p) ==
    /\ At(p, "sendDetach") /\ Send("detach")
    /\ pass' = [pass EXCEPT ![p].pc = "detach", ![p].dt.sent = TRUE]
    /\ UNCHANGED <<plan, faults, claim, journal, slot, launch, cloud>>

(* Three absences: an unheld slot is asked for now, to retire an issue an    *)
(* earlier pass left. *)
DetachGone(p) ==
    /\ At(p, "detach") /\ ~RelationShown /\ Quiet(p, {"detach"})
    /\ IF pass[p].dt.held THEN Goto(p, "observeDetach") /\ UNCHANGED slot
       ELSE AuthorizeDetach(p, "observeDetach")
    /\ UNCHANGED <<plan, faults, claim, journal, launch, cloud, wire>>

ObserveDetach(p) ==
    /\ At(p, "observeDetach")
    /\ slot' = IF pass[p].dt.phase = "issued"
               THEN SlotFinished(slot, "target", "detach", pass[p].dt.issue, "observed")
               ELSE slot
    /\ Goto(p, "converged")
    /\ UNCHANGED <<plan, faults, claim, journal, launch, cloud, wire>>

(* recordTerminalCleanup, best effort: the marker goes into the create-fence *)
(* annotation of the NodeClaim. *)
Converged(p) ==
    /\ At(p, "converged")
    /\ \/ claim' = [claim EXCEPT !.marker = claim.exists] /\ UNCHANGED faults
       \/ Fault /\ UNCHANGED claim
    /\ Goto(p, "returned")
    /\ UNCHANGED <<plan, journal, slot, launch, cloud, wire>>

(* A crash, a timeout or a failed read drops a pass; what it sent stays. *)
Abandon(p) ==
    /\ ~At(p, "idle") /\ Fault /\ Fail(p)
    /\ UNCHANGED <<plan, claim, journal, slot, launch, cloud, wire>>

----------------------------------------------------------------------------
(* The newcomer: ensureDurableBaseFirewall over its own receipt.             *)

LaunchAt(pc) == launch.exists /\ launch.pc = pc

(* AuthorizeBaseFirewall: a rejected receipt retires its slot before a new   *)
(* issue replaces it. *)
LaunchAuthorize ==
    /\ LaunchAt("idle") /\ launch.phase \in {"issued", "rejected"}
    /\ slot' = IF launch.phase = "rejected"
               THEN SlotFinished(slot, "newcomer", "assign", launch.issue, "rejected")
               ELSE slot
    /\ launch' = [launch EXCEPT !.pc = IF launch.phase = "rejected" THEN "reissue" ELSE "slot"]
    /\ UNCHANGED <<plan, faults, claim, journal, cloud, wire, pass>>

LaunchReissue ==
    /\ LaunchAt("reissue") /\ launch.issue < MaxIssue
    /\ launch' = [launch EXCEPT !.phase = "issued", !.issue = @ + 1, !.pc = "slot"]
    /\ UNCHANGED <<plan, faults, claim, journal, slot, cloud, wire, pass>>

(* The POST is allowed only to the invocation that writes the slot. *)
LaunchSlot ==
    /\ LaunchAt("slot")
    /\ IF Owns(slot, "newcomer", "assign") /\ slot.issue = launch.issue
       THEN launch' = [launch EXCEPT !.pc = "watch"] /\ UNCHANGED slot
       ELSE IF IF slot.owner = "target" THEN TargetSlotSettled ELSE LaunchSlotSettled
            THEN /\ slot' = Taken("newcomer", "assign", launch.issue)
                 /\ launch' = [launch EXCEPT !.pc = "post"]
            ELSE launch' = [launch EXCEPT !.pc = "idle"] /\ UNCHANGED slot
    /\ UNCHANGED <<plan, faults, claim, journal, cloud, wire, pass>>

(* The target proof holds and the POST is sent, or the receipt is rejected.  *)
LaunchPost ==
    /\ LaunchAt("post")
    /\ \/ Send("assign") /\ launch' = [launch EXCEPT !.pc = "watch"] /\ UNCHANGED faults
       \/ /\ Fault /\ UNCHANGED wire
          /\ launch' = [launch EXCEPT !.phase = "rejected", !.pc = "finish"]
    /\ UNCHANGED <<plan, claim, journal, slot, cloud, pass>>

(* Only a readback settles a POST that may have been sent. *)
LaunchWatch ==
    /\ LaunchAt("watch") /\ launch.phase = "issued" /\ "newcomer" \in rel
    /\ launch' = [launch EXCEPT !.phase = "observed", !.pc = "finish"]
    /\ UNCHANGED <<plan, faults, claim, journal, slot, cloud, wire, pass>>

LaunchFinish ==
    /\ LaunchAt("finish")
    /\ slot' = SlotFinished(slot, "newcomer", "assign", launch.issue, launch.phase)
    /\ launch' = [launch EXCEPT !.pc = "idle"]
    /\ UNCHANGED <<plan, faults, claim, journal, cloud, wire, pass>>

LaunchAbandon ==
    /\ launch.pc # "idle" /\ Fault
    /\ launch' = [launch EXCEPT !.pc = "idle"]
    /\ UNCHANGED <<plan, claim, journal, slot, cloud, wire, pass>>

----------------------------------------------------------------------------
(* The cloud.  Requests address the VM by UUID, the relation by VM UUID, but *)
(* the floating IP by its number, whoever holds it.                          *)

Commit(r) ==
    /\ r \in wire /\ wire' = wire \ {r}
    /\ vm' = IF r = "vm" THEN "gone" ELSE vm
    /\ fip' = CASE r = "unassign" /\ fip = "assigned" -> "free"
                [] r = "delete" /\ fip \in {"free", "other"} -> "none"
                [] OTHER -> fip
    /\ hit' = (hit \/ (r \in {"unassign", "delete"} /\ fip = "other"))
    /\ rel' = CASE r = "detach" -> rel \ {"target"}
                [] r = "assign" -> rel \cup {"newcomer"}
                [] OTHER -> rel
    /\ UNCHANGED <<plan, faults, claim, journal, slot, launch, pass>>

Lose(r) ==
    /\ Fault /\ r \in wire /\ wire' = wire \ {r}
    /\ UNCHANGED <<plan, claim, journal, slot, launch, cloud, pass>>

(* The platform may release the dependents of a VM that is gone by itself,   *)
(* and gives a deleted address to another tenant. *)
CloudReleases ==
    /\ plan.releases /\ vm = "gone"
    /\ \/ fip = "assigned" /\ fip' = "free" /\ UNCHANGED rel
       \/ "target" \in rel /\ rel' = rel \ {"target"} /\ UNCHANGED fip
    /\ UNCHANGED <<plan, faults, claim, journal, slot, launch, vm, hit, wire, pass>>

CloudReallocates ==
    /\ plan.reallocates /\ fip = "none" /\ fip' = "other"
    /\ UNCHANGED <<plan, faults, claim, journal, slot, launch, vm, rel, hit, wire, pass>>
=============================================================================
