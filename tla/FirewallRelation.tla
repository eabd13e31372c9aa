-------------------------- MODULE FirewallRelation --------------------------
(***************************************************************************)
(* Attaching firewalls to node load balancer VMs.  Every firewall has an     *)
(* owner object: a shard's NodePool, the cluster's NodeClass (the shared     *)
(* ICMP firewall) or a Service in local mode.  The owner carries the one     *)
(* relation receipt (the fence) under which a VM is attached to or detached  *)
(* from that firewall; reconcileNodeLoadBalancerFirewallRelation writes it   *)
(* before the request and clears it only on what a later list shows.         *)
(*                                                                         *)
(* A pass of the worker attaches the ICMP firewall, then the shard firewall, *)
(* and only then sets the protected ready label that advertises the Node.    *)
(* Lists lag behind the cloud (shown, assigned).  A request is on the wire   *)
(* until it commits or is lost.  The retirement deadline of a receipt (the   *)
(* request timeout and a convergence delay) outlasts its request and the lag.*)
(***************************************************************************)
EXTENDS Naturals, FiniteSets

CONSTANTS Controllers, Owners, VMs, Plans, Ids

(* What may happen in a behaviour: which controllers, owners and VMs take    *)
(* part, the VMs that already serve, the firewalls a VM may carry beside its *)
(* base firewall, the VM whose requests are always lost, and how many faults.*)
PlanType == [controllers : SUBSET Controllers, owners : SUBSET Owners, live : SUBSET VMs,
             serving : SUBSET VMs, launches : SUBSET VMs, leaves : SUBSET VMs,
             want : SUBSET VMs, limit : Nat, stuck : SUBSET VMs, faults : Nat]

ASSUME PlansAssumption == Plans \subseteq PlanType /\ VMs \subseteq Nat \ {0}

(* Issue ids are random; here there are enough that one is always free.      *)
ASSUME IdsAssumption ==
    /\ {"icmp", "shard"} \subseteq Owners
    /\ IsFiniteSet(Owners) /\ IsFiniteSet(Controllers) /\ IsFiniteSet(Ids)
    /\ Cardinality(Ids) > Cardinality(Owners) + Cardinality(Controllers)

VARIABLES
    plan,
    receipt,    \* the owner's fence: the issued relation, or None
    absent,     \* the owner's first observation that a VM to detach does not exist
    retired,    \* a Service's retirement streak of each relation
    grants,     \* the owner is live and its policy ledger matches the firewall
    life,       \* none, live, claimless (its NodeClaim is gone), gone
    healthy,    \* the Node is Ready and has its addresses
    broken,     \* the link of its NodeClaim, VM and floating IP chain that is not exact
    ready,      \* the protected label: the Node is advertised
    assigned,   \* the VMs of each firewall, in the cloud
    shown,      \*   and in the list
    wire,       \* requests sent and not committed
    recent,     \* attachments a controller remembers as acknowledged
    ctl,        \* where the worker of each controller stands
    faults      \* how many more faults there are

owner == <<receipt, absent, retired>>
nodes == <<life, healthy, broken>>
cloud == <<assigned, shown>>
vars == <<plan, owner, grants, nodes, ready, cloud, wire, recent, ctl, faults>>

None == [op |-> "none"]
Ops == {"assign", "unassign"}
NoVM == 0
Links == {"claim", "vm", "address"}
Never == [n |-> 0, old |-> FALSE]

Idle == [pc |-> "idle", o |-> "icmp", todo |-> {}, fence |-> None, snap |-> {},
         dirty |-> FALSE, ok |-> FALSE]

Service(o) == o \notin {"icmp", "shard"}

Init ==
    /\ plan \in Plans
    /\ receipt = [o \in Owners |-> None]
    /\ absent = [o \in Owners |-> [vm |-> NoVM, old |-> FALSE]]
    /\ retired = [o \in Owners |-> [k \in Ops \X VMs |-> Never]]
    /\ grants = [o \in Owners |-> TRUE]
    /\ life = [v \in VMs |-> IF v \in plan.live THEN "live" ELSE "none"]
    /\ healthy = [v \in VMs |-> TRUE] /\ broken = [v \in VMs |-> "none"]
    /\ ready = [v \in VMs |-> v \in plan.serving]
    /\ assigned = [o \in Owners |-> IF o \in plan.owners THEN plan.serving ELSE {}]
    /\ shown = assigned
    /\ wire = {}
    /\ recent = [c \in Controllers |-> {}]
    /\ ctl = [c \in Controllers |-> Idle]
    /\ faults = plan.faults

At(c, pc) == ctl[c].pc = pc
Goto(c, pc) == ctl' = [ctl EXCEPT ![c].pc = pc]
End(c) == ctl' = [ctl EXCEPT ![c] = Idle]
Fault == faults > 0 /\ faults' = faults - 1

----------------------------------------------------------------------------
(* The fence.                                                               *)

(* The requested relation is what the list shows. *)
Converged(o, r) == (r.vm \in shown[o]) = (r.op = "assign")

(* One later observation: an attachment is proved by one positive list, a    *)
(* detachment by two absences a delay apart; a relation that shows again     *)
(* takes the first absence back.                                            *)
Advance(r, converged) ==
    IF r.op = "assign" THEN IF converged THEN None ELSE r
    ELSE IF ~converged THEN [r EXCEPT !.seen = "none"]
    ELSE IF r.seen = "none" THEN [r EXCEPT !.seen = "fresh"]
    ELSE IF r.seen = "fresh" THEN r
    ELSE None

(* Mutant: the retirement delay is not awaited. *)
RetireAtOnce(o) == ~Converged(o, receipt[o])
(* Mutant: an issue without effect is never retired. *)
NeverRetire(o) == FALSE

(* The request can no longer be in flight and the relation is unchanged. *)
RetireDue(o) == ~Converged(o, receipt[o]) /\ receipt[o].due

(* Two receipts of one issue. *)
SameIssue(r, f) == r # None /\ r.op = f.op /\ r.vm = f.vm /\ r.id = f.id /\ r.tgt = f.tgt

Key(f) == <<f.op, f.vm>>

(* Storing the records drops those older than a park. *)
Stored(streaks) == [k \in Ops \X VMs |-> IF streaks[k].old THEN Never ELSE streaks[k]]

RecordRetirement(o, k) ==
    Stored([retired[o] EXCEPT ![k] = [n |-> IF @.n < 3 THEN @.n + 1 ELSE @.n, old |-> FALSE]])

ClearRetirement(o, k) ==
    IF retired[o][k].n = 0 THEN retired[o] ELSE Stored([retired[o] EXCEPT ![k] = Never])

(* Mutant: a relation that keeps failing is never parked. *)
NeverParked(o, k) == FALSE

Parked(o, k) == retired[o][k].n >= 3 /\ ~retired[o][k].old

(* A finished park starts a new streak. *)
AfterPark(o, k) ==
    IF retired[o][k].n >= 3 /\ retired[o][k].old THEN ClearRetirement(o, k) ELSE retired[o]

(* What a pass does with a receipt it finds: retire it, or observe. *)
Resolved(o) == IF RetireDue(o) THEN None ELSE Advance(receipt[o], Converged(o, receipt[o]))

Resolve(o) ==
    /\ receipt' = [receipt EXCEPT ![o] = Resolved(o)]
    /\ retired' = [retired EXCEPT ![o] =
          IF RetireDue(o)
          THEN IF Service(o) THEN RecordRetirement(o, Key(receipt[o])) ELSE @
          ELSE IF Resolved(o) = None THEN ClearRetirement(o, Key(receipt[o])) ELSE @]
    /\ UNCHANGED absent

(* Clear exactly this issue, if the owner still holds it. *)
ClearFence(o, f) ==
    /\ receipt' = [receipt EXCEPT ![o] = IF SameIssue(@, f) THEN None ELSE @]
    /\ UNCHANGED <<absent, retired>>

----------------------------------------------------------------------------
(* What the reads before a request establish.                               *)

(* Ownership of the Node: one NodeClaim, its VM and the VM's floating IP. *)
ExactClaim(v) == life[v] = "live" /\ broken[v] # "claim"
ExactVM(v) == broken[v] # "vm"
ExactAddress(v) == broken[v] # "address"

Authorized == {v \in VMs : ExactClaim(v) /\ ExactVM(v) /\ ExactAddress(v)}

(* The VMs whose NodeClaim exists: they keep the shard firewall. *)
Retained == {v \in VMs : life[v] = "live"}

(* Exact GET, inventory and VPC agree on an owned, or on no, VM. *)
VMOwned(v) == life[v] \in {"live", "claimless"}
VMGone(v) == ~VMOwned(v)

(* Mutant: the acknowledged assignments are not counted. *)
AttachedAsListed(c, v) == {o \in plan.owners : v \in shown[o]}

(* The firewalls listed on the VM or acknowledged a moment ago. *)
Attached(c, v) == {o \in plan.owners : v \in shown[o]} \cup {o \in plan.owners : <<v, o>> \in recent[c]}

Capacity(c, o, v) == o \in Attached(c, v) \/ Cardinality(Attached(c, v)) < plan.limit

(* A detachment needs the owned VM, or its durably spaced absence. *)
AuthorizeUnassignVM(f) == VMOwned(f.vm) \/ f.tgt

RequireAuthorizedVM(v) == v \in Authorized /\ healthy[v]

AuthorizeService(o, f) ==
    IF f.op = "unassign" THEN AuthorizeUnassignVM(f) ELSE grants[o] /\ f.vm \in plan.want

AuthorizeShard(f) ==
    IF f.op = "unassign" THEN AuthorizeUnassignVM(f)
    ELSE grants["shard"] /\ RequireAuthorizedVM(f.vm)

AuthorizeICMP(f) ==
    IF f.op = "unassign" THEN AuthorizeUnassignVM(f)
    ELSE grants["icmp"] /\ RequireAuthorizedVM(f.vm)

AuthorizeRelation(o, f) ==
    IF o = "icmp" THEN AuthorizeICMP(f)
    ELSE IF o = "shard" THEN AuthorizeShard(f) ELSE AuthorizeService(o, f)

(* The attachment was refused only because its VM is not a healthy one. *)
HealthDeferred(o, f) == ~Service(o) /\ f.op = "assign" /\ grants[o]

----------------------------------------------------------------------------
(* How the callers go on: (false, nil) stops the pass, an error closes the   *)
(* cluster (ICMP), fences the shard, or ends the pass (a Service).           *)
Stopped(o) == IF Service(o) THEN "idle" ELSE "gap"
Failed(o) == IF o = "icmp" THEN "close" ELSE Stopped(o)

Leave(c, pc) ==
    ctl' = [ctl EXCEPT ![c] = [Idle EXCEPT !.pc = pc, !.o = ctl[c].o, !.snap = ctl[c].snap]]
Finish(c, pc) == IF pc = "idle" THEN End(c) ELSE Leave(c, pc)

(* The receipt of an earlier pass comes first. *)
ResolveFirst(c, o, cleared) ==
    /\ receipt[o] # None
    /\ Resolve(o)
    /\ ctl' = [ctl EXCEPT ![c] = [Idle EXCEPT
                  !.pc = IF Resolved(o) = None THEN cleared ELSE Failed(o),
                  !.o = o, !.snap = shown[o]]]

(* A pass begins with the ICMP firewall, or with one Service. *)
Begin(c) ==
    /\ At(c, "idle") /\ c \in plan.controllers
    /\ \E o \in plan.owners \ {"shard"} : ctl' = [ctl EXCEPT ![c].pc = "enter", ![c].o = o]
    /\ UNCHANGED <<plan, owner, grants, nodes, ready, cloud, wire, recent, faults>>

Enter(c, o, todo, snap, dirty) ==
    /\ receipt[o] = None
    /\ ctl' = [ctl EXCEPT ![c] = [Idle EXCEPT !.pc = "relate", !.o = o, !.todo = todo,
                                               !.snap = snap, !.dirty = dirty]]
    /\ UNCHANGED owner

Relation(op, v, hold) == [op |-> op, vm |-> v, hold |-> hold]

(* ensureClusterICMPFirewall: attach every healthy Node that is not yet      *)
(* advertised, then detach the VMs that are no authorized Node's.            *)
EnsureICMP(c) ==
    /\ At(c, "enter") /\ ctl[c].o = "icmp"
    /\ LET missing == Authorized \ shown["icmp"] IN
       \/ ResolveFirst(c, "icmp", "close")
       \/ Enter(c, "icmp",
              {Relation("assign", v, FALSE) : v \in {w \in missing : ~ready[w] /\ healthy[w]}}
                  \cup {Relation("unassign", v, FALSE) : v \in shown["icmp"] \ Authorized},
              shown["icmp"] \cap Authorized, missing # {})
    /\ UNCHANGED <<plan, grants, nodes, ready, cloud, wire, recent, faults>>

(* Mutant: a Node still advertised is detached. *)
EnsureShardWhileAdvertised(c) ==
    /\ At(c, "enter") /\ ctl[c].o = "shard"
    /\ \/ ResolveFirst(c, "shard", "gap")
       \/ Enter(c, "shard",
              {Relation("unassign", v, FALSE) : v \in shown["shard"] \ Retained}
                  \cup {Relation("assign", v, ready[v]) :
                           v \in {w \in Authorized \ shown["shard"] : healthy[w]}},
              shown["shard"], FALSE)
    /\ UNCHANGED <<plan, grants, nodes, ready, cloud, wire, recent, faults>>

(* ensureShardFirewallAssignments: detach the VMs without a NodeClaim unless *)
(* their Node is still advertised, then attach the healthy ones.             *)
EnsureShard(c) ==
    /\ At(c, "enter") /\ ctl[c].o = "shard"
    /\ \/ ResolveFirst(c, "shard", "gap")
       \/ Enter(c, "shard",
              {Relation("unassign", v, ready[v]) : v \in shown["shard"] \ Retained}
                  \cup {Relation("assign", v, ready[v]) :
                           v \in {w \in Authorized \ shown["shard"] : healthy[w]}},
              shown["shard"], FALSE)
    /\ UNCHANGED <<plan, grants, nodes, ready, cloud, wire, recent, faults>>

(* A Service in local mode: detachServiceFirewallFromOtherNodesParked and    *)
(* the attachment loop after it.                                            *)
EnsureService(c) ==
    /\ At(c, "enter") /\ Service(ctl[c].o)
    /\ LET o == ctl[c].o IN
       \/ ResolveFirst(c, o, "idle")
       \/ Enter(c, o,
              {Relation("unassign", v, FALSE) : v \in shown[o] \ plan.want}
                  \cup {Relation("assign", v, FALSE) : v \in plan.want \ shown[o]}, {}, FALSE)
    /\ UNCHANGED <<plan, grants, nodes, ready, cloud, wire, recent, faults>>

(* The ICMP loop attaches first, the others detach first; a shard visits its *)
(* VMs in any order (a Go map), the others in the order of their names.      *)
First(c) ==
    LET op == IF ctl[c].o = "icmp" THEN "assign" ELSE "unassign"
        early == {e \in ctl[c].todo : e.op = op}
        next == IF early # {} THEN early ELSE ctl[c].todo
    IN  IF ctl[c].o = "shard" THEN next ELSE {e \in next : \A d \in next : e.vm <= d.vm}

(* The relation needs no more work in this pass. *)
Skip(c, e) ==
    /\ ctl' = [ctl EXCEPT ![c].todo = @ \ {e}, ![c].dirty = TRUE]
    /\ UNCHANGED owner

InUse == {receipt[o].id : o \in {p \in Owners : receipt[p] # None}}
         \cup {ctl[c].fence.id : c \in {d \in Controllers : ctl[d].fence # None}}
         \cup {r.id : r \in wire}
FreshId == CHOOSE i \in Ids : i \notin InUse

Issue(c, o, e, tgt) ==
    LET f == [op |-> e.op, vm |-> e.vm, id |-> FreshId, tgt |-> tgt] IN
    /\ receipt' = [receipt EXCEPT ![o] =
          [op |-> f.op, vm |-> f.vm, id |-> f.id, tgt |-> f.tgt, seen |-> "none", due |-> FALSE]]
    /\ retired' = [retired EXCEPT ![o] = AfterPark(o, Key(e))]
    /\ absent' = [absent EXCEPT ![o] = [vm |-> NoVM, old |-> FALSE]]
    /\ ctl' = [ctl EXCEPT ![c].pc = "authorize", ![c].fence = f, ![c].dirty = TRUE]

(* The spaced absence of the VM that a detachment needs. *)
ObserveAbsence(c, o, e) ==
    /\ e.op = "unassign" /\ VMGone(e.vm)
    /\ \/ /\ absent[o].vm = NoVM
          /\ absent' = [absent EXCEPT ![o] = [vm |-> e.vm, old |-> FALSE]]
          /\ retired' = [retired EXCEPT ![o] = AfterPark(o, Key(e))]
          /\ Finish(c, Failed(o)) /\ UNCHANGED receipt
       \/ /\ absent[o].vm = e.vm /\ ~absent[o].old
          /\ retired' = [retired EXCEPT ![o] = AfterPark(o, Key(e))]
          /\ Finish(c, Failed(o)) /\ UNCHANGED <<receipt, absent>>
       \/ /\ absent[o].vm = e.vm /\ absent[o].old
          /\ Issue(c, o, e, TRUE)
       \/ /\ absent[o].vm \notin {NoVM, e.vm}
          /\ Finish(c, Failed(o)) /\ UNCHANGED owner

(* reconcileNodeLoadBalancerFirewallRelation with a desired relation. *)
Relate(c, e) ==
    /\ At(c, "relate") /\ e \in First(c)
    /\ LET o == ctl[c].o IN
       \/ /\ e.hold /\ Finish(c, "gap") /\ UNCHANGED owner
       \/ /\ ~e.hold /\ receipt[o] # None /\ Resolve(o)
          /\ Finish(c, IF Resolved(o) = None THEN Stopped(o) ELSE Failed(o))
       \/ /\ ~e.hold /\ receipt[o] = None /\ Converged(o, e)
          /\ \/ /\ absent[o].vm = NoVM /\ retired[o][Key(e)].n = 0 /\ Skip(c, e)
             \/ /\ absent[o].vm # NoVM \/ retired[o][Key(e)].n > 0
                /\ absent' = [absent EXCEPT ![o] = [vm |-> NoVM, old |-> FALSE]]
                /\ retired' = [retired EXCEPT ![o] = ClearRetirement(o, Key(e))]
                /\ Finish(c, Stopped(o)) /\ UNCHANGED receipt
       \/ /\ ~e.hold /\ receipt[o] = None /\ ~Converged(o, e)
          /\ \/ /\ e.op = "assign" /\ ~Capacity(c, o, e.vm)
                /\ IF Service(o) THEN End(c) /\ UNCHANGED owner ELSE Skip(c, e)
             \/ /\ e.op = "unassign" \/ Capacity(c, o, e.vm)
                /\ \/ Service(o) /\ Parked(o, Key(e)) /\ Skip(c, e)
                   \/ /\ ~(Service(o) /\ Parked(o, Key(e)))
                      /\ \/ ObserveAbsence(c, o, e)
                         \/ (e.op = "assign" \/ VMOwned(e.vm)) /\ Issue(c, o, e, FALSE)
    /\ UNCHANGED <<plan, grants, nodes, ready, cloud, wire, recent, faults>>

(* No relation is left to reconcile: a fresh list decides how it goes on. *)
Related(c) ==
    /\ At(c, "relate") /\ ctl[c].todo = {}
    /\ LET o == ctl[c].o IN
       \/ Service(o) /\ End(c)
       \/ /\ o = "icmp"
          /\ IF ctl[c].dirty THEN Leave(c, "gap")
             ELSE ctl' = [ctl EXCEPT ![c] = [Idle EXCEPT !.pc = "enter", !.o = "shard"]]
       \/ /\ o = "shard"
          /\ IF shown[o] \subseteq Retained /\ {v \in Authorized : healthy[v]} \subseteq shown[o]
             THEN Leave(c, "eligible")
             ELSE ctl' = [ctl EXCEPT ![c] = [Idle EXCEPT !.pc = "gap", !.o = o, !.snap = shown[o]]]
    /\ UNCHANGED <<plan, owner, grants, nodes, ready, cloud, wire, recent, faults>>
----------------------------------------------------------------------------
(* From the receipt to the request and its answer.                          *)

(* The final authority: the owner and its VM, then the exact receipt, then   *)
(* (for an attachment) the firewalls of the VM once more.                    *)
Authorize(c) ==
    /\ At(c, "authorize")
    /\ LET o == ctl[c].o   f == ctl[c].fence   granted == AuthorizeRelation(o, f)
           free == f.op = "unassign" \/ Capacity(c, o, f.vm)
       IN
       \/ /\ granted /\ SameIssue(receipt[o], f) /\ free
          /\ Goto(c, "send") /\ UNCHANGED owner
       \/ /\ ~(granted /\ SameIssue(receipt[o], f) /\ free)
          /\ ClearFence(o, f)
          /\ IF granted /\ SameIssue(receipt[o], f) /\ ~Service(o)
             THEN ctl' = [ctl EXCEPT ![c].pc = "relate", ![c].fence = None,
                                     ![c].todo = @ \ {e \in @ : e.op = f.op /\ e.vm = f.vm}]
             ELSE Finish(c, IF ~granted /\ HealthDeferred(o, f) /\ SameIssue(receipt[o], f)
                            THEN Stopped(o) ELSE Failed(o))
    /\ UNCHANGED <<plan, grants, nodes, ready, cloud, wire, recent, faults>>

Dispatch(c) ==
    /\ At(c, "send")
    /\ wire' = wire \cup {[o |-> ctl[c].o, op |-> ctl[c].fence.op, vm |-> ctl[c].fence.vm,
                           id |-> ctl[c].fence.id]}
    /\ Goto(c, "sent")
    /\ UNCHANGED <<plan, owner, grants, nodes, ready, cloud, recent, faults>>

(* The SDK refuses before anything is sent. *)
NotDispatched(c) ==
    /\ At(c, "send") /\ Fault
    /\ ClearFence(ctl[c].o, ctl[c].fence)
    /\ Finish(c, Failed(ctl[c].o))
    /\ UNCHANGED <<plan, grants, nodes, ready, cloud, wire, recent>>

(* A successful answer: count it, then one readback. *)
Acknowledged(c) ==
    /\ At(c, "sent") /\ ctl[c].ok
    /\ LET o == ctl[c].o   f == ctl[c].fence IN
       /\ recent' = [recent EXCEPT ![c] = IF f.op = "assign" THEN @ \cup {<<f.vm, o>>}
                                          ELSE @ \ {<<f.vm, o>>}]
       /\ \/ /\ receipt[o] # None /\ Resolve(o)
             /\ Finish(c, IF Resolved(o) = None THEN Stopped(o) ELSE Failed(o))
          \/ receipt[o] = None /\ Finish(c, Stopped(o)) /\ UNCHANGED owner
    /\ UNCHANGED <<plan, grants, nodes, ready, cloud, wire, faults>>

InFlight(c) == \E r \in wire : r.o = ctl[c].o /\ r.id = ctl[c].fence.id

(* An error answer says nothing: observe the exact issue once.  A transient  *)
(* error leaves the ICMP caller without touching the cluster.                *)
AnsweredError(c) ==
    /\ At(c, "sent")
    /\ IF InFlight(c) \/ ctl[c].ok THEN Fault ELSE UNCHANGED faults
    /\ LET o == ctl[c].o   f == ctl[c].fence
           seen == Advance(receipt[o], Converged(o, receipt[o]))
       IN
       IF SameIssue(receipt[o], f)
       THEN /\ receipt' = [receipt EXCEPT ![o] = seen] /\ UNCHANGED <<absent, retired>>
            /\ IF seen = None THEN Finish(c, Stopped(o))
               ELSE Finish(c, Failed(o)) \/ (o = "icmp" /\ End(c))
       ELSE Finish(c, Failed(o)) /\ UNCHANGED owner
    /\ UNCHANGED <<plan, grants, nodes, ready, cloud, wire, recent>>

----------------------------------------------------------------------------
(* What the pass leaves advertised.                                         *)

(* setShardNodesReady reads the Node and its ownership again before it sets  *)
(* the label.                                                               *)
SetReady(wanted) == ready' = [v \in VMs |-> v \in wanted /\ v \in Authorized /\ healthy[v]]

(* failAggregateClusterClosed. *)
CloseCluster(c) ==
    /\ At(c, "close")
    /\ SetReady({}) /\ End(c)
    /\ UNCHANGED <<plan, owner, grants, nodes, cloud, wire, recent, faults>>

(* fenceAggregateClusterICMPAssignmentGap and its shard counterpart: only    *)
(* what was advertised and was attached before this pass changed anything.   *)
FenceGap(c) ==
    /\ At(c, "gap")
    /\ SetReady({v \in ctl[c].snap : ready[v]}) /\ End(c)
    /\ UNCHANGED <<plan, owner, grants, nodes, cloud, wire, recent, faults>>

(* reconcileAggregateShardNodeEligibility: the list, then the labels. *)
ReadEligible(c) ==
    /\ At(c, "eligible")
    /\ ctl' = [ctl EXCEPT ![c].pc = "label", ![c].snap = shown["icmp"] \cap shown["shard"]]
    /\ UNCHANGED <<plan, owner, grants, nodes, ready, cloud, wire, recent, faults>>

SetEligible(c) ==
    /\ At(c, "label")
    /\ SetReady(ctl[c].snap) /\ End(c)
    /\ UNCHANGED <<plan, owner, grants, nodes, cloud, wire, recent, faults>>

----------------------------------------------------------------------------
(* The cloud, the cluster and time.                                         *)

Commit(r) ==
    /\ r \in wire /\ r.vm \notin plan.stuck
    /\ assigned' = [assigned EXCEPT ![r.o] = IF r.op = "assign" THEN @ \cup {r.vm} ELSE @ \ {r.vm}]
    /\ wire' = wire \ {r}
    /\ ctl' = [c \in Controllers |->
                  IF At(c, "sent") /\ ctl[c].o = r.o /\ ctl[c].fence.id = r.id
                  THEN [ctl[c] EXCEPT !.ok = TRUE] ELSE ctl[c]]
    /\ UNCHANGED <<plan, owner, grants, nodes, ready, shown, recent, faults>>

Lose(r) ==
    /\ r \in wire
    /\ IF r.vm \in plan.stuck THEN UNCHANGED faults ELSE Fault
    /\ wire' = wire \ {r}
    /\ UNCHANGED <<plan, owner, grants, nodes, ready, cloud, recent, ctl>>

Propagate(o) ==
    /\ shown[o] # assigned[o]
    /\ shown' = [shown EXCEPT ![o] = assigned[o]]
    /\ UNCHANGED <<plan, owner, grants, nodes, ready, assigned, wire, recent, ctl, faults>>

Crash(c) ==
    /\ ~At(c, "idle") /\ Fault
    /\ End(c)
    /\ recent' = [recent EXCEPT ![c] = {}]
    /\ UNCHANGED <<plan, owner, grants, nodes, ready, cloud, wire>>

(* Nothing of this owner is in flight, about to be sent, or still to show. *)
Settled(o) ==
    /\ \A r \in wire : r.o # o
    /\ \A c \in Controllers : ctl[c].o = o => ~At(c, "authorize") /\ ~At(c, "send")
    /\ shown[o] = assigned[o]

ReceiptAges(o) ==
    /\ receipt[o] # None /\ ~receipt[o].due /\ Settled(o)
    /\ receipt' = [receipt EXCEPT ![o].due = TRUE]
    /\ UNCHANGED <<plan, absent, retired, grants, nodes, ready, cloud, wire, recent, ctl, faults>>

ObservationAges(o) ==
    /\ \/ /\ receipt[o] # None /\ receipt[o].seen = "fresh"
          /\ receipt' = [receipt EXCEPT ![o].seen = "old"] /\ UNCHANGED absent
       \/ /\ absent[o].vm # NoVM /\ ~absent[o].old
          /\ absent' = [absent EXCEPT ![o].old = TRUE] /\ UNCHANGED receipt
    /\ UNCHANGED <<plan, retired, grants, nodes, ready, cloud, wire, recent, ctl, faults>>

(* A park, and a streak, outlast the other relations of the owner. *)
ParkEnds(o, k) ==
    /\ retired[o][k].n > 0 /\ ~retired[o][k].old
    /\ receipt[o] = None
    /\ \A v \in VMs : (v \in shown[o] /\ v \notin plan.want) => <<"unassign", v>> = k \/ Parked(o, <<"unassign", v>>)
    /\ \A v \in plan.want \ shown[o] : <<"assign", v>> = k \/ Parked(o, <<"assign", v>>)
    /\ retired' = [retired EXCEPT ![o][k].old = TRUE]
    /\ UNCHANGED <<plan, receipt, absent, grants, nodes, ready, cloud, wire, recent, ctl, faults>>

(* What is remembered expires after the list has caught up. *)
Forget(c, m) ==
    /\ m \in recent[c] /\ shown[m[2]] = assigned[m[2]]
    /\ recent' = [recent EXCEPT ![c] = @ \ {m}]
    /\ UNCHANGED <<plan, owner, grants, nodes, ready, cloud, wire, ctl, faults>>

NodeChanges(v) ==
    /\ \/ life[v] = "none" /\ v \in plan.launches /\ life' = [life EXCEPT ![v] = "live"] /\ UNCHANGED ready
       \/ life[v] = "live" /\ v \in plan.leaves /\ life' = [life EXCEPT ![v] = "claimless"] /\ UNCHANGED ready
       \/ life[v] = "claimless" /\ life' = [life EXCEPT ![v] = "gone"] /\ ready' = [ready EXCEPT ![v] = FALSE]
    /\ UNCHANGED <<plan, owner, grants, healthy, broken, cloud, wire, recent, ctl, faults>>

HealthChanges(v) ==
    /\ life[v] = "live"
    /\ IF healthy[v] THEN Fault ELSE UNCHANGED faults
    /\ healthy' = [healthy EXCEPT ![v] = ~@]
    /\ UNCHANGED <<plan, owner, grants, life, broken, ready, cloud, wire, recent, ctl>>

OwnershipChanges(v) ==
    /\ life[v] = "live"
    /\ \/ broken[v] = "none" /\ Fault /\ \E link \in Links : broken' = [broken EXCEPT ![v] = link]
       \/ broken[v] # "none" /\ broken' = [broken EXCEPT ![v] = "none"] /\ UNCHANGED faults
    /\ UNCHANGED <<plan, owner, grants, life, healthy, ready, cloud, wire, recent, ctl>>

PolicyChanges(o) ==
    /\ o \in plan.owners
    /\ IF grants[o] THEN Fault ELSE UNCHANGED faults
    /\ grants' = [grants EXCEPT ![o] = ~@]
    /\ UNCHANGED <<plan, owner, nodes, ready, cloud, wire, recent, ctl>>

----------------------------------------------------------------------------
Next ==
    \/ \E c \in Controllers : Begin(c)
    \/ \E c \in Controllers : EnsureICMP(c)
    \/ \E c \in Controllers : EnsureShard(c)
    \/ \E c \in Controllers : EnsureService(c)
    \/ \E c \in Controllers : \E e \in ctl[c].todo : Relate(c, e)
    \/ \E c \in Controllers : Related(c)
    \/ \E c \in Controllers : Authorize(c)
    \/ \E c \in Controllers : Dispatch(c)
    \/ \E c \in Controllers : NotDispatched(c)
    \/ \E c \in Controllers : Acknowledged(c)
    \/ \E c \in Controllers : AnsweredError(c)
    \/ \E c \in Controllers : CloseCluster(c)
    \/ \E c \in Controllers : FenceGap(c)
    \/ \E c \in Controllers : ReadEligible(c)
    \/ \E c \in Controllers : SetEligible(c)
    \/ \E r \in wire : Commit(r)
    \/ \E r \in wire : Lose(r)
    \/ \E o \in Owners : Propagate(o)
    \/ \E c \in Controllers : Crash(c)
    \/ \E o \in Owners : ReceiptAges(o)
    \/ \E o \in Owners : ObservationAges(o)
    \/ \E o \in Owners, k \in Ops \X VMs : ParkEnds(o, k)
    \/ \E c \in Controllers : \E m \in recent[c] : Forget(c, m)
    \/ \E v \in VMs : NodeChanges(v)
    \/ \E v \in VMs : HealthChanges(v)
    \/ \E v \in VMs : OwnershipChanges(v)
    \/ \E o \in Owners : PolicyChanges(o)

Spec == Init /\ [][Next]_vars

(* The worker's own steps: what runs until the pass ends. *)
PassStep(c) ==
    \/ Begin(c) \/ EnsureICMP(c) \/ EnsureShard(c) \/ EnsureService(c)
    \/ \E e \in ctl[c].todo : Relate(c, e)
    \/ Related(c) \/ Authorize(c) \/ Dispatch(c) \/ Acknowledged(c)
    \/ (At(c, "sent") /\ ~ctl[c].ok /\ ~InFlight(c) /\ AnsweredError(c))
    \/ CloseCluster(c) \/ FenceGap(c) \/ ReadEligible(c) \/ SetEligible(c)

(* The queue retries every key and the worker finishes its passes; requests  *)
(* commit or are lost, lists catch up, and time passes.                      *)
FairSpec ==
    /\ Spec
    /\ \A c \in Controllers : WF_vars(PassStep(c))
    /\ WF_vars(\E r \in wire : Commit(r) \/ Lose(r))
    /\ \A o \in Owners : WF_vars(Propagate(o)) /\ WF_vars(ReceiptAges(o)) /\ WF_vars(ObservationAges(o))
    /\ \A c \in Controllers : WF_vars(\E m \in recent[c] : Forget(c, m))

----------------------------------------------------------------------------
(* The one-shot fence: however often the worker restarts, a second           *)
(* controller runs, or an answer is an error, an owner never has two         *)
(* attach or detach requests in flight.                                     *)
OneRequest == \A o \in Owners : Cardinality({r \in wire : r.o = o}) <= 1

(* An advertised Node whose VM exists is on the shard firewall: detaching    *)
(* waits for the label to go, and the label waits for the list.              *)
ReadyIsProtected ==
    "shard" \in plan.owners =>
        \A v \in VMs : ready[v] /\ life[v] \in {"live", "claimless"} => v \in assigned["shard"]

(* One controller whose requests are acknowledged never attaches more        *)
(* firewalls to a VM than the limit, although the list lags behind.          *)
WithinLimit ==
    plan.faults = 0 /\ Cardinality(plan.controllers) = 1 =>
        \A v \in VMs : Cardinality({o \in plan.owners : v \in assigned[o]}) <= plan.limit

(* A Node that stays healthy and owned is advertised in the end, whatever    *)
(* crashed or was lost before.                                              *)
NodesServe ==
    \A v \in VMs :
        <>[]("shard" \in plan.owners /\ v \in Authorized /\ healthy[v] /\ \A o \in plan.owners : grants[o])
            => <>[]ready[v]

(* A relation that never converges is parked after three retirements, so the *)
(* other VMs of the Service are still detached and attached.                 *)
OthersProceed ==
    \A o \in Owners : \A v \in VMs :
        <>[](o \in plan.owners /\ Service(o) /\ grants[o] /\ v \notin plan.stuck /\ plan.limit > 2)
            => <>((v \in assigned[o]) = (v \in plan.want))

(* Attaching the shared firewalls to a new VM keeps the protected Nodes      *)
(* advertised.                                                              *)
ProtectedStayPublished ==
    [][\A v \in VMs : ready[v] /\ v \in Authorized /\ healthy[v]
                      /\ (\A o \in plan.owners : v \in assigned[o] /\ v \in shown[o]) => ready'[v]]_vars
=============================================================================
