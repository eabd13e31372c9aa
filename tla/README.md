# TLA+ models of the InSpace Kubernetes modules

The repository holds four Go modules that drive one cloud API: `client`, `cloud-provider` (cluster
bootstrap and the cloud controller manager, CCM), `csi-driver` and `karpenter-provider`. They share
one problem. The cloud API has no idempotency keys: a request may be lost, or take effect after its
sender gave up, and inventories lag. They share one answer, the *mutation outcome contract* of
`src/DEVELOPMENT.md`:

1. before a request that must not be repeated, store a *fence* or *receipt* (intent, then issued) in
   a Kubernetes object or the cluster file, by compare-and-swap;
2. never repeat a request whose outcome is open; learn the outcome from exact reads only;
3. complete a removal only on several persisted absence observations that are spaced in time, and
   start again when the object is seen;
4. otherwise keep the fence, and wait for a later read or for an operator.

The models ask whether the interleavings of calls, controllers, crashes and late requests respect
that contract, and what the parts promise on top of it. `PROJECT.json` maps every definition to its
source lines (about 23,000 of 73,000 lines), lists the hazards of the code at the lines where they
bite, and names for each property a mutation of the code that breaks it.

## Inventory

| Part | State | Operations | What makes it hard | Modules |
|---|---|---|---|---|
| CSI controller | disks, attachments, fence Leases, per-VM locks | create, delete, attach, detach (also from a missing node), expand | ambiguous requests, crash after the fence, reads before a lock used after it, two waiters on one fence | CsiVolume, AbsenceProof, KeyedMutex |
| Karpenter create fence | NodeClaim annotations and finalizers, VM, floating IP | Create, anchor, protect, name the address, rollback, materialize, cleanup, operator resolution | overlapping Creates, a VM that appears late, two writers of one record | KarpenterCreate |
| Karpenter removal | removal journal, firewall ledger Lease, finalizer, absence observation | Delete of VM, address and relation; the slot of a firewall; recovery of a missed wake-up | overlapping Deletes, an address that is reallocated, restart between receipt and request, a launch on the same firewall | RemovalJournal, FirewallSlot, NodeRemoval, TerminationRecovery |
| Bootstrap | create and removal receipts in the cluster file | Reconcile, rollback, Destroy | crash at each write, order of bastion and control planes, rollback racing a late success, two commands | BootstrapLedger, BootstrapCreate, BootstrapRemoval, Bootstrap, OneShot |
| CCM instances | in-memory absence evidence | InstanceExists, InstanceMetadata | wrong but consistent reads, failover forgets | ClusterNodes, NodeLifecycle |
| CCM standard NLB | one receipt annotation per Service | create, assign, add and remove targets and rules, delete | retirement by time, late commits, empty target set, two leaders | NlbReceipt, StandardNLB, CloudController |
| Node load balancer: policy and publication | receipts on the shard's NodePool, Service annotations, child Service | join, stage, restage, publish, withdraw, clean up | one PUT carries all Services of a shard; a crash cuts a pass anywhere | ShardFirewall, NodeLB |
| Node load balancer: relations | one receipt per owner, ready labels | attach and detach firewalls, advertise Nodes | lists lag, retirement by time, the limit of firewalls per VM | FirewallRelation |
| CSI node plugin, detach authority | mount table; Node and NodeClaim reads | stage, publish, grow; authorise | crash between format and mount; identity changes between reads | none |
| Status file store, resizer | YAML file; VM power state | compare-and-swap by rename; stop, patch, start | an error after the rename; a failure while stopped | none (the store is one step of BootstrapLedger) |
| Node load balancer: planner, public-node-local, per-VM ledger | shard ledger, migration phases | plan, migrate both ways | two directions of a migration | none |
| Client | none | HTTP calls and error classes | decides what counts as *not dispatched* | request actions of each module |

Correctness, part by part: no duplicate paid resource; a fence stands as long as its request may
commit; no destructive request without a stored decision; no success answer while the opposite may
still happen; nothing is forgotten when a finalizer or receipt goes; nothing is published before it
is protected; a wait for a lock ends, and so does every cleanup that can.

## Modules

Three habits are common to all. A request that was sent lies on `wire` until it commits or is lost,
at any time and whatever its sender was told. A behaviour begins with a *plan* (in CsiVolume a
workload): who takes part and how many edits, faults and brownouts there are; one run covers
several plans. A read of a store, the decision it leads to and the compare-and-swap that records it
are one step where the compare-and-swap would fail on any change in between; a cloud read and the
request it authorises are two.

### KeyedMutex, MCKeyedMutex, KeyedMutexProofs

`keyed_mutex.go`. `slot` is the map, `refs` and `held` the fields of an entry object, `mine` a
goroutine's pointer. Entries have identities of their own, since a goroutine may hold a pointer to
an entry whose map slot another one has dropped. `EnterNew`, `EnterExisting`, `Acquire`, `Block`,
`Cancel`, `Unlock` and `Release` are the critical sections and channel operations of `Lock`, its
unlock function and `release`.

### CsiVolume, MCCsiVolume

The controller RPCs of `pkg/driver` and `pkg/cloud/inspace`. `disk` and `att` are the cloud,
`fences` the Leases, `call` the local variables of each RPC, `lock` the holders of `lockVM`.
`Commit` and `Drop` decide a request; the answer to a caller carries no information, because the
code does not rely on it. `Crash` ends every RPC of a process. `load` is the workload.

* `ListDisks`, `WaitReady`, `BeginCreate`, `LeaseCreate`, `Relist`, `Reconcile`, `SetReceipt`,
  `CompleteCreate`: `EnsureVolume` and the create fence.
* `PrepareDelete`, `GetDisk`, `MatchCreateFence`, `DropCreateFence`: `DeleteVolume`.
* `Settle`, `AwaitAttached`, `AwaitAbsence`, `AwaitPresence`, `Resolve`, `LeaseAttachment`: the
  attachment fence, shared by attach, detach, delete and expand.
* `OwnDisk`, `FindAttachment`, `LockVM`, `ReadAttachment`, `ReadVM`, `ReadDisk`, `Reauthorize`,
  `Dispatch`, `WaitSize`: the checks before a request, and the request.

Abstractions. Reads show the present state, and one observation and its compare-and-swap are one
step: lag and racing observations are the subject of AbsenceProof. Any read or write may fail
(`GiveUp`, the `Failed` arguments); failures of the snapshot and ownership checks are among these.
The disk status "error", deletion of a VM under its disks, and a Lease POST that lands after its
caller gave up are left out. The external provisioner is taken to serialise a name: no CreateVolume
of a name whose deletion was requested. An operator removes a fence only when its request can no
longer commit and no RPC runs, as the driver's README demands.

### AbsenceProof, MCAbsenceProof, AbsenceTheorems

The loops of `waitForDetached` and `waitForDiskAbsent`: `fence` is the stored observation, `copy`,
`target` and `at` the locals of a waiter. What a read shows is unconstrained. `evidence`, `sighted`
and `raced` (two calls have been at work on the fence at the same time) are history variables for
the properties. `Loop` is the rest of a call after it has picked the fence up (`Load`).

### KarpenterCreate, MCKarpenterCreate, KarpenterTheorems, KarpenterSafety

One NodeClaim from the create fence to the release of its finalizer: `claim`, `rec`, `fipu`,
`removal` and `operator` are the object and its annotations; `vm`, `fip`, `posting` and `dropping`
the cloud; `cr` and `ctl` the locals of the Create invocations and of the cleanup controller.
`CanX` operators are what a store method requires of the stored record, and the record operators
(`Authorized`, `Anchored`, `RolledBack`, ...) what it writes. `Create(c)` has a step for each store
operation and cloud request, `Controller` one for each phase of `Reconcile`. `DeleteClaim`,
`Terminate` and `Vanish` are Karpenter and the API server, `OperatorDecides` the operator.

Abstractions. Any write by someone else clears `ctl.fresh`, which is what the optimistic lock
compares. Deadlines are nondeterministic; the snapshots of the audit are one read; the controller's
authorise, PATCH and observe of an address are one step. Adoption intent, baseline VMs, the legacy
v2 record and the firewall reject/reissue loop are left out. Whether the address is on record as
bad (`bad`) is fixed per behaviour; what a Create makes of the record is not, since a read that fails
counts as "not known bad": `Return` is possible for a bad address, beside `KnownBad` and `Recycle`.

### RemovalJournal, FirewallSlot, NodeRemoval, TerminationRecovery, MCNodeRemoval, NodeRemovalTheorems

RemovalJournal is the annotation that serialises what the provider destroys for a claim, and
FirewallSlot the Lease entry that says who may change a firewall: both are operators on records,
one per store method. NodeRemoval composes them: two `DeleteVM` passes of the target claim walk
through VM, address and relation, each with authorise, prove, send and observe, while a newcomer's
launch (`LaunchAuthorize` to `LaunchFinish`) wants the same firewall, and the platform may release
and reallocate the address. TerminationRecovery adds who calls them and who may take the finalizer:
the external lifecycle controller and the recovery controller with its stored observation. The
digest of the create fence that recovery compares is the cleanup marker, the part that changes.

Left out: the detach of volumes before the VM delete, the legacy v2 firewall receipt, the ledger's
encoding and its other firewalls.

### BootstrapLedger, BootstrapCreate, BootstrapRemoval, Bootstrap, OneShot, MCBootstrap

`inspace-cluster-controller` on one cluster file. BootstrapLedger holds what the commands share:
`file` (the status), `mem` (each command's copy), the cloud, `hidden` (what inventories leave out),
`aged` (removal keys whose first absence is old enough), `since` (the VMs for whose address a Destroy
process has begun to wait) and the history `waived` (creates that were open when a Destroy ended,
addresses that Destroy gave up). BootstrapCreate is a Reconcile pass, a walk
through stages *firewall, VM, guard, protect, address* for the bastion and each control plane in
order, every stage with the same receipt protocol. BootstrapRemoval is the rollback of a malformed or
unprotected VM and a Destroy pass. The bound of the wait for an address is a clock of one process: it
may be reached in any pass after the first, whether or not the address is still to come. Bootstrap
composes them into commands that start, end, crash and overlap in any order: nothing keeps a Destroy
from starting while a POST of an ended command is open, and with `INSPACE_DEPLOY_INIT_AUTO_RECOVER`
the container runs one right after an `init` that failed. OneShot is the abstract fence (arm, send,
settle, renew; at most one send per issue); `OneShotCreates` says that every step of the create
receipts implements a step of it, under the mapping in Bootstrap, except those with which a Destroy
ends.

Left out: static validation of addresses, pools and policies; Karpenter's workers in the node
firewall; an error of the file store after its rename; the timing of the reachability gate.

### ClusterNodes, NodeLifecycle, NlbReceipt, StandardNLB, CloudController, NodeLifecycleTheorems

The CCM. ClusterNodes has the Nodes and VMs that the other modules share, and what the API shows of
them. NodeLifecycle is `InstanceExists` and `InstanceMetadata` with the memory of the provider
(`memory`, `old`), which a restart empties, and the external node controllers that act on the
answer. In a `Brownout` exact reads leave out any set of VMs and lists any other, or the address list
any addresses; delays may pass before it ends or not, and another may follow. The history `misled`
keeps what an anomaly has had a part in. NlbReceipt is the receipt of one Service (stage, issue,
authorise, send, observe, retire) and StandardNLB the passes over it: Ensure, Update, deletion,
unpublish, release and collision; targets, rules, floating IP. CloudController composes them: the
Nodes the lifecycle part keeps or loses are the targets of the load balancer, and the reads that
decide over the last target of one (`emptyTargetSetMayRemove`) are subject to the same brownouts.

Left out: Nodes that join, a VPC membership that differs from the VM list, InstanceShutdown, the
legacy receipt, several Services at once.

### FirewallRelation, MCFirewallRelation, FirewallTheorems

`node_loadbalancer_firewall_relation_fence.go` and its callers. An owner (shard NodePool, cluster
NodeClass, Service in local mode) has one `receipt`; `shown` is the firewall list, which lags behind
`assigned`. A pass attaches the ICMP firewall, then the shard's, then sets the ready labels
(`EnsureICMP`, `EnsureShard`, `EnsureService`, `Relate`, `Authorize`, `Dispatch`, `Acknowledged`,
`AnsweredError`, `FenceGap`, `CloseCluster`, `SetEligible`). Ownership of a VM is a chain of
NodeClaim, VM and address of which any link may break (`broken`). The retirement deadline of a
receipt is taken to outlast its request and the lag of the list (`Settled`): it is the request
timeout plus a convergence delay.

### ShardFirewall, NodeLB, MCNodeLB, NodeLBTheorems

One shard. ShardFirewall is the policy receipt on the NodePool: applied, pending and issued policy,
create, PUT, promotion, and the delete with its counted absence proof. NodeLB is `sync` for one Service
at a time: validation, finalizer, NodePool, child Service, then restage, authorise, open, publish,
and the withdrawal and cleanup of a deleted or malformed Service. The worker makes one pass at a
time, as the controller does; a crash may cut the pass after each write.

Left out: migration between shards, the planner's port claims, lag of lists in the policy receipt,
overlapping leaders, the ICMP policy receipt (the same shape on the NodeClass).

## Runs

| Run | Instance | Shows |
|---|---|---|
| `keyed_mutex` | 3 goroutines, 2 keys, 3 entries | one holder per VM across generations of an entry; `Lock` returns |
| `csi_safety` | 1 process, 2 RPCs, 2 disks, 2 VMs, five workloads | the fence covers every open request; no request acts on a state that has moved; one disk per name; delete and unpublish are final |
| `absence` | 2 waiters, interval 2, clock to 6 | the count on a fence is backed by that many spaced reads; until two calls overlap, a fence completes on three of them, made after the call last saw the disk |
| `karpenter_create` | 2 Creates, controller, operator, crashes | one POST; nothing escapes when the finalizer goes; a published VM is the materialized one, is not rolled back and, unless its address is on record as bad, not deleted |
| `karpenter_reaps` | 1 Create | a deleting claim with an anchored VM loses it |
| `bootstrap` | 10 plans: 1 or 3 control planes, 1 or 2 commands, up to 2 faults | receipts are readable and name only what the cluster made; no stray address but those Destroy gives up; no removal is repeated; Destroy's Done means gone, open creates apart; creates implement `OneShot` except where a Destroy ends |
| `bootstrap_any_order` | 1 control plane, Reconcile then Destroy | *violation*: Destroy with nothing listed releases the receipt of a POST that may still commit |
| `cloud_controller` | 14 plans: up to 3 Nodes, 2 rules, 2 load balancers, 2 addresses, 2 replicas, 2 brownouts | one paid resource of each kind; none is forgotten; a load balancer loses its last targets only when their VMs are gone or an exact read has said so; removals are proven; a brownout costs a Node or an address only where it outlasts the delays, comes back, or shows a consistent part of the cluster; half of the Nodes stay; deletion ends |
| `node_removal` | 5 plans: 2 Deletes, a newcomer, up to 3 faults | somebody else's address is untouched; the finalizer goes last; one owner of the firewall at a time; removal ends |
| `firewall_relation` | 5 plans: 2 controllers, 4 owners, 2 VMs | one request per owner; an advertised Node is protected; the limit holds; Nodes serve in the end; a stuck relation does not stop the others |
| `node_lb` | 9 plans: 2 Services, 4 policies, up to 2 faults | one policy write at a time; a Service is closed between two policies; what is gone is withdrawn; no orphan; Services serve or are cleaned up |
| `node_lb_reverted_edit` | 1 Service, 2 edits, 1 fault | *violation*: a Service edited back while a PUT is unanswered is open under the old policy when the PUT commits |

The findings in `PROJECT.json` quote what the violations contradict. `ClosedBetweenPolicies` holds in
`node_lb`, whose plans edit without reverting to a policy in flight; the next pass repairs the state.
`IssuedIsKept` fails because Destroy decides on inventories and removal receipts alone
(`reconciler.go:1000`), where `DEVELOPMENT.md:537` says "An empty list is not sufficient to release an
issued additive mutation". What such a create makes later is what `DoneMeansGone` and
`OneShotCreates` except, and nothing else.

### Further configurations

Each of these checks one property that TLC refutes (`KarpenterEdges` names three, to be checked one
at a time); they document behaviour at the edge of what the code says about itself, and are kept for
whoever changes that code. They are not part of the list of runs.

| Configuration (module) | Property | Counterexample |
|---|---|---|
| `CsiFailedRead` (MCCsiVolume) | `FailedReadKeepsFence` | a failed re-list clears the create fence; the driver's README says "a foreign, duplicate, or failed read keeps the fence" |
| `CsiExpandRace` (MCCsiVolume) | `ResizeAfterSettled` | the fence is settled before `lockVM` and not again under it, so a resize is sent while a detach is undecided (`expand.go:35`) |
| `AbsenceRace` (MCAbsenceProof) | `CompletionNeedsThree` | a waiter that lost its third write completes on a fence that was reset |
| `KarpenterEdges` (MCKarpenterCreate) | `OperatorVMConsumed` | an operator's VM for an unanchored attempt is refused on every pass by the protection before the anchor |
| `KarpenterEdges` | `LateVMIsReaped` | a VM that appears after deletion began is never anchored, so it stays |
| `KarpenterEdges` | `DecisionsAreFinal` | a cleanup pass writes back the record it decoded at its start under a newer resource version, over an anchor or a rollback |
| `CloudRecreate` (MCCloudController) | `OneRecreate` | the count of re-creates is dropped with an intent or when another operation is staged, so a slow resource can be created more than twice (`cloud.go:1381`) |
| `TerminationRecovery` (MCNodeRemoval) | `RecoveryEnds` | recovery's own audit rewrites the annotation whose digest it then requires unchanged; without the lifecycle controller the finalizer stays |
| `FirewallFlap` (MCFirewallRelation) | `ProtectedStayPublished` | a list that lags after a successful attachment closes the whole cluster's labels; the README says protected Nodes stay published |

**Bounds.** Two concurrent RPCs, Creates, Deletes, commands or replicas reach every race of the
hazards that have a property, since a fence or record has at most one winner and the rest are
alike. Two disks are needed for a duplicate name, two VMs for a stolen attachment, two load
balancers and addresses for a duplicate, three Nodes for the mass-absence guard, two brownouts for
evidence of one that meets another, three control planes for the slot order, two Services for a
policy that one shares. `attempts` in a workload bounds the fences of a behaviour: 2 to 4, enough
for a mutation, its crash and its retry. `turns` bounds how often the kind of command changes
between Reconcile and Destroy; commands of one kind start as often as they like. Larger instances
were checked once: bootstrap with both kinds of command in two processes and two turns on a built
cluster (2.1 million states), and with one turn and only the bastion built (10.5 million);
cloud_controller with a brownout during a rollout and three edits (3.2 million). `MaxIssue` 4
bounds the receipts of a removal; `Confirmations` 2 the absence proof of a shard firewall, whose
count does not matter beyond being more than one. `plan.faults` counts crashes, refused, blocked
and unanswered requests and failed proofs: one fault anywhere reaches every single-failure case,
and two reach a failure of the repair. The clock of AbsenceProof reaches 6, three spaced
observations with a slack of two. KarpenterCreate needs no bound. `Ids` in FirewallRelation are 7,
one more than can be in use. Symmetry is used for VMs and Creates in safety runs only.

**Deadlock** is checked except where the system may stop: the clock ends in AbsenceProof, the claim
vanishes in KarpenterCreate and NodeRemoval, plans end in the others.

**Fairness.**

* KeyedMutex: weak fairness of a caller's own steps and strong fairness of `Acquire`, for the FIFO
  order of blocked senders in the Go runtime.
* KarpenterCreate: reconciles are requeued until they succeed, so cleanup steps are strongly fair,
  and a repeated DELETE eventually takes effect; nothing is assumed of Creates, POSTs or the operator.
* CloudController: weak fairness of each replica's pass (the service controller requeues), of
  commits and of time. `DeletionEnds` is claimed for the plans without faults (`calm`): after a lost
  request the code keeps a fence by design.
* TerminationRecovery: weak fairness of both Delete passes, of each cloud request, of the two
  controllers, of the launch and of time; `RemovalEnds` is claimed for plans without faults.
* FirewallRelation: weak fairness of each controller's pass, of the outcome of requests, of the list
  and of the deadlines.
* NodeLB: weak fairness of the worker, of commits and of the Nodes leaving a deleted NodePool;
  strong fairness of `Sync` of each Service, because the work queue requeues every key, and of the
  issue of the firewall DELETE. `ServicesServe` and `CleanupEnds` exclude `Stuck`, a receipt that
  stays issued because the process died before its request left: the code refuses to go on and asks
  for an operator.

## Proofs

All are for every value of the constants, under the named `ASSUME`s of the modules.

* `KeyedMutexSafe` (KeyedMutexProofs): types, mutual exclusion, exact counts, no idle slot. `IInv`
  adds that the map leads every counted goroutine to its own entry and that the token in an entry is
  its holder's; exclusion follows because two holders of one key then share one entry and one token.
  Assumes a finite set of goroutines.
* `EvidenceHolds` (AbsenceTheorems): types and `EvidenceIsReal` for any number of waiters.
  `EvidenceInv` adds that the stored time stamp is that of the last observation, and what a waiter
  about to write knows about the fence it compares with.
* `AloneCompletes` (AbsenceTheorems): `CompletionIsProven` for any number of calls. `AloneInv` says
  that until two calls overlap at most one is at work, its copy of the fence is exact, and the
  observations it builds on are newer than its last sighting of the disk. The configuration
  `AbsenceRace` shows that all of this fails once they do overlap.
* `OnePost` (KarpenterTheorems): types and `AtMostOnePost` for any set of Creates. The invariant says
  that at most one Create stands between the issue and its POST, that nothing was sent before, that a
  live unissued record means nothing was sent, and that a cleanup pass holding an unissued snapshot
  works on a deleting claim. The last part is what makes the lost update harmless here: it may
  restore an unissued record only where `Authorize` refuses.
* `NothingEscapes` and `PublishedStays` (KarpenterSafety): `NoEscape` and `PublishedIsSafe` for any set
  of Creates. `SafetyInv` says that a record which is protected accounts for all that was sent: what
  is on the wire, about to be sent or alive is of the issue the record names, and its anchor and
  receipts are of that one VM. The same holds of the older record a cleanup pass decoded at its start,
  so writing it back loses an anchor or a decision and no VM: the audit of that pass has to find
  everything gone again before it removes the finalizer, and what it has reaped stays away. An
  operator's word that no VM will come holds because nothing is sent after it. For publication:
  while nobody deletes the claim, a rollback and a materialization exclude each other, and only a
  rollback or a bad address leads to a DELETE. With a bad address the theorem says no more than that
  the published VM is the materialized one: one of two overlapping Creates may publish it and the
  other delete it.
* `FinalizerComesLast`, `AddressesOfOthers` and `FirewallHasOneOwner` (NodeRemovalTheorems):
  `FinalizerLast`, `OthersKeepTheirs` and `OneFirewallOwner` for every plan and every `MaxIssue`, in
  TerminationRecovery as a whole. `OrderInv` says what a pass has established by the time it is at a
  step, and that this stays true whatever the others do. `JournalInv` says that an address
  request in flight or about to leave is the one of the issued receipt, that whoever proves
  that receipt is the only one to do so and nothing was sent for it, and that nothing is under
  way once the address is gone. `LaunchInv` and `DetachInv` say the same of the firewall slot and of
  the two claims that want it. Assumes only that a plan says whether there is a newcomer.
* `OneWriteAtATime` and `PoolOutlivesFirewall` (NodeLBTheorems): `OneWrite` and `NoOrphan` for any
  set of Services, policies, edits and faults. `ShardInv` ties the worker, the receipts on the
  NodePool and the wire together: from the issue to the reply the receipt is the worker's and nothing
  else is on the wire; a write that can still take effect is the one the receipt names, it is the only
  one, and its result is not yet to be seen, which is why neither a promotion nor the retirement of a
  rejected create can drop the receipt early; and the proof of the delete excludes a
  create. Identities of firewalls are never reused.
* `NodesSurvive` and `MajorityStays` (NodeLifecycleTheorems): `BrownoutHarmless` and `HalfSurvive` for
  any finite set of Nodes and any number of brownouts, with the load balancer passes running beside
  them. `BrownoutInv` says that evidence which is old and speaks against an existing VM, or against a
  leased address, was collected in a brownout that lasted until it was old, or that came back before
  the VM was read alive. `GuardInv` counts: the verdicts in the window are of Nodes that are gone, and
  they are at most as many as the Nodes that are left, unless there were fewer than three.
* `RelationIsOneShot` (FirewallTheorems): `OneRequest` for any number of controllers, firewalls and
  VMs. `RequestInv` says that a list differs from the cloud only in the relation its owner's receipt
  names; that a request in flight is the one of that receipt, which is neither due nor shown as
  converged; that a pass about to send still holds the receipt, and nothing was sent for it; and that
  no two passes have issued the same id. A receipt goes only when it is due, shown as converged or
  given up by the pass that issued it, and each of these excludes a request in flight. Assumes
  finite sets and one more id than can be in use (the code draws a random one), and rests on
  the deadline outlasting a request (`Settled` in `ReceiptAges`).

The proof modules extend the modules they are about and hold nothing but the invariants, their
lemmas and the theorems. Each inductive invariant was first checked by TLC as an invariant of the
corresponding run's instances.

Only model-checked:
* all liveness, since fairness and ENABLED are out of the prover's reach;
* the refinement of `OneShot`: its safety part needs an invariant over all of Bootstrap;
* every property of CsiVolume, Bootstrap and of the load balancer in CloudController:
  no inductive invariant of theirs has been worked out yet;
* `ClosedBetweenPolicies`, which holds for the plans of `node_lb` and not for every plan (see
  `node_lb_reverted_edit`), and `GoneIsWithdrawn`, which needs the policy of every Service in each
  write in flight;
* `ReadyIsProtected` and `WithinLimit` of FirewallRelation.

## Known limits and observations

CSI
* With two CSI controller processes, which a rolling update can overlap for a moment, the per-VM
  lock does not exclude: a detach may settle and delete the fence of an attach that holds it but has
  not dispatched, so `FenceCoversWire` and `UnpublishIsFinal` are claimed for one process only.
* Of two concurrent DeleteVolume calls one may end in an error although the volume is gone.
* The driver tests only `ErrMutationBlocked`; a request that provably never left the process
  (`ErrMutationNotDispatched`) keeps its fence as if it had. That is safe and may need an operator.
* A crash between the fence and the request leaves a fence that no read resolves, here and in the
  other parts. That is the documented choice: the fence stays until an operator removes it.

Karpenter
* Of two overlapping Creates one may fail to read the record of bad addresses and publish the VM that
  the other deletes for its address (`provider.go:423-429`).
* Two overlapping Deletes of a claim may release the firewall slot while a DELETE is in flight.
* An unassign or DELETE of an address could reach a reallocated one only if the request outlasts the
  spaced proof; a DELETE receipt whose address is reallocated before it is observed holds the claim.
* A crash between issuing and sending an unassign or DELETE of an address holds the claim, and a
  claim whose assignment receipt stays issued blocks its own detach and other users of the firewall.

Bootstrap
* An address that appears after Destroy's bounded wait, and the address of a VM that comes so late that
  the slot's address receipt is an earlier VM's, stay behind (`waived.fips`).
* `resize.go` returns without a restart when `stopAndWait` fails, although the comment at 133-135
  reads otherwise (from reading; the resizer is not modelled).

CCM
* The mass-absence guard counts the Nodes that are left and is off below two (`cloud.go:814`), so a
  cluster of two can lose both within one window. "At most half of the nodes can be declared gone per
  five minutes" (`src/release-notes/v1.1.8.md`) is therefore shown for three Nodes or more, and for
  one process: its verdicts are forgotten when it restarts.
* Evidence of one brownout survives to a later, separate one if the VM is not read alive in between.
* The last target of a load balancer goes on one exact read that answers 404.
* A cleanup never retires a lost create or add, so the deletion of that Service waits for an
  operator. A request that commits after the retirement delay, or reads that leave a resource out,
  lead to a duplicate: `OnePaidOfEach` is claimed where neither happens (`Orderly`), and
  `NoPaidOrphan` where in addition one replica leads, since two leaders around a create can leave
  an orphan.

Node load balancer
* A shard or ICMP policy receipt issued just before a crash is refused for ever (`Stuck`).
* The retirement deadline of a relation counts from the issue, not from the sending.
* The limit of firewalls per VM can be exceeded by an ambiguous or late attachment of another owner.
* An absence observation for one VM whose relation then disappears holds the detach of another
  absent VM until an assignment clears it (`node_loadbalancer_firewall_relation_fence.go:349-364`).
* The ICMP firewall is detached from a VM whose authorization lapses before its label is withdrawn.
* The promotion of a shard policy (`node_loadbalancer_shard_state.go:1037-1054`) is not guarded
  against a second leader; NodeLB has one worker.

## Not modelled

The node plugin of the CSI driver, the resizer and the small Karpenter controllers act on one object
from one actor, without receipts. The detach authority and the shard planner are pure decisions over
reads; CsiVolume and NodeLB take their verdicts as inputs. Cloud-init and manifest generation, HTTP
encoding, API types, flag parsing, charts, playbooks and scripts have no protocol of their own.
Public-node-local and the per-VM ledger of the node load balancer are protocols, and the plan.

## Plan

1. **NodeLbMigration**: the per-VM ledger and the planned, opened, detaching and aborting phases in
   both directions, on the receipts of ShardFirewall and FirewallRelation; then public-node-local.
2. **ShardPlan**: the planner as an operator against a reference definition of port-disjoint shards.
3. Two leaders and lagging lists in ShardFirewall; the ICMP policy receipt.
4. **StatusStore**: the file (lock, rename, readback) shown to implement the one-step register.
5. **CsiNode, DetachAuthority, Resizer**.
6. `OneShot` as the abstract specification of StandardNLB, CsiVolume and FirewallRelation too.
7. Theorems: `FenceCoversWire` of CsiVolume, `ReadyIsProtected` of FirewallRelation, the safety part
   of `OneShotCreates`.

Later runs join workloads in one instance, as the present ones do, so that each remains one question.
