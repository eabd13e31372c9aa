------------------------------ MODULE CsiVolume ------------------------------
(***************************************************************************)
(* The controller half of the InSpace CSI driver: EnsureVolume,            *)
(* DeleteVolume, AttachVolume, DetachVolume and ExpandVolume of            *)
(* csi-driver/pkg/cloud/inspace, with the durable mutation fences          *)
(* (Kubernetes Leases) that guard every non-idempotent cloud call.         *)
(*                                                                         *)
(* A caller is one CSI RPC in flight in one controller process.  A read of *)
(* the cloud, an operation on a Lease and the dispatch of a cloud request  *)
(* are one step each; anything may happen between two of them.  A request  *)
(* that was dispatched stays on the wire until the cloud commits or drops  *)
(* it, however the HTTP call ended: the code treats every answer as        *)
(* ambiguous, so the answer itself is not modelled.                        *)
(*                                                                         *)
(* Lease operations are compare-and-swap on the whole fence (resource      *)
(* version and UID preconditions).  Cloud reads show the current state;    *)
(* lagging reads and the clock are the subject of AbsenceProof.            *)
(***************************************************************************)
EXTENDS Naturals, FiniteSets

CONSTANTS Callers, Procs, ProcOf,   \* RPCs, controller processes, who runs what
          Names, Disks, VMs, Sizes, \* volume names, disk UUIDs, VM UUIDs, GiB
          Workloads,                \* what an instance asks of the driver, see below
          NoVM, NoDisk, NoName, NoFence, NoCaller

ASSUME ProcOfType == ProcOf \in [Callers -> Procs]
ASSUME SizesNat == Sizes \subseteq Nat \ {0}
\* A workload: the RPCs and outside events of a behaviour, the disks provisioned
\* before it starts, the sizes asked for, and a bound on the fences it creates.
ASSUME WorkloadsKnown ==
  Workloads \subseteq
    [ops : SUBSET {"create", "delete", "attach", "detach", "expand", "operator", "removal"},
     existing : SUBSET Disks, sizes : SUBSET Sizes, attempts : 0..9]
ASSUME NoneAreFresh == /\ NoVM \notin VMs /\ NoDisk \notin Disks
                       /\ NoName \notin Names /\ NoCaller \notin Callers

VARIABLES
  disk,    \* cloud: name, status and size of every disk UUID
  att,     \* cloud: the VM a disk is attached to
  wire,    \* cloud: dispatched requests that may still commit
  fences,  \* Kubernetes: the mutation Leases, by key
  nodes,   \* Kubernetes: VMs whose Node object exists
  retired, \* Kubernetes: volume names whose deletion has been requested
  issued,  \* attempt tokens drawn so far
  call,    \* per caller: the RPC it serves and its local variables
  lock,    \* per process and VM: the caller inside lockVM
  load     \* the workload of this behaviour; it never changes

cloud == <<disk, att, wire>>
cluster == <<nodes, retired, load>>
vars == <<disk, att, wire, fences, nodes, retired, issued, call, lock, load>>

CKey(n) == <<"disk-create", n>>
AKey(d) == <<"disk-attachment", d>>
FenceKeys == {CKey(n) : n \in Names} \cup {AKey(d) : d \in Disks}

Visible(d) == disk[d].status \in {"creating", "active"}
Listed(n) == {d \in Disks : Visible(d) /\ disk[d].name = n}

-----------------------------------------------------------------------------
(* Fences.  The immutable intent is op, vm, rec and size; attempt is the     *)
(* random token; receipt and obs advance by compare-and-swap.                *)

Fence(op, vm, rec, size) ==
  [op |-> op, vm |-> vm, rec |-> rec, size |-> size,
   attempt |-> issued + 1, receipt |-> NoDisk, obs |-> 0]

SameIntent(f, g) == f.op = g.op /\ f.vm = g.vm /\ f.rec = g.rec /\ f.size = g.size

\* sameMutationFenceAuthority: everything but the observation.
SameAuthority(f, g) == [f EXCEPT !.obs = 0] = [g EXCEPT !.obs = 0]

\* issue: this invocation holds a fence whose mutation it has not dispatched.
\* seen: history, the attach attempts in flight when a detach began.
IdleCall(result) ==
  [op |-> "none", pc |-> "idle", stage |-> "none", name |-> NoName, disk |-> NoDisk,
   vm |-> NoVM, rec |-> FALSE, size |-> 0, fence |-> NoFence, cfence |-> NoFence,
   issue |-> FALSE, absent |-> FALSE, tries |-> 0, seen |-> {}, result |-> result]

KeyOf(c) == IF call[c].op = "create" THEN CKey(call[c].name) ELSE AKey(call[c].disk)

Goto(c, p) == call' = [call EXCEPT ![c].pc = p] /\ UNCHANGED lock

\* Every return runs the deferred unlockVM.
Return(c, result) ==
  /\ call' = [call EXCEPT ![c] = IdleCall(result)]
  /\ lock' = [lock EXCEPT ![ProcOf[c]] =
                [v \in VMs |-> IF @[v] = c THEN NoCaller ELSE @[v]]]

\* Create: the winner of the POST, the loser, or an outcome that the readback
\* could not establish (the Lease may exist all the same).
CreateFence(k, f, Won, Lost, Failed) ==
  \/ /\ fences[k] = NoFence /\ issued < load.attempts
     /\ fences' = [fences EXCEPT ![k] = f]
     /\ issued' = issued + 1
     /\ Won \/ Failed
  \/ fences[k] # NoFence /\ Lost /\ UNCHANGED <<fences, issued>>
  \/ Failed /\ UNCHANGED <<fences, issued>>

\* Delete: a missing fence counts as deleted, a changed one is an error, and a
\* failed call may have deleted it.
DeleteFence(k, f, Done, Failed) ==
  \/ /\ fences[k] \in {f, NoFence}
     /\ fences' = [fences EXCEPT ![k] = NoFence]
     /\ Done \/ Failed
  \/ Failed /\ UNCHANGED fences

\* Mutant: it is forgotten that dispatch ends the right to clear.
FailAlwaysClears(c) ==
  IF call[c].fence # NoFence
  THEN call' = [call EXCEPT ![c].pc = "clear", ![c].result = "err"] /\ UNCHANGED lock
  ELSE Return(c, "err")

\* clearUndispatched...: a caller that fails between winning its fence and
\* dispatching deletes that fence first; any other caller just returns.
Fail(c) ==
  IF call[c].issue
  THEN call' = [call EXCEPT ![c].pc = "clear", ![c].result = "err"] /\ UNCHANGED lock
  ELSE Return(c, "err")

ClearOk(c) ==
  call' = [call EXCEPT ![c].pc = "clear", ![c].result = "ok"] /\ UNCHANGED lock

Clear(c) ==
  /\ call[c].pc = "clear"
  /\ DeleteFence(KeyOf(c), call[c].fence, Return(c, call[c].result), Return(c, "err"))
  /\ UNCHANGED <<cloud, cluster, issued>>

-----------------------------------------------------------------------------
(* EnsureVolume *)

StartCreate(c, n, s) ==
  /\ call[c].pc = "idle"
  /\ call' = [call EXCEPT ![c] = [IdleCall("none") EXCEPT
                !.op = "create", !.pc = "list", !.name = n, !.size = s]]
  /\ UNCHANGED <<cloud, fences, cluster, issued, lock>>

\* Where EnsureVolume goes once the named disk is Ready: a disk found before
\* any fence of ours still needs a look at the fence.
AfterReady(stage) == IF stage = "found" THEN "getfence" ELSE "receipt"

\* validateDiskCreateReadback, then waitForDiskReady on the row just listed.
Readback(c, d, stage) ==
  IF disk[d].size # call[c].size
  THEN Fail(c)
  ELSE /\ call' = [call EXCEPT ![c].disk = d, ![c].stage = stage,
                     ![c].issue = @ /\ disk[d].status # "active",
                     ![c].pc = IF disk[d].status = "active" THEN AfterReady(stage)
                                                            ELSE "ready"]
       /\ UNCHANGED lock

ListDisks(c) ==
  /\ call[c].pc = "list"
  /\ \/ Listed(call[c].name) = {} /\ Goto(c, "begin")
     \/ \E d \in Listed(call[c].name) :
          IF Listed(call[c].name) = {d} THEN Readback(c, d, "found") ELSE Fail(c)
  /\ UNCHANGED <<cloud, fences, cluster, issued>>

\* waitForDiskReady polls GetDisk until the disk is active or terminal.
WaitReady(c) ==
  /\ call[c].pc = "ready"
  /\ disk[call[c].disk].status # "creating"
  /\ IF disk[call[c].disk].status = "active" /\ disk[call[c].disk].size = call[c].size
     THEN /\ call' = [call EXCEPT ![c].pc = AfterReady(call[c].stage), ![c].issue = FALSE]
          /\ UNCHANGED lock
     ELSE Fail(c)
  /\ UNCHANGED <<cloud, fences, cluster, issued>>

GetCreateFence(c) ==
  /\ call[c].pc = "getfence"
  /\ LET f == fences[CKey(call[c].name)] IN
     CASE f = NoFence -> Return(c, "ok")
       [] f # NoFence /\ f.size = call[c].size ->
            call' = [call EXCEPT ![c].fence = f, ![c].pc = "receipt"] /\ UNCHANGED lock
       [] OTHER -> Return(c, "err")
  /\ UNCHANGED <<cloud, fences, cluster, issued>>

SetReceipt(c) ==
  /\ call[c].pc = "receipt"
  /\ LET k == CKey(call[c].name)
         g == [call[c].fence EXCEPT !.receipt = call[c].disk] IN
     \/ /\ fences[k] = call[c].fence
        /\ fences' = [fences EXCEPT ![k] = g]
        /\ \/ call' = [call EXCEPT ![c].fence = g, ![c].pc = "complete"] /\ UNCHANGED lock
           \/ Return(c, "err")
     \/ Return(c, "err") /\ UNCHANGED fences
  /\ UNCHANGED <<cloud, cluster, issued>>

CompleteCreate(c) ==
  /\ call[c].pc = "complete"
  /\ DeleteFence(CKey(call[c].name), call[c].fence, Return(c, "ok"), Return(c, "err"))
  /\ UNCHANGED <<cloud, cluster, issued>>

\* beginDiskCreateFence, first its Get ...
Adopt(c, f) ==
  IF f.size = call[c].size
  THEN call' = [call EXCEPT ![c].fence = f, ![c].pc = "reconcile"] /\ UNCHANGED lock
  ELSE Return(c, "err")

BeginCreate(c) ==
  /\ call[c].pc = "begin"
  /\ IF fences[CKey(call[c].name)] = NoFence
     THEN Goto(c, "lease")
     ELSE Adopt(c, fences[CKey(call[c].name)])
  /\ UNCHANGED <<cloud, fences, cluster, issued>>

\* ... then its Create, which only the winner follows with a POST.
LeaseCreate(c) ==
  /\ call[c].pc = "lease" /\ call[c].op = "create"
  /\ LET k == CKey(call[c].name)
         f == Fence("create", NoVM, FALSE, call[c].size) IN
     CreateFence(k, f,
       call' = [call EXCEPT ![c].fence = f, ![c].issue = TRUE, ![c].pc = "relist"]
         /\ UNCHANGED lock,
       Adopt(c, fences[k]),
       Return(c, "err"))
  /\ UNCHANGED <<cloud, cluster>>

\* Mutant: the inventory is not read again once the fence is won.
RelistSkipped(c) ==
  /\ call[c].pc = "relist"
  /\ Goto(c, "dispatch")
  /\ UNCHANGED <<cloud, fences, cluster, issued>>

\* The post-fence inventory read: only exact absence authorizes the POST.
Relist(c) ==
  /\ call[c].pc = "relist"
  /\ \/ Listed(call[c].name) = {} /\ Goto(c, "dispatch")
     \/ \E d \in Listed(call[c].name) :
          IF Listed(call[c].name) = {d} THEN Readback(c, d, "adopt") ELSE Fail(c)
  /\ UNCHANGED <<cloud, fences, cluster, issued>>

\* reconcileDiskCreateFence polls until the named disk is listed.
Reconcile(c) ==
  /\ call[c].pc = "reconcile"
  /\ \E d \in Listed(call[c].name) :
       IF Listed(call[c].name) = {d} THEN Readback(c, d, "fenced") ELSE Fail(c)
  /\ UNCHANGED <<cloud, fences, cluster, issued>>

-----------------------------------------------------------------------------
(* The attachment fence: one per disk, shared by attach, detach and delete   *)

Requested(c) == [op |-> call[c].op, vm |-> call[c].vm, rec |-> call[c].rec, size |-> 0]

\* One of the three rounds of prepareAttachmentFence or prepareDiskDeleteFence.
Retry(c, p) ==
  IF call[c].tries = 2
  THEN Return(c, "err")
  ELSE /\ call' = [call EXCEPT ![c].tries = @ + 1, ![c].pc = p, ![c].fence = NoFence]
       /\ UNCHANGED lock

\* What the caller of settleExistingAttachmentFence does with its answer.
AfterSettle(c, done) ==
  CASE call[c].stage = "entry" ->
         call' = [call EXCEPT ![c].pc = "where", ![c].fence = NoFence] /\ UNCHANGED lock
    [] call[c].stage = "prepare" /\ call[c].op = "delete" -> Retry(c, "prepare")
    [] call[c].stage = "prepare" /\ call[c].op # "delete" ->
         IF done THEN Return(c, "ok")
         ELSE call' = [call EXCEPT ![c].pc = "lease", ![c].fence = NoFence] /\ UNCHANGED lock
    [] call[c].stage = "finish" -> Return(c, "ok")

\* settleExistingAttachmentFence: an unresolved delete is never settled here.
Settle(c) ==
  /\ call[c].pc = "settle"
  /\ LET f == fences[AKey(call[c].disk)] IN
     CASE f = NoFence -> AfterSettle(c, FALSE)
       [] f # NoFence /\ f.op = "delete" -> Return(c, "err")
       [] OTHER -> call' = [call EXCEPT ![c].fence = f, ![c].pc = "await"] /\ UNCHANGED lock
  /\ UNCHANGED <<cloud, fences, cluster, issued>>

\* waitForAttachment: the only transitional state is detached.
AwaitAttached(c) ==
  /\ call[c].pc = "await" /\ call[c].fence.op = "attach"
  /\ att[call[c].disk] # NoVM
  /\ IF att[call[c].disk] = call[c].fence.vm THEN Goto(c, "resolve") ELSE Return(c, "err")
  /\ UNCHANGED <<cloud, fences, cluster, issued>>

\* Mutant: a disk that answers "creating" or "active" is taken for a tombstone.
StillThereDetachOnly(c) ==
  IF call[c].fence.op = "detach" THEN att[call[c].disk] # NoVM ELSE FALSE

\* What waitForDetached and waitForDiskAbsent look for.
StillThere(c) ==
  IF call[c].fence.op = "detach" THEN att[call[c].disk] # NoVM ELSE Visible(call[c].disk)

\* The fence is gone or complete: delete it, after the matching create fence.
Resolved(c, f) ==
  /\ call' = [call EXCEPT ![c].fence = f,
                          ![c].pc = IF call[c].cfence # NoFence THEN "cfence"
                                                                        ELSE "resolve"]
  /\ UNCHANGED lock

\* The fence updateMutationObservation hands back when it succeeds: with the new
\* observation, or as another waiter has moved it.
Returned(c, obs) ==
  LET current == fences[AKey(call[c].disk)] IN
  IF current = call[c].fence THEN [current EXCEPT !.obs = obs] ELSE current

\* updateMutationObservation: write obs by compare-and-swap; a fence another
\* waiter has moved is adopted, a missing one was completed by another waiter.
Observe(c, obs, Updated, Completed) ==
  LET k == AKey(call[c].disk)
      f == call[c].fence IN
  \/ /\ fences[k] = f
     /\ fences' = [fences EXCEPT ![k] = Returned(c, obs)]
     /\ Updated \/ Return(c, "err")
  \/ /\ fences[k] \notin {f, NoFence}
     /\ IF SameAuthority(fences[k], f) THEN Updated ELSE Return(c, "err")
     /\ UNCHANGED fences
  \/ fences[k] = NoFence /\ Completed /\ UNCHANGED fences

Carry(c, f) == call' = [call EXCEPT ![c].fence = f] /\ UNCHANGED lock

\* The last observation ends the wait with whatever fence the update returned.
Advance(c) ==
  LET f == Returned(c, call[c].fence.obs + 1) IN
  IF call[c].fence.obs = 2 THEN Resolved(c, f) ELSE Carry(c, f)

\* The third persisted observation is not recognised after a restart.
\* Absence seen: the next of three spaced observations, or completion.
AwaitAbsence(c) ==
  /\ call[c].pc = "await" /\ call[c].fence.op # "attach"
  /\ ~StillThere(c)
  /\ IF call[c].fence.obs = 3
     THEN Resolved(c, call[c].fence) /\ UNCHANGED fences
     ELSE Observe(c, call[c].fence.obs + 1, Advance(c),
            IF call[c].fence.op = "delete"
            THEN Resolved(c, NoFence)
            ELSE AfterSettle(c, SameIntent(call[c].fence, Requested(c))))
  /\ UNCHANGED <<cloud, cluster, issued>>

\* Presence seen, or, for a delete, a read that failed: drop the evidence, and
\* give up on a disk that moved.
AwaitPresence(c) ==
  /\ call[c].pc = "await" /\ call[c].fence.op # "attach"
  /\ StillThere(c) \/ call[c].fence.op = "delete"
  /\ LET moved == call[c].fence.op = "detach" /\ att[call[c].disk] # call[c].fence.vm IN
     IF call[c].fence.obs = 0
     THEN moved /\ Return(c, "err") /\ UNCHANGED fences
     ELSE Observe(c, 0, IF moved THEN Return(c, "err") ELSE Carry(c, Returned(c, 0)),
                  Return(c, "err"))
  /\ UNCHANGED <<cloud, cluster, issued>>

\* DeleteVolume first completes the create fence of the disk it deleted.
DropCreateFence(c) ==
  /\ call[c].pc = "cfence"
  /\ DeleteFence(CKey(call[c].name), call[c].cfence,
       call' = [call EXCEPT ![c].cfence = NoFence, ![c].pc = "resolve"] /\ UNCHANGED lock,
       Return(c, "err"))
  /\ UNCHANGED <<cloud, cluster, issued>>

\* A DeleteVolume whose fence another waiter completed still deletes "its"
\* fence, now the zero value, which the store refuses.
Resolve(c) ==
  /\ call[c].pc = "resolve"
  /\ IF call[c].fence = NoFence
     THEN Return(c, "err") /\ UNCHANGED fences
     ELSE DeleteFence(AKey(call[c].disk), call[c].fence,
            AfterSettle(c, SameIntent(call[c].fence, Requested(c))), Return(c, "err"))
  /\ UNCHANGED <<cloud, cluster, issued>>

\* beginAttachmentFence, and the Create of prepareDiskDeleteFence.  Losing to
\* another delete joins its wait; losing to anything else starts a new round.
LeaseAttachment(c) ==
  /\ call[c].pc = "lease" /\ call[c].op \in {"attach", "detach", "delete"}
  /\ LET k == AKey(call[c].disk)
         f == Fence(call[c].op, call[c].vm, call[c].rec, 0)
         next == IF call[c].op = "delete" THEN "get" ELSE "attached" IN
     CreateFence(k, f,
       call' = [call EXCEPT ![c].fence = f, ![c].issue = TRUE, ![c].pc = next]
         /\ UNCHANGED lock,
       IF call[c].op = "delete" /\ fences[k].op = "delete"
       THEN call' = [call EXCEPT ![c].fence = fences[k], ![c].pc = next] /\ UNCHANGED lock
       ELSE Retry(c, IF call[c].op = "delete" THEN "prepare" ELSE "settle"),
       Return(c, "err"))
  /\ UNCHANGED <<cloud, cluster>>

-----------------------------------------------------------------------------
(* DeleteVolume *)

StartDelete(c, d) ==
  /\ call[c].pc = "idle"
  /\ call' = [call EXCEPT ![c] = [IdleCall("none") EXCEPT
                !.op = "delete", !.pc = "prepare", !.stage = "prepare", !.disk = d]]
  /\ retired' = retired \cup {disk[d].name}
  /\ UNCHANGED <<cloud, fences, nodes, load, issued, lock>>

PrepareDelete(c) ==
  /\ call[c].pc = "prepare"
  /\ LET f == fences[AKey(call[c].disk)] IN
     CASE f = NoFence -> Goto(c, "lease")
       [] f # NoFence /\ f.op = "delete" ->
            call' = [call EXCEPT ![c].fence = f, ![c].pc = "get"] /\ UNCHANGED lock
       [] OTHER -> Goto(c, "settle")
  /\ UNCHANGED <<cloud, fences, cluster, issued>>

\* The first GetDisk; a missing disk has neither name nor size to match.
GetDisk(c) ==
  /\ call[c].pc = "get"
  /\ LET row == disk[call[c].disk] IN
     call' = [call EXCEPT ![c].pc = "match", ![c].stage = "finish",
                ![c].name = IF row.status = "gone" THEN NoName ELSE row.name,
                ![c].size = IF row.status = "gone" THEN 0 ELSE row.size,
                ![c].absent = row.status \in {"deleted", "gone"}]
  /\ UNCHANGED <<cloud, fences, cluster, issued, lock>>

\* matchingDiskCreateFence.  A create fence for this disk must carry its
\* receipt: without one its POST may still commit.
MatchCreateFence(c) ==
  /\ call[c].pc = "match"
  /\ LET hits == {n \in Names : /\ fences[CKey(n)] # NoFence
                                /\ \/ fences[CKey(n)].receipt = call[c].disk
                                   \/ n = call[c].name}
         waits == call[c].absent \/ ~call[c].issue
         go == IF waits THEN "await" ELSE "attached" IN
     \/ /\ hits = {}
        /\ call' = [call EXCEPT ![c].pc = go, ![c].issue = ~waits]
        /\ UNCHANGED lock
     \/ \E n \in hits :
          IF /\ hits = {n} /\ fences[CKey(n)].receipt = call[c].disk
             /\ call[c].name = NoName \/ fences[CKey(n)].size = call[c].size
          THEN /\ call' = [call EXCEPT ![c].pc = go, ![c].issue = ~waits, ![c].name = n,
                                       ![c].cfence = fences[CKey(n)]]
               /\ UNCHANGED lock
          ELSE Fail(c)
  /\ UNCHANGED <<cloud, fences, cluster, issued>>

-----------------------------------------------------------------------------
(* AttachVolume, DetachVolume and ExpandVolume *)

\* resolveVM finds the Node; without one the RPC ends before it does anything.
StartAttach(c, d, v) ==
  /\ call[c].pc = "idle"
  /\ v \in nodes
  /\ call' = [call EXCEPT ![c] = [IdleCall("none") EXCEPT
                !.op = "attach", !.pc = "own", !.disk = d, !.vm = v]]
  /\ UNCHANGED <<cloud, fences, cluster, issued, lock>>

\* v = NoVM is the RPC without a node ID.
StartDetach(c, d, v) ==
  /\ call[c].pc = "idle"
  /\ call' = [call EXCEPT ![c] = [IdleCall("none") EXCEPT
                !.op = "detach", !.pc = "own", !.disk = d, !.vm = v,
                !.seen = {r.attempt : r \in {q \in wire : /\ q.op = "attach" /\ q.disk = d
                                                          /\ v \in {q.vm, NoVM}}}]]
  /\ UNCHANGED <<cloud, fences, cluster, issued, lock>>

StartExpand(c, d, s) ==
  /\ call[c].pc = "idle"
  /\ call' = [call EXCEPT ![c] = [IdleCall("none") EXCEPT
                !.op = "expand", !.pc = "own", !.disk = d, !.size = s]]
  /\ UNCHANGED <<cloud, fences, cluster, issued, lock>>

\* Mutant: detach trusts its first attachment read without settling the fence.
OwnDiskUnsettled(c) ==
  /\ call[c].pc = "own"
  /\ CASE ~Visible(call[c].disk) -> Return(c, IF call[c].op = "detach" THEN "ok" ELSE "err")
       [] Visible(call[c].disk) /\ call[c].op = "attach" -> Goto(c, "lock")
       [] OTHER -> Goto(c, "where")
  /\ UNCHANGED <<cloud, fences, cluster, issued>>

\* The first getOwnedDisk.  ControllerUnpublishVolume answers OK to NotFound.
OwnDisk(c) ==
  /\ call[c].pc = "own"
  /\ LET d == call[c].disk IN
     CASE ~Visible(d) -> Return(c, IF call[c].op = "detach" THEN "ok" ELSE "err")
       [] Visible(d) /\ call[c].op = "attach" -> Goto(c, "lock")
       [] Visible(d) /\ call[c].op = "expand" /\ disk[d].size >= call[c].size -> Return(c, "ok")
       [] OTHER -> /\ call' = [call EXCEPT ![c].pc = "settle", ![c].stage = "entry"]
                   /\ UNCHANGED lock
  /\ UNCHANGED <<cloud, fences, cluster, issued>>

\* attachedVM after the entry settle.  A detach for a Node that is gone needs
\* missingNodeDetachTarget to bind the attached VM to that Node.
FindAttachment(c) ==
  /\ call[c].pc = "where"
  /\ LET at == att[call[c].disk] IN
     IF call[c].op = "expand"
     THEN IF at = NoVM THEN Return(c, "err")
          ELSE call' = [call EXCEPT ![c].vm = at, ![c].pc = "lock"] /\ UNCHANGED lock
     ELSE IF at = NoVM \/ call[c].vm \notin {at, NoVM} THEN Return(c, "ok")
          ELSE /\ call' = [call EXCEPT ![c].vm = at, ![c].pc = "lock",
                             ![c].rec = @ \/ call[c].vm \in VMs \ nodes]
               /\ UNCHANGED lock
  /\ UNCHANGED <<cloud, fences, cluster, issued>>

LockVM(c) ==
  /\ call[c].pc = "lock"
  /\ lock[ProcOf[c]][call[c].vm] = NoCaller
  /\ lock' = [lock EXCEPT ![ProcOf[c]][call[c].vm] = c]
  /\ call' = [call EXCEPT ![c].pc = IF call[c].op = "expand" THEN "disk" ELSE "settle",
                          ![c].stage = "prepare"]
  /\ UNCHANGED <<cloud, fences, cluster, issued>>

\* Mutant: the VM a disk is on is read but not compared with the one expected.
ReadAttachmentUnchecked(c) ==
  /\ call[c].pc \in {"attached", "final"}
  /\ Goto(c, IF call[c].pc = "attached" THEN "disk" ELSE "dispatch")
  /\ UNCHANGED <<cloud, fences, cluster, issued>>

\* attachedVM under the fence, read once early and once as the last read before
\* dispatch.  The state the mutation starts from must hold; a state that
\* already is the wanted one ends the call; anything else fails it.
ReadAttachment(c) ==
  /\ call[c].pc \in {"attached", "final"}
  /\ LET at == att[call[c].disk]
         from == IF call[c].op \in {"detach", "expand"} THEN call[c].vm ELSE NoVM
         next == CASE call[c].pc = "attached" /\ call[c].op = "delete" -> "disk"
                   [] call[c].pc = "attached" /\ call[c].op # "delete" -> "vm"
                   [] call[c].pc = "final" /\ call[c].rec -> "reauth"
                   [] OTHER -> "dispatch" IN
     CASE at = from -> Goto(c, next)
       [] at # from /\ call[c].op = "attach" /\ at = call[c].vm -> ClearOk(c)
       [] at # from /\ call[c].op = "detach" /\ at = NoVM -> ClearOk(c)
       [] OTHER -> Fail(c)
  /\ UNCHANGED <<cloud, fences, cluster, issued>>

\* getOwnedVM and the disk rows of that VM.
ReadVM(c) ==
  /\ call[c].pc = "vm"
  /\ IF (att[call[c].disk] = call[c].vm) = (call[c].op = "detach")
     THEN Goto(c, "disk") ELSE ClearOk(c)
  /\ UNCHANGED <<cloud, fences, cluster, issued>>

\* getOwnedDisk between the two attachment reads.
ReadDisk(c) ==
  /\ call[c].pc = "disk"
  /\ LET d == call[c].disk IN
     CASE ~Visible(d) -> Fail(c)
       [] Visible(d) /\ call[c].op = "expand" /\ disk[d].size >= call[c].size -> Return(c, "ok")
       [] OTHER -> Goto(c, "final")
  /\ UNCHANGED <<cloud, fences, cluster, issued>>

\* missingNodeDetachTarget again, as the last check of a recovered detach.
Reauthorize(c) ==
  /\ call[c].pc = "reauth"
  /\ IF att[call[c].disk] = call[c].vm THEN Goto(c, "dispatch") ELSE Fail(c)
  /\ UNCHANGED <<cloud, fences, cluster, issued>>

\* waitForDiskSize
WaitSize(c) ==
  /\ call[c].pc = "size"
  /\ LET d == call[c].disk IN
     \/ ~Visible(d) /\ Return(c, "err")
     \/ Visible(d) /\ disk[d].size >= call[c].size /\ Return(c, "ok")
  /\ UNCHANGED <<cloud, fences, cluster, issued>>

\* The cloud call.  From here the fence guards an outcome nobody knows yet.
Dispatch(c) ==
  /\ call[c].pc = "dispatch"
  /\ wire' = wire \cup {[op |-> call[c].op, name |-> call[c].name, disk |-> call[c].disk,
                         vm |-> call[c].vm, size |-> call[c].size,
                         attempt |-> IF call[c].issue THEN call[c].fence.attempt ELSE 0]}
  /\ call' = [call EXCEPT ![c].issue = FALSE, ![c].stage = "finish",
                          ![c].pc = CASE call[c].op = "create" -> "reconcile"
                                      [] call[c].op = "expand" -> "size"
                                      [] OTHER -> "await"]
  /\ UNCHANGED <<disk, att, fences, cluster, issued, lock>>

\* A read that fails, a fence that cannot be read or written, a wait that runs
\* out, too little deadline left to dispatch, a request the client blocked.
GiveUp(c) ==
  /\ call[c].pc \in {"list", "ready", "getfence", "begin", "relist", "reconcile", "settle",
                     "await", "prepare", "get", "match", "own", "where", "lock", "attached",
                     "final", "vm", "disk", "reauth", "dispatch", "size"}
  /\ Fail(c)
  /\ UNCHANGED <<cloud, fences, cluster, issued>>

-----------------------------------------------------------------------------
(* The cloud, the cluster and the process (external)                         *)

\* A dispatched request takes effect, if its target still permits it.  Nothing
\* in the cloud makes disk names unique.
Commit(r) ==
  /\ wire' = wire \ {r}
  /\ CASE r.op = "create" ->
            /\ \E d \in Disks :
                 /\ disk[d].status = "none"
                 /\ disk' = [disk EXCEPT ![d] =
                               [name |-> r.name, status |-> "creating", size |-> r.size]]
            /\ UNCHANGED att
       [] r.op = "delete" ->
            /\ Visible(r.disk) /\ att[r.disk] = NoVM
            /\ disk' = [disk EXCEPT ![r.disk].status = "deleted"]
            /\ UNCHANGED att
       [] r.op = "attach" ->
            /\ Visible(r.disk) /\ att[r.disk] = NoVM
            /\ att' = [att EXCEPT ![r.disk] = r.vm]
            /\ UNCHANGED disk
       [] r.op = "detach" ->
            /\ att[r.disk] = r.vm
            /\ att' = [att EXCEPT ![r.disk] = NoVM]
            /\ UNCHANGED disk
       [] r.op = "expand" ->
            /\ att[r.disk] = r.vm /\ r.size > disk[r.disk].size
            /\ disk' = [disk EXCEPT ![r.disk].size = r.size]
            /\ UNCHANGED att
  /\ UNCHANGED <<fences, cluster, issued, call, lock>>

\* A request is rejected or lost.
Drop(r) == wire' = wire \ {r} /\ UNCHANGED <<disk, att, fences, cluster, issued, call, lock>>

\* A disk becomes active; later its tombstone may disappear.
Settled(d) ==
  /\ disk[d].status \in {"creating", "deleted"}
  /\ disk' = [disk EXCEPT ![d].status = IF @ = "creating" THEN "active" ELSE "gone"]
  /\ UNCHANGED <<att, wire, fences, cluster, issued, call, lock>>

NodeRemoved(v) ==
  /\ "removal" \in load.ops
  /\ v \in nodes
  /\ nodes' = nodes \ {v}
  /\ UNCHANGED <<cloud, retired, load, fences, issued, call, lock>>

\* The operator removes a fence whose mutation can no longer commit, with the
\* controller scaled to zero.
OperatorRemovesFence(k) ==
  /\ "operator" \in load.ops
  /\ fences[k] # NoFence
  /\ \A c \in Callers : call[c].pc = "idle"
  /\ \A r \in wire : r.attempt # fences[k].attempt
  /\ fences' = [fences EXCEPT ![k] = NoFence]
  /\ UNCHANGED <<cloud, cluster, issued, call, lock>>

\* A controller process dies; its requests stay on the wire.
Crash(p) ==
  /\ \E c \in Callers : ProcOf[c] = p /\ call[c].pc # "idle"
  /\ call' = [c \in Callers |-> IF ProcOf[c] = p THEN IdleCall("none") ELSE call[c]]
  /\ lock' = [lock EXCEPT ![p] = [v \in VMs |-> NoCaller]]
  /\ UNCHANGED <<cloud, fences, cluster, issued>>

-----------------------------------------------------------------------------

\* A volume handle names a disk that once existed.
Known == {d \in Disks : disk[d].status # "none"}

\* The external provisioner deletes a volume only when no CreateVolume of its
\* name is in flight, and never asks for that name again (names carry the UID of
\* the claim, and a volume handle exists only once CreateVolume has returned it).
Start(c) ==
  \/ /\ "create" \in load.ops
     /\ \E n \in Names \ retired, s \in load.sizes : StartCreate(c, n, s)
  \/ /\ "delete" \in load.ops
     /\ \E d \in Known :
          /\ \A o \in Callers : call[o].op = "create" => disk[d].name # call[o].name
          /\ StartDelete(c, d)
  \/ /\ "attach" \in load.ops
     /\ \E d \in Known, v \in VMs : StartAttach(c, d, v)
  \/ /\ "detach" \in load.ops
     /\ \E d \in Known, v \in VMs \cup {NoVM} : StartDetach(c, d, v)
  \/ /\ "expand" \in load.ops
     /\ \E d \in Known, s \in load.sizes : StartExpand(c, d, s)

Step(c) ==
  \/ ListDisks(c) \/ WaitReady(c) \/ GetCreateFence(c) \/ SetReceipt(c)
  \/ CompleteCreate(c) \/ BeginCreate(c) \/ LeaseCreate(c) \/ Relist(c) \/ Reconcile(c)
  \/ Settle(c) \/ AwaitAttached(c) \/ AwaitAbsence(c) \/ AwaitPresence(c)
  \/ DropCreateFence(c) \/ Resolve(c) \/ LeaseAttachment(c)
  \/ PrepareDelete(c) \/ GetDisk(c) \/ MatchCreateFence(c)
  \/ OwnDisk(c) \/ FindAttachment(c) \/ LockVM(c) \/ ReadAttachment(c) \/ ReadVM(c)
  \/ ReadDisk(c) \/ Reauthorize(c) \/ WaitSize(c) \/ Dispatch(c) \/ Clear(c) \/ GiveUp(c)

Environment ==
  \/ \E r \in wire : Commit(r) \/ Drop(r)
  \/ \E d \in Disks : Settled(d)
  \/ \E v \in VMs : NodeRemoved(v)
  \/ \E k \in FenceKeys : OperatorRemovesFence(k)
  \/ \E p \in Procs : Crash(p)

Next == (\E c \in Callers : Start(c) \/ Step(c)) \/ Environment

\* Some disks are already active, each under its own name, wherever attached.
Init ==
  /\ load \in Workloads
  /\ \E own \in [load.existing -> Names], s \in load.sizes :
       /\ \A d, e \in load.existing : own[d] = own[e] => d = e
       /\ disk = [d \in Disks |->
                    IF d \in load.existing
                    THEN [name |-> own[d], status |-> "active", size |-> s]
                    ELSE [name |-> NoName, status |-> "none", size |-> 0]]
  /\ att \in [Disks -> VMs \cup {NoVM}]
  /\ \A d \in Disks \ load.existing : att[d] = NoVM
  /\ wire = {}
  /\ fences = [k \in FenceKeys |-> NoFence]
  /\ nodes = VMs
  /\ retired = {}
  /\ issued = 0
  /\ call = [c \in Callers |-> IdleCall("none")]
  /\ lock = [p \in Procs |-> [v \in VMs |-> NoCaller]]

Spec == Init /\ [][Next]_vars

-----------------------------------------------------------------------------
(* Properties *)

FenceKeyOf(r) == IF r.op = "create" THEN CKey(r.name) ELSE AKey(r.disk)

\* While a create, attach, detach or delete may still commit, the very fence
\* drawn for it stands: no settle, completion, clearing or crash removes the
\* fence of a mutation whose outcome is open (the rule behind
\* reconcileDiskCreateFence, settleExistingAttachmentFence and every
\* deleteMutationFenceDetached).
FenceCoversWire ==
  \A r \in wire : r.op # "expand" =>
    /\ fences[FenceKeyOf(r)] # NoFence
    /\ fences[FenceKeyOf(r)].attempt = r.attempt

\* A mutation in flight still finds the state its final reads established: an
\* attach or delete a detached disk, a detach the disk on its VM.  A late commit
\* therefore never steals an attachment and never deletes a disk in use
\* (AttachVolume, DetachVolume and DeleteVolume's last attachedVM read).
NoStaleMutation ==
  \A r \in wire :
    /\ r.op \in {"attach", "delete"} => att[r.disk] = NoVM
    /\ r.op = "detach" => att[r.disk] = r.vm
    /\ r.op = "attach" => Visible(r.disk)

\* EnsureVolume never yields two disks of one name, whatever is lost, retried,
\* crashed or repeated: the cloud itself would accept the duplicate.
NoDuplicateName == \A n \in Names : Cardinality(Listed(n)) <= 1

Returns(c, op) == call[c].op = op /\ call'[c].pc = "idle" /\ call'[c].result = "ok"

\* A successful ControllerUnpublishVolume is final: no attach to that node that
\* was in flight when it began can still commit (DetachVolume settles the fence
\* before it trusts an empty readback).
UnpublishIsFinal ==
  [][\A c \in Callers : Returns(c, "detach") =>
       \A r \in wire : r.attempt \notin call[c].seen]_vars

\* A successful DeleteVolume leaves nothing behind that could bring the volume
\* back or still act on it: the disk is gone, attached nowhere, and neither a
\* request for it nor a create of its name is in flight.
DeleteIsFinal ==
  [][\A c \in Callers : Returns(c, "delete") =>
       LET d == call[c].disk IN
       /\ ~Visible(d) /\ att[d] = NoVM
       /\ \A r \in wire : r.disk # d /\ ~(r.op = "create" /\ r.name = disk[d].name)]_vars

\* A resize is dispatched only when no attach, detach or delete of the disk is
\* still undecided (ExpandVolume settles the attachment fence first).
ResizeAfterSettled ==
  [][\A r \in wire' \ wire : r.op = "expand" =>
       \A q \in wire : q.op # "expand" => q.disk # r.disk]_vars

\* After winning the create fence, a failed or contradictory inventory read
\* keeps the fence (EnsureVolume's post-fence ListDisks).
FailedReadKeepsFence ==
  [][\A c \in Callers : call[c].pc = "relist" => call'[c].pc # "clear"]_vars

=============================================================================
