--------------------------- MODULE KarpenterCreate ---------------------------
(***************************************************************************)
(* The launch of one NodeClaim by the Karpenter provider, from the create   *)
(* fence kept in the NodeClaim's annotations to the release of the          *)
(* create-protection finalizer.                                             *)
(*                                                                         *)
(* Actors: Create invocations (two of them overlap when an old leader is    *)
(* still running), the create-fence controller, Karpenter's own lifecycle   *)
(* controller and the operator (both external), and the cloud.              *)
(*                                                                         *)
(* The NodeClaim is one API object, so every store operation (read, compare *)
(* and Update, read back) is one step here; a write by anyone but the       *)
(* controller ends the freshness of the copy the controller works with,     *)
(* which is what its optimistic lock compares.  Cloud reads see the present *)
(* state.  What is uncertain is which requests still are on the wire: a     *)
(* VM POST or DELETE may take effect at any time after it was sent, or      *)
(* never, whatever its sender was told.                                     *)
(***************************************************************************)
EXTENDS Naturals, FiniteSets

CONSTANTS Creators,     \* the Create invocations
          None          \* no VM, no issue

ASSUME NoneAssumption == None \notin Creators

VARIABLES
    claim,      \* the NodeClaim: present, deleting, its two finalizers, ProviderID
    rec,        \* the create-fence annotation
    fipu,       \* the floating-IP-update annotation: phase and VM
    removal,    \* the removal-mutation annotation
    operator,   \* the operator's create-fence-resolution annotation
    vm, fip,    \* the cloud: the VM of each POST, and its auto-reserved address
    posting,    \* VM POSTs on the wire, by the Create that sent them
    dropping,   \* VM DELETEs on the wire
    posts,      \* number of VM POSTs ever sent
    bad,        \* the list of bad addresses holds the address of the VM
    cr,         \* local state of each Create
    ctl         \* local state of the controller's reconcile

kube == <<claim, rec, fipu, removal, operator>>
cloud == <<vm, fip, posting, dropping, posts, bad>>
vars == <<kube, cloud, cr, ctl>>

(* A VM is named after the Create whose POST makes it. *)
VMs == Creators

NoFence == [phase |-> "none", issue |-> None, created |-> None, fw |-> "none",
            rollback |-> FALSE, receipts |-> {}, unresolved |-> FALSE,
            resolved |-> FALSE, marker |-> FALSE]

Records == [phase : {"none", "reserved", "issued", "rejected", "materialized"},
            issue : Creators \cup {None}, created : VMs \cup {None},
            fw : {"none", "intent", "issued", "rejected", "observed"},
            rollback : BOOLEAN, receipts : SUBSET VMs, unresolved : BOOLEAN,
            resolved : BOOLEAN, marker : BOOLEAN]

IdleCreate == [pc |-> "idle", allow |-> FALSE, issue |-> None, vm |-> None,
               rb |-> FALSE, receipt |-> FALSE]

IdleController == [pc |-> "idle", snap |-> NoFence, aud |-> NoFence,
                   deleting |-> FALSE, fresh |-> FALSE, vm |-> None]

Init ==
    /\ claim = [present |-> TRUE, deleting |-> FALSE, prot |-> FALSE,
                term |-> TRUE, pid |-> None]
    /\ rec = NoFence
    /\ fipu = [phase |-> "none", vm |-> None]
    /\ removal = [phase |-> "none", vm |-> None]
    /\ operator = [result |-> "none", vm |-> None]
    /\ vm = [v \in VMs |-> "none"]
    /\ fip = [v \in VMs |-> "none"]
    /\ posting = {} /\ dropping = {} /\ posts = 0
    /\ bad \in BOOLEAN
    /\ cr = [c \in Creators |-> IdleCreate]
    /\ ctl = IdleController

Live == {v \in VMs : vm[v] = "live"}

-----------------------------------------------------------------------------
(* Steps of a Create and of the controller. *)

At(c, pc) == cr[c].pc = pc
Goto(c, pc) == cr' = [cr EXCEPT ![c].pc = pc]
Finish(c) == cr' = [cr EXCEPT ![c] = IdleCreate]

(* A write to the NodeClaim by someone other than the controller. *)
Stale == ctl' = [ctl EXCEPT !.fresh = FALSE]

CtlAt(pc) == ctl.pc = pc
CtlDone == ctl' = IdleController

-----------------------------------------------------------------------------
(* Operations of the create-fence store: what each requires of the stored   *)
(* record, and the record it writes.                                        *)

(* Mutant: the phase is not compared. *)
CanAuthorizeTwice ==
    /\ ~claim.deleting /\ claim.prot /\ claim.term
    /\ ~rec.rollback /\ rec.receipts = {}

(* Authorize demands a live, still reserved claim under both finalizers. *)
CanAuthorize ==
    /\ ~claim.deleting /\ claim.prot /\ claim.term
    /\ rec.phase = "reserved" /\ ~rec.rollback /\ rec.receipts = {}

Authorized(c) == [rec EXCEPT !.phase = "issued", !.issue = c, !.fw = "issued"]

(* RecordCreatedVM: the anchor is written once, and only to an issued        *)
(* attempt that no rollback has ended; deletion does not matter.             *)
CanAnchor(issue, v) ==
    /\ claim.prot /\ rec.issue = issue /\ issue # None
    /\ \/ rec.created = v
       \/ /\ rec.created = None /\ rec.phase = "issued" /\ ~rec.rollback
          /\ rec.fw = "issued"

Anchored(v) == [rec EXCEPT !.created = v]

(* AuthorizeBaseFirewall, and the assignment it leads to. *)
CanAssignFirewall(v) ==
    claim.prot /\ rec.phase = "issued" /\ rec.created = v

(* AuthorizeFloatingIPUpdate: the phase of the fence does not matter. *)
CanUpdateFloatingIP(v) == claim.prot /\ rec.created = v

(* Mutant: the phase is not compared. *)
CanRollbackLate(issue, v) ==
    claim.prot /\ rec.issue = issue /\ rec.created = v

(* ChooseRollback: only of the anchored VM of an issued attempt. *)
CanRollback(issue, v) ==
    claim.prot /\ rec.issue = issue /\ rec.created = v /\ rec.phase = "issued"

(* The receipt names the address of the VM; without one the record says that *)
(* the address is unresolved.                                                *)
RolledBack(r, v, receipt) ==
    IF r.rollback /\ (~receipt \/ v \in r.receipts) THEN r
    ELSE [r EXCEPT !.rollback = TRUE, !.resolved = FALSE,
                   !.unresolved = ~receipt,
                   !.receipts = IF receipt THEN @ \cup {v} ELSE @]

CanReject(issue) ==
    /\ claim.prot /\ rec.issue = issue /\ issue # None
    /\ rec.phase = "issued" /\ rec.fw = "issued"
    /\ rec.created = None /\ ~rec.rollback /\ rec.receipts = {}

Rejected == [rec EXCEPT !.phase = "rejected", !.fw = "rejected"]

CanMaterialize(v) ==
    /\ claim.prot /\ rec.created = v
    /\ fipu = [phase |-> "observed", vm |-> v]
    /\ \/ rec.phase = "materialized"
       \/ /\ rec.phase = "issued" /\ rec.fw = "observed"
          /\ ~rec.rollback /\ rec.receipts = {}

Materialized == [rec EXCEPT !.phase = "materialized"]

(* Mutant: an issued DELETE is never repeated. *)
SendDeleteOnce(v) ==
    /\ vm[v] = "live"
    /\ claim.prot
    /\ removal.phase # "issued"
    /\ removal.phase = "observed" => removal.vm # v
    /\ removal' = [phase |-> "issued", vm |-> v]
    /\ dropping' = dropping \cup {v}

(* deleteCanonicalVM: the removal fence is issued before the DELETE leaves; *)
(* an issued one permits only the repetition of the same DELETE.            *)
SendDelete(v) ==
    /\ vm[v] = "live"
    /\ claim.prot
    /\ removal.phase = "issued" => removal.vm = v
    /\ removal.phase = "observed" => removal.vm # v
    /\ removal' = [phase |-> "issued", vm |-> v]
    /\ dropping' = dropping \cup {v}

(* Three spaced reads found the VMs V absent: the removal fence of one of   *)
(* them is observed, and their addresses are deleted when receipts name them.*)
FinishDelete(V, reap) ==
    /\ V \cap Live = {}
    /\ removal' = IF removal.phase = "issued" /\ removal.vm \in V
                  THEN [removal EXCEPT !.phase = "observed"] ELSE removal
    /\ fip' = [v \in VMs |-> IF v \in V /\ reap THEN "none" ELSE fip[v]]

-----------------------------------------------------------------------------
(* CloudProvider.Create and Adapter.CreateVM.                               *)

(* Read the fence, or reserve it (and the removal fence) on a claim that     *)
(* still has Karpenter's finalizer.  A rollback or cleanup receipt means     *)
(* this claim launches nothing any more.                                     *)
Start(c) ==
    /\ At(c, "idle")
    /\ claim.present /\ ~claim.deleting /\ claim.pid = None
    /\ ~rec.rollback /\ rec.receipts = {}
    /\ \/ /\ rec.phase = "none" /\ claim.term
          /\ rec' = [NoFence EXCEPT !.phase = "reserved", !.fw = "intent"]
          /\ claim' = [claim EXCEPT !.prot = TRUE]
          /\ removal' = [phase |-> "ready", vm |-> None]
          /\ Stale
       \/ rec.phase # "none" /\ UNCHANGED <<rec, claim, removal, ctl>>
    /\ cr' = [cr EXCEPT ![c] =
                [pc |-> "launch", allow |-> rec.phase \in {"none", "reserved"},
                 issue |-> rec.issue, vm |-> rec.created, rb |-> FALSE,
                 receipt |-> FALSE]]
    /\ UNCHANGED <<fipu, operator, cloud>>

(* An anchored VM is completed, and may be rolled back; a VM that is only    *)
(* found is anchored but never rolled back by this invocation.  An           *)
(* invocation allowed to POST that finds a VM asks to adopt it, which a      *)
(* fence issued meanwhile refuses.                                           *)
Launch(c) ==
    /\ At(c, "launch")
    /\ \/ /\ cr[c].vm # None /\ cr[c].vm \in Live
          /\ cr' = [cr EXCEPT ![c].pc = "anchor", ![c].rb = TRUE]
       \/ /\ cr[c].vm = None /\ ~cr[c].allow
          /\ \E v \in Live : cr' = [cr EXCEPT ![c].pc = "anchor", ![c].vm = v]
       \/ /\ cr[c].vm = None /\ cr[c].allow /\ Live = {}
          /\ Goto(c, "authorize")
    /\ UNCHANGED <<kube, cloud, ctl>>

(* The issue CAS.  When its readback cannot be trusted the invocation knows  *)
(* that it sent nothing and goes on to reject its own issue.                 *)
Authorize(c) ==
    /\ At(c, "authorize")
    /\ CanAuthorize
    /\ rec' = Authorized(c)
    /\ \E pc \in {"preflight", "reject"} :
          cr' = [cr EXCEPT ![c].pc = pc, ![c].issue = c]
    /\ Stale
    /\ UNCHANGED <<claim, fipu, removal, operator, cloud>>

(* The inventory repeated after the CAS: a failed proof or the SDK's local   *)
(* guard rejects, absence sends the POST.  (One exact VM would be anchored   *)
(* instead: with a fence that was still reserved there is none to find.)     *)
Preflight(c) ==
    /\ At(c, "preflight")
    /\ \/ /\ Live = {}
          /\ posting' = posting \cup {c}
          /\ posts' = posts + 1
          /\ Goto(c, "await")
       \/ Goto(c, "reject") /\ UNCHANGED <<posting, posts>>
    /\ UNCHANGED <<kube, vm, fip, dropping, bad, ctl>>

(* The answer, or the reads after an ambiguous one, show the VM. *)
Answer(c) ==
    /\ At(c, "await") /\ c \in Live
    /\ cr' = [cr EXCEPT ![c].pc = "anchor", ![c].vm = c, ![c].rb = TRUE]
    /\ UNCHANGED <<kube, cloud, ctl>>

MarkRejected(c) ==
    /\ At(c, "reject")
    /\ CanReject(cr[c].issue)
    /\ rec' = Rejected
    /\ Finish(c) /\ Stale
    /\ UNCHANGED <<claim, fipu, removal, operator, cloud>>

RecordCreatedVM(c) ==
    /\ At(c, "anchor")
    /\ CanAnchor(cr[c].issue, cr[c].vm)
    /\ rec' = Anchored(cr[c].vm)
    /\ Goto(c, "protect") /\ Stale
    /\ UNCHANGED <<claim, fipu, removal, operator, cloud>>

(* ensureProtection, first half: the base firewall. *)
Protect(c) ==
    /\ At(c, "protect") /\ cr[c].vm \in Live
    /\ rec.created = cr[c].vm
    /\ \/ rec.fw = "observed" /\ rec' = rec
       \/ CanAssignFirewall(cr[c].vm) /\ rec' = [rec EXCEPT !.fw = "observed"]
    /\ Goto(c, "name") /\ Stale
    /\ UNCHANGED <<claim, fipu, removal, operator, cloud>>

(* Second half: the floating IP is renamed once, under its own receipt, and  *)
(* the receipt is observed when the new name is read back.                   *)
AuthorizeName(c) ==
    /\ At(c, "name") /\ CanUpdateFloatingIP(cr[c].vm)
    /\ fip[cr[c].vm] = "auto" /\ fipu.phase \in {"none", "rejected"}
    /\ fipu' = [phase |-> "issued", vm |-> cr[c].vm]
    /\ Goto(c, "patch") /\ Stale
    /\ UNCHANGED <<claim, rec, removal, operator, cloud>>

(* The one PATCH, or the proof before it fails and the receipt is rejected. *)
Patch(c) ==
    /\ At(c, "patch")
    /\ \/ /\ cr[c].vm \in Live
          /\ fip' = [fip EXCEPT ![cr[c].vm] = "named"]
          /\ Goto(c, "name")
          /\ UNCHANGED <<fipu, ctl>>
       \/ /\ claim.prot /\ fipu = [phase |-> "issued", vm |-> cr[c].vm]
          /\ fipu' = [fipu EXCEPT !.phase = "rejected"]
          /\ Finish(c) /\ Stale
          /\ UNCHANGED fip
    /\ UNCHANGED <<claim, rec, removal, operator, vm, posting, dropping, posts, bad>>

ObserveName(c) ==
    /\ At(c, "name") /\ fip[cr[c].vm] = "named" /\ cr[c].vm \in Live
    /\ CanUpdateFloatingIP(cr[c].vm)
    /\ fipu.vm = cr[c].vm /\ fipu.phase \in {"issued", "observed"}
    /\ fipu' = [fipu EXCEPT !.phase = "observed"]
    /\ Goto(c, "materialize") /\ Stale
    /\ UNCHANGED <<claim, rec, removal, operator, cloud>>

(* Protection failed for good on a VM this invocation may roll back: with    *)
(* the address' receipt when the address has its name, without one only      *)
(* when the firewall could not be assigned.                                  *)
ProtectionFails(c) ==
    /\ cr[c].pc \in {"protect", "name"} /\ cr[c].rb /\ cr[c].vm \in Live
    /\ At(c, "name") => fip[cr[c].vm] = "named"
    /\ cr' = [cr EXCEPT ![c].pc = "rollback",
                        ![c].receipt = fip[cr[c].vm] = "named"]
    /\ UNCHANGED <<kube, cloud, ctl>>

ChooseRollback(c) ==
    /\ At(c, "rollback")
    /\ CanRollback(cr[c].issue, cr[c].vm)
    /\ rec' = RolledBack(rec, cr[c].vm, cr[c].receipt)
    /\ Goto(c, "undo") /\ Stale
    /\ UNCHANGED <<claim, fipu, removal, operator, cloud>>

(* cleanupLaunch: delete the VM, then the address if its receipt is stored. *)
UndoLaunch(c) ==
    /\ At(c, "undo")
    /\ \/ SendDelete(cr[c].vm) /\ UNCHANGED <<fip, cr>>
       \/ /\ FinishDelete({cr[c].vm}, cr[c].receipt)
          /\ Finish(c) /\ UNCHANGED dropping
    /\ Stale
    /\ UNCHANGED <<claim, rec, fipu, operator, vm, posting, posts, bad>>

MarkMaterialized(c) ==
    /\ At(c, "materialize")
    /\ CanMaterialize(cr[c].vm)
    /\ rec' = Materialized
    /\ Goto(c, "done") /\ Stale
    /\ UNCHANGED <<claim, fipu, removal, operator, cloud>>

(* Karpenter stores the ProviderID of the NodeClaim it got back.  The address  *)
(* is not recorded as bad, or the record could not be read: a failed read      *)
(* counts as 'not known bad'.                                                *)
Return(c) ==
    /\ At(c, "done") /\ claim.present
    /\ claim' = [claim EXCEPT !.pid = cr[c].vm]
    /\ Finish(c) /\ Stale
    /\ UNCHANGED <<rec, fipu, removal, operator, cloud>>

(* IsRecentlyBad finds the address recorded, whatever another Create of the   *)
(* same claim has read.                                                      *)
KnownBad(c) ==
    /\ At(c, "done") /\ bad
    /\ Goto(c, "recycle")
    /\ UNCHANGED <<kube, cloud, ctl>>

(* The address is known to be bad: Create deletes its own VM and returns     *)
(* insufficient capacity, upon which Karpenter deletes the claim.            *)
Recycle(c) ==
    /\ At(c, "recycle") /\ claim.present
    /\ \/ SendDelete(cr[c].vm) /\ UNCHANGED <<claim, rec, fip, cr>>
       \/ /\ FinishDelete({cr[c].vm}, TRUE)
          /\ rec' = IF claim.prot THEN [rec EXCEPT !.marker = TRUE] ELSE rec
          /\ claim' = [claim EXCEPT !.deleting = TRUE]
          /\ Finish(c) /\ UNCHANGED dropping
    /\ Stale
    /\ UNCHANGED <<fipu, operator, vm, posting, posts, bad>>

(* The invocation ends early: crash, deadline, lost answer, refused store    *)
(* operation, failed read.  What it sent stays on the wire.                  *)
Abandon(c) ==
    /\ ~At(c, "idle")
    /\ Finish(c)
    /\ UNCHANGED <<kube, cloud, ctl>>

Create(c) ==
    \/ Start(c) \/ Launch(c) \/ Authorize(c) \/ Preflight(c) \/ Answer(c)
    \/ MarkRejected(c) \/ RecordCreatedVM(c) \/ Protect(c) \/ AuthorizeName(c)
    \/ Patch(c) \/ ObserveName(c) \/ ProtectionFails(c) \/ ChooseRollback(c)
    \/ UndoLaunch(c) \/ MarkMaterialized(c) \/ Return(c) \/ KnownBad(c)
    \/ Recycle(c) \/ Abandon(c)

-----------------------------------------------------------------------------
(* CreateFenceController.Reconcile.                                         *)

(* A callback or a read handed the controller the current NodeClaim. *)
Refreshed(pc, v) ==
    [ctl EXCEPT !.pc = pc, !.vm = v, !.aud = rec', !.fresh = TRUE]

(* The VMs whose deletion the record read at the start of the pass permits. *)
Receipts(r) ==
    r.receipts \cup (IF r.phase = "materialized" THEN {r.created} ELSE {})

(* A deleting claim whose VM is known and not yet rolled back. *)
ChooseBranch(r) ==
    claim.deleting /\ r.phase = "issued" /\ r.created # None /\ ~r.rollback

(* The uncached read, and the branch it selects: Karpenter's own deletion    *)
(* goes first; an anchored VM of a deleting claim is rolled back; then the   *)
(* operator's decision, the cleanup, or the protection of an anchored VM.    *)
CtlRead ==
    /\ CtlAt("idle") /\ claim.present /\ claim.prot
    /\ ~(claim.deleting /\ claim.pid # None /\ claim.term)
    /\ \/ ChooseBranch(rec)
       \/ /\ fipu.vm \in {None, rec.created}
          /\ \/ claim.deleting \/ operator.result # "none"
             \/ rec.phase = "issued" /\ (rec.rollback \/ rec.created # None)
    /\ ctl' = [pc |-> IF ChooseBranch(rec) THEN "choose"
                      ELSE IF operator.result # "none" THEN "operator"
                      ELSE IF claim.deleting \/ rec.rollback THEN "clean"
                      ELSE "protect",
               snap |-> rec, aud |-> rec, deleting |-> claim.deleting,
               fresh |-> TRUE, vm |-> None]
    /\ UNCHANGED <<kube, cloud, cr>>

CtlChoose ==
    /\ CtlAt("choose")
    /\ CanRollback(ctl.snap.issue, ctl.snap.created)
    /\ rec' = RolledBack(rec, rec.created, rec.created \in ctl.snap.receipts)
    /\ CtlDone
    /\ UNCHANGED <<claim, fipu, removal, operator, cloud, cr>>

(* ProtectFencedCreate succeeds: firewall assigned, and an issued rename     *)
(* read back.                                                                *)
CtlProtect ==
    /\ CtlAt("protect") /\ ctl.snap.created \in Live
    /\ CanAssignFirewall(ctl.snap.created)
    /\ fipu.phase = "issued" => fip[fipu.vm] = "named"
    /\ rec' = [rec EXCEPT !.fw = "observed"]
    /\ fipu' = IF fipu.phase = "issued" THEN [fipu EXCEPT !.phase = "observed"]
               ELSE fipu
    /\ CtlDone
    /\ UNCHANGED <<claim, removal, operator, cloud, cr>>

(* It failed for longer than the durable deadline: after a fresh read the    *)
(* controller chooses rollback, with the receipt of a rename under way.      *)
CtlProtectFails ==
    /\ CtlAt("protect")
    /\ fipu.vm \in {None, rec.created} /\ ~rec.rollback
    /\ rec.created # None /\ CanRollback(rec.issue, rec.created)
    /\ rec' = RolledBack(rec, rec.created, fipu.phase \in {"issued", "observed"})
    /\ CtlDone
    /\ UNCHANGED <<claim, fipu, removal, operator, cloud, cr>>

(* CleanupFencedCreate, 1: every receipt's VM is deleted, then its address. *)
CtlReceipts ==
    /\ CtlAt("clean") /\ rec' = rec
    /\ LET R == Receipts(ctl.snap) IN
       \/ /\ \E v \in R : SendDelete(v)
          /\ ctl' = Refreshed("clean", None)
          /\ UNCHANGED fip
       \/ /\ FinishDelete(R, TRUE)
          /\ LET next == IF ctl.snap.created \in R \cup {None}
                         THEN "audit" ELSE "anchor"
             IN  ctl' = IF <<removal, fip>>' = <<removal, fip>>
                        THEN [ctl EXCEPT !.pc = next] ELSE Refreshed(next, None)
          /\ UNCHANGED dropping
    /\ UNCHANGED <<claim, fipu, operator, vm, posting, posts, bad, cr>>

(* The address of v is given its name, under the receipt of its rename. *)
NameAddress(v) ==
    /\ CanUpdateFloatingIP(v) /\ fip[v] \in {"auto", "named"}
    /\ fipu.vm \in {None, v}
    /\ fip[v] = "auto" => fipu.phase \in {"none", "rejected"}
    /\ fip' = [fip EXCEPT ![v] = "named"]
    /\ fipu' = [phase |-> "observed", vm |-> v]

(* 2: an anchored VM without a receipt.  Its address is named and proposed   *)
(* as a receipt; if that fails the rollback decision alone deletes it.       *)
CtlAnchor ==
    /\ CtlAt("anchor") /\ rec' = rec
    /\ LET v == ctl.snap.created IN
       \/ /\ v \in Live /\ NameAddress(v)
          /\ ctl' = Refreshed("persist", v)
          /\ UNCHANGED <<removal, dropping>>
       \/ /\ SendDelete(v)
          /\ ctl' = Refreshed("anchor", None)
          /\ UNCHANGED <<fip, fipu>>
       \/ /\ FinishDelete({v}, FALSE)
          /\ ctl' = IF removal' = removal THEN [ctl EXCEPT !.pc = "audit"]
                    ELSE Refreshed("audit", None)
          /\ UNCHANGED <<fipu, dropping>>
    /\ UNCHANGED <<claim, operator, vm, posting, posts, bad, cr>>

(* 3: a VM of this claim that no receipt covers is resolved: the firewall if *)
(* it can be, then the address; both need the VM to be the stored anchor.    *)
CtlResolve ==
    /\ CtlAt("audit")
    /\ \E v \in Live \ Receipts(ctl.snap) :
          /\ NameAddress(v)
          /\ rec' = IF CanAssignFirewall(v) THEN [rec EXCEPT !.fw = "observed"]
                    ELSE rec
          /\ ctl' = Refreshed("persist", v)
    /\ UNCHANGED <<claim, removal, operator, vm, posting, dropping, posts, bad, cr>>

(* Mutant: three empty snapshots settle every attempt. *)
EmptyIsEnough(r) == FALSE

IssuedUnobserved(r) ==
    r.issue # None /\ r.phase = "issued" /\ r.created = None /\ r.receipts = {}

(* 4: three empty snapshots.  A visible address keeps the pass pending: a    *)
(* named one always, an unnamed one while its VM is unknown or deleted       *)
(* without a receipt.  An attempt without any result stays unresolved.       *)
CtlAudit ==
    /\ CtlAt("audit") /\ Live = {}
    /\ LET r == ctl.snap
           untied == r.created \notin Receipts(r)
           tracking == (r.unresolved \/ r.resolved) /\ untied
           dependent == r.unresolved /\ untied
       IN  /\ \A v \in VMs :
                 /\ fip[v] \notin {"named", "looseNamed"}
                 /\ tracking => fip[v] # "loose"
           /\ ~IssuedUnobserved(r)
           /\ dependent \/ ctl.deleting
           /\ ctl' = [ctl EXCEPT !.pc = IF dependent THEN "dependents"
                                        ELSE "release"]
    /\ UNCHANGED <<kube, cloud, cr>>

(* persistCleanupResolution: the record read at the start of the pass, with  *)
(* the new receipt, under the resource version of the refreshed NodeClaim.   *)
WithReceipt(r, v) ==
    [r EXCEPT !.receipts = Receipts(r) \cup {v},
              !.unresolved = @ /\ r.created # v,
              !.resolved = @ /\ r.created # v]

CtlPersist ==
    /\ CtlAt("persist") /\ ctl.fresh
    /\ rec' = WithReceipt(ctl.snap, ctl.vm)
    /\ CtlDone
    /\ UNCHANGED <<claim, fipu, removal, operator, cloud, cr>>

CtlDependents ==
    /\ CtlAt("dependents") /\ ctl.fresh
    /\ ctl.snap.rollback /\ ctl.snap.created # None
    /\ rec' = [ctl.snap EXCEPT !.unresolved = FALSE, !.resolved = TRUE]
    /\ CtlDone
    /\ UNCHANGED <<claim, fipu, removal, operator, cloud, cr>>

(* removeProtection reads the claim again and compares the fence with the    *)
(* audited one.                                                              *)
CtlRelease ==
    /\ CtlAt("release")
    /\ claim.deleting /\ claim.prot
    /\ rec = ctl.aud /\ operator.result = "none"
    /\ claim' = [claim EXCEPT !.prot = FALSE]
    /\ rec' = NoFence
    /\ CtlDone
    /\ UNCHANGED <<fipu, removal, operator, cloud, cr>>

(* resolveOperatorCreateFence.  The annotation is cleared last, so a crash   *)
(* leaves it to a pass that finds the decision already stored.               *)
ClearOperator ==
    operator' \in {operator, [result |-> "none", vm |-> None]}

CtlOperatorVM ==
    /\ CtlAt("operator") /\ operator.result = "vm"
    /\ LET v == operator.vm IN
       \/ /\ ctl.snap.phase \in {"issued", "materialized"} /\ ctl.snap.created = v
          /\ ctl.fresh /\ rec' = rec
       \/ /\ ctl.snap.phase = "issued" /\ ctl.snap.created = None /\ ~ctl.snap.rollback
          /\ v \in Live /\ CanAssignFirewall(v) /\ CanAnchor(ctl.snap.issue, v)
          /\ rec' = [Anchored(v) EXCEPT !.fw = "observed"]
    /\ ClearOperator /\ CtlDone
    /\ UNCHANGED <<claim, fipu, removal, cloud, cr>>

CtlOperatorNoResult ==
    /\ CtlAt("operator") /\ operator.result = "noResult"
    /\ \/ /\ ctl.snap.phase = "rejected" /\ ctl.fresh /\ rec' = rec
       \/ /\ IssuedUnobserved(ctl.snap) /\ ~ctl.snap.rollback
          /\ Live = {} /\ \A v \in VMs : fip[v] = "none"
          /\ CanReject(ctl.snap.issue) /\ rec' = Rejected
    /\ ClearOperator /\ CtlDone
    /\ UNCHANGED <<claim, fipu, removal, cloud, cr>>

(* The pass ends early: crash, error, Pending or Unresolved, conflict. *)
CtlAbandon ==
    /\ ~CtlAt("idle")
    /\ CtlDone
    /\ UNCHANGED <<kube, cloud, cr>>

Controller ==
    \/ CtlRead \/ CtlChoose \/ CtlProtect \/ CtlProtectFails \/ CtlReceipts
    \/ CtlAnchor \/ CtlResolve \/ CtlAudit \/ CtlPersist \/ CtlDependents
    \/ CtlRelease \/ CtlOperatorVM \/ CtlOperatorNoResult \/ CtlAbandon

-----------------------------------------------------------------------------
(* Karpenter's lifecycle controller and the operator. *)

DeleteClaim ==
    /\ claim.present /\ ~claim.deleting
    /\ claim' = [claim EXCEPT !.deleting = TRUE]
    /\ Stale
    /\ UNCHANGED <<rec, fipu, removal, operator, cloud, cr>>

(* Karpenter finalizes the claim: without a ProviderID at once, else when    *)
(* CloudProvider.Delete, which insists on the materialized VM, reports the   *)
(* VM and its address gone.                                                  *)
Terminate ==
    /\ claim.present /\ claim.deleting /\ claim.term
    /\ \/ /\ claim.pid = None
          /\ claim' = [claim EXCEPT !.term = FALSE]
          /\ UNCHANGED <<rec, removal, fip, dropping>>
       \/ /\ claim.pid # None
          /\ rec.phase = "materialized" /\ rec.created = claim.pid
          /\ \/ SendDelete(claim.pid) /\ UNCHANGED <<claim, rec, fip>>
             \/ /\ FinishDelete({claim.pid}, TRUE)
                /\ rec' = [rec EXCEPT !.marker = TRUE]
                /\ claim' = [claim EXCEPT !.term = FALSE]
                /\ UNCHANGED dropping
    /\ Stale
    /\ UNCHANGED <<fipu, operator, vm, posting, posts, bad, cr>>

(* The API server removes a deleted claim without finalizers. *)
Vanish ==
    /\ claim.present /\ claim.deleting /\ ~claim.prot /\ ~claim.term
    /\ claim' = [claim EXCEPT !.present = FALSE]
    /\ UNCHANGED <<rec, fipu, removal, operator, cloud, cr, ctl>>

(* With the provider scaled to zero the operator settles an attempt that has *)
(* no anchor: a VM they see, or support's word that none will come.          *)
OperatorDecides ==
    /\ CtlAt("idle") /\ \A c \in Creators : At(c, "idle")
    /\ claim.prot /\ operator.result = "none"
    /\ rec.phase = "issued" /\ rec.created = None
    /\ \/ \E v \in Live : operator' = [result |-> "vm", vm |-> v]
       \/ /\ Live = {} /\ posting = {}
          /\ operator' = [result |-> "noResult", vm |-> None]
    /\ UNCHANGED <<claim, rec, fipu, removal, cloud, cr, ctl>>

(* The cloud: a request on the wire takes effect or is lost; a deleted VM    *)
(* takes its address along or leaves it unassigned.                          *)
PostSettles(c) ==
    /\ c \in posting
    /\ posting' = posting \ {c}
    /\ \/ vm' = [vm EXCEPT ![c] = "live"] /\ fip' = [fip EXCEPT ![c] = "auto"]
       \/ UNCHANGED <<vm, fip>>
    /\ UNCHANGED <<kube, dropping, posts, bad, cr, ctl>>

DeleteCommits(v) ==
    /\ v \in dropping /\ v \in Live
    /\ dropping' = dropping \ {v}
    /\ vm' = [vm EXCEPT ![v] = "gone"]
    /\ \E f \in {"none", IF fip[v] = "named" THEN "looseNamed" ELSE "loose"} :
          fip' = [fip EXCEPT ![v] = f]
    /\ UNCHANGED <<kube, posting, posts, bad, cr, ctl>>

DeleteLost(v) ==
    /\ v \in dropping
    /\ dropping' = dropping \ {v}
    /\ UNCHANGED <<kube, vm, fip, posting, posts, bad, cr, ctl>>

Next ==
    \/ \E c \in Creators : Create(c) \/ PostSettles(c)
    \/ \E v \in VMs : DeleteCommits(v) \/ DeleteLost(v)
    \/ Controller
    \/ DeleteClaim \/ Terminate \/ Vanish \/ OperatorDecides

Spec == Init /\ [][Next]_vars

(* Reconciles and Karpenter's finalization are requeued until they succeed,  *)
(* so a step of the cleanup that stays possible again and again is taken; a  *)
(* repeated DELETE eventually takes effect.  Nothing is assumed of Creates,  *)
(* of a single POST, or of the operator.                                     *)
Reconciles ==
    /\ WF_vars(CtlRead) /\ WF_vars(CtlAbandon) /\ WF_vars(Terminate)
    /\ SF_vars(CtlChoose) /\ SF_vars(CtlReceipts)
    /\ SF_vars(CtlAnchor) /\ SF_vars(CtlPersist)
    /\ \A v \in VMs : SF_vars(DeleteCommits(v))

FairSpec == Spec /\ Reconciles

(* The same of every step of the controller. *)
FullyFairSpec ==
    /\ FairSpec
    /\ SF_vars(CtlResolve) /\ SF_vars(CtlAudit) /\ SF_vars(CtlDependents)
    /\ SF_vars(CtlRelease) /\ SF_vars(CtlOperatorVM) /\ SF_vars(CtlOperatorNoResult)

-----------------------------------------------------------------------------
(* Properties. *)

(* The NodeClaim's annotations, the cloud's rows and the locals of Create and *)
(* of the controller hold the values the code can give them.                  *)
TypeOK ==
    /\ claim \in [present : BOOLEAN, deleting : BOOLEAN, prot : BOOLEAN,
                  term : BOOLEAN, pid : VMs \cup {None}]
    /\ rec \in Records
    /\ fipu \in [phase : {"none", "issued", "rejected", "observed"},
                 vm : VMs \cup {None}]
    /\ removal \in [phase : {"none", "ready", "issued", "observed"},
                    vm : VMs \cup {None}]
    /\ operator \in [result : {"none", "vm", "noResult"}, vm : VMs \cup {None}]
    /\ vm \in [VMs -> {"none", "live", "gone"}]
    /\ fip \in [VMs -> {"none", "auto", "named", "loose", "looseNamed"}]
    /\ posting \subseteq Creators /\ dropping \subseteq VMs
    /\ posts \in Nat /\ bad \in BOOLEAN
    /\ cr \in [Creators ->
                [pc : {"idle", "launch", "authorize", "preflight", "await",
                       "reject", "anchor", "protect", "name", "patch",
                       "rollback", "undo", "materialize", "done", "recycle"},
                 allow : BOOLEAN, issue : Creators \cup {None},
                 vm : VMs \cup {None}, rb : BOOLEAN, receipt : BOOLEAN]]
    /\ ctl \in [pc : {"idle", "choose", "operator", "clean", "protect", "anchor",
                      "audit", "persist", "dependents", "release"},
                snap : Records, aud : Records, deleting : BOOLEAN,
                fresh : BOOLEAN, vm : VMs \cup {None}]

(* However many Create invocations of whichever leaders overlap, crash or    *)
(* lose their answers, one NodeClaim sends at most one VM POST: the issue     *)
(* CAS of Authorize is won once and never granted again.                      *)
AtMostOnePost == posts <= 1

(* removeProtection gives up the finalizer only when nothing of this claim   *)
(* is left or can still appear: no VM, no address, no POST on the wire and no *)
(* Create that may still send one.                                            *)
NoEscape ==
    ~claim.prot =>
        /\ Live = {} /\ posting = {}
        /\ \A v \in VMs : fip[v] = "none"
        /\ \A c \in Creators : ~At(c, "preflight")

(* Rollback and materialization race for one VM; once Karpenter has the      *)
(* ProviderID of a claim that nobody deletes, the VM is materialized and not   *)
(* rolled back, and unless its address is recorded as bad it is alive and no   *)
(* DELETE for it is on the wire.  (A recorded address that one Create could    *)
(* not look up is published, while an overlapping Create deletes the VM.)      *)
PublishedIsSafe ==
    (claim.pid # None /\ ~claim.deleting) =>
        /\ rec.phase = "materialized" /\ rec.created = claim.pid /\ ~rec.rollback
        /\ ~bad => claim.pid \in Live /\ claim.pid \notin dropping

(* A deleting claim with an anchored VM, none of whose records was lost, and  *)
(* with no Create and no cleanup pass under way, loses that VM.               *)
AnchoredIsReaped ==
    (/\ claim.deleting /\ rec.created # None /\ fipu.vm \in {None, rec.created}
     /\ operator.result = "none"
     /\ CtlAt("idle") /\ \A c \in Creators : At(c, "idle")) ~> (Live = {})

(* "RollbackAt is an independent, irreversible decision": the anchor, the    *)
(* rollback and the materialization are not taken back while the fence is     *)
(* kept.                                                                      *)
DecisionsAreFinal ==
    [][claim'.prot =>
          /\ rec.created # None => rec'.created = rec.created
          /\ rec.rollback => rec'.rollback
          /\ rec.phase = "materialized" => rec'.phase = "materialized"]_vars

(* "An exact VM resumes normal adoption": an operator's VM decision is       *)
(* consumed by the controller, or its VM disappears.                          *)
OperatorVMConsumed ==
    (operator.result = "vm") ~> (operator.result = "none" \/ Live = {})

(* "retain the finalizer until an exact VM materializes or an operator       *)
(* resolves it": a VM that appears when its Create is gone and the claim is   *)
(* deleting is cleaned up, unless an operator steps in.                       *)
LateVMIsReaped ==
    (/\ claim.deleting /\ Live # {}
     /\ rec.created = None /\ rec.receipts = {}
     /\ CtlAt("idle") /\ \A c \in Creators : At(c, "idle"))
        ~> (Live = {} \/ operator.result # "none")

=============================================================================
