--------------------------- MODULE BootstrapCreate ---------------------------
(***************************************************************************)
(* One Reconcile pass of the bootstrap controller: the ordered creation of  *)
(* the bastion and the control planes, each behind a durable create         *)
(* receipt.                                                                 *)
(*                                                                         *)
(* A pass takes a snapshot and then walks through stages <<st, s>>:         *)
(*   "fw"    the managed firewall of slot s exists                          *)
(*   "vm"    the VM of slot s exists                                        *)
(*   "guard" a VM found or made in this pass is in its firewall             *)
(*   "prot"  a VM of the snapshot is in its firewall                        *)
(*   "fip"   its automatic floating IP carries the cluster's name           *)
(* All five run the same protocol on their receipt: intent, issued, a fresh *)
(* authority read, at most one request, readback.  A read and the receipt   *)
(* write that it decides are one step; the authority read and the request   *)
(* are two.                                                                 *)
(***************************************************************************)
EXTENDS BootstrapLedger

(* The receipt a stage works on. *)
Key(c) == IF c.st \in {"guard", "prot"} THEN <<"as", c.s>>
          ELSE IF c.st = "fw" THEN <<"fw", FirewallOf(c.s)>> ELSE <<c.st, c.s>>

(* The VM that the receipt of the stage names; a firewall has one identity. *)
Subject(p) == LET c == cmd[p]
              IN IF c.st = "guard" THEN mem[p].c[<<"vm", c.s>>].id
                 ELSE IF c.st = "fw" THEN Nil ELSE c.sn.vm[c.s]

Step(c, st, s) == [c EXCEPT !.l = "step", !.st = st, !.s = s, !.how = ""]
At(c, l) == [c EXCEPT !.l = l]

(* Reconcile's order for the bastion: a missing one needs its firewall first,
   an existing one is adopted first. *)
AfterBastion(c) ==
    CASE c.st = "vm" -> IF c.fd THEN Step(c, "prot", 0) ELSE Step(c, "fw", 0)
      [] c.st = "fw" -> [Step(c, IF c.sn.vm[0] = Nil THEN "vm" ELSE "prot", 0) EXCEPT !.fd = TRUE]
      [] c.st = "prot" -> Step(c, "fip", 0)
      [] c.st = "fip" -> Step(c, "fw", 1)

MissingPlanes(c) == {s \in Active \ {0} : c.sn.vm[s] = Nil}

(* Reconcile's order for the control planes.  While one is missing the slots
   are taken one by one and a VM is protected before the next slot; the pass
   then ends.  Otherwise all are adopted, then protected, then named. *)
AfterPlane(c) ==
    LET next(st) == IF c.s < size THEN Step(c, st, c.s + 1) ELSE AtPass(c.md)
        all(st, then) == IF c.s < size THEN Step(c, st, c.s + 1) ELSE Step(c, then, 1)
    IN CASE c.st = "fw" -> Step(c, "vm", 1)
         [] c.st = "vm" -> IF MissingPlanes(c) = {} THEN all("vm", "prot")
                           ELSE IF c.sn.vm[c.s] # Nil THEN Step(c, "prot", c.s) ELSE next("vm")
         [] c.st = "prot" -> IF MissingPlanes(c) = {} THEN all("prot", "fip") ELSE next("vm")
         [] c.st = "fip" -> next("fip")

After(c) == IF c.md = "destroy" THEN AtPass(c.md)
            ELSE IF c.s = 0 THEN AfterBastion(c) ELSE AfterPlane(c)

(* A firewall that now exists belongs to what the rest of the pass works with. *)
Done(c) == After(IF c.st = "fw" THEN [c EXCEPT !.sn.fw = @ \cup {FirewallOf(c.s)}] ELSE c)

(* Where a pass goes when the firewall relation is there, and when it could not
   be established.  ensureManagedVMCreate rolls a VM back that its own POST made
   and that it could not protect; ensureVMProtection looks at the deadline of
   the issued receipt. *)
Protected(c) == IF c.st = "guard" THEN At(c, "shape") ELSE Done(c)
Unprotected(c) == IF c.st = "prot" THEN At(c, "deadline")
                  ELSE IF c.how \in {"posted", "erred"} THEN At(c, "roll") ELSE AtPass(c.md)
Good(c) == IF c.st \in {"guard", "prot"} THEN Protected(c) ELSE Done(c)
Bad(c) == IF c.st \in {"guard", "prot"} THEN Unprotected(c) ELSE AtPass(c.md)

Guard(c, how) == [c EXCEPT !.l = "step", !.st = "guard", !.how = how]

-----------------------------------------------------------------------------
(* The start of a pass. *)

(* rejectForeignOwnedBootstrapNames, validateExistingVMs: a VM of that name that
   is not this cluster's, or not of the requested shape. *)
ForeignName(s) == \E v \in Named(s) : ~Ours(v)
DuplicateName(s) == Cardinality(Named(s)) > 1
WrongShape(s) == \E v \in Named(s) : ~vm[v].ok
(* validateControlPlaneBootstrapTopology *)
BrokenTopology == size > 0 /\ Named(1) = {} /\ \E s \in Active \ {0, 1} : Named(s) # {}
(* rejectResidualFloatingIPNames *)
ResidualName(s) == \E v \in Item(s) : vm[v].fip \in {"named", "free"}

ReconcileRefuses ==
    \/ BrokenTopology
    \/ \E s \in Active : \/ ForeignName(s) \/ DuplicateName(s) \/ WrongShape(s)
                         \/ Named(s) = {} /\ ResidualName(s)

RollbackKeys(p) == {k \in RemovalKeys : mem[p].d[k].why = "rollback"}

(* resumeRollbackDeletes, then the snapshot and its validation. *)
BeginReconcile(p) ==
    /\ cmd[p].l = "pass" /\ cmd[p].md = "reconcile" /\ Current(p)
    /\ IF RollbackKeys(p) # {}
       THEN \E k \in RollbackKeys(p) : Stay(p, [cmd[p] EXCEPT !.l = "rb", !.st = "vm", !.s = k[2]])
       ELSE IF ReconcileRefuses THEN Exit(p)
            ELSE LET c == [cmd[p] EXCEPT !.sn = Snapshot]
                 IN Stay(p, Step(c, IF c.sn.vm[0] = Nil THEN "fw" ELSE "vm", 0))
    /\ Count({}) /\ UNCHANGED <<env, cloud, faults>>

-----------------------------------------------------------------------------
(* The stages. *)

InSnapshot(p) ==
    LET c == cmd[p]
    IN CASE c.st = "vm" -> c.sn.vm[c.s] # Nil
         [] c.st = "fw" -> FirewallOf(c.s) \in c.sn.fw
         [] c.st = "fip" -> c.sn.fip[c.s] = "named"
         [] OTHER -> Subject(p) \in c.sn.with

Resolved(p, k, v) == IF mem[p].c[k].ph \in {"none", "intent"} THEN Adopt(p, k, v) ELSE Materialize(p, k, v)

(* The receipt names another object than the one at hand. *)
OtherSubject(p, k) == LET r == mem[p].c[k] IN r.id # Nil /\ r.id # Subject(p) /\ Subject(p) # Nil

(* Mutant: an issued receipt is sent again. *)
FreshOrIssued(p, k) == mem[p].c[k].ph \in {"none", "intent", "issued"}
Fresh(p, k) == mem[p].c[k].ph \in {"none", "intent"}

(* The stage is about to be decided by its receipt: nothing in the snapshot or the
   receipt's subject settles it. *)
ByReceipt(p) ==
    LET c == cmd[p]
    IN /\ ~OtherSubject(p, Key(c)) /\ ~InSnapshot(p)
       /\ c.st = "fip" => c.sn.fip[c.s] = "auto"
       /\ c.st = "vm" => ~ResidualName(c.s)

(* The first part of ensureManagedVMCreate, ensureManagedFirewallCreate,
   ensureExactFirewallAssignment and ensureOwnedAutoFloatingIP: what the snapshot
   or the receipt decides without another read. *)
EnterStage(p) ==
    LET c == cmd[p]
        k == Key(c)
        r == mem[p].c[k]
    IN /\ c.l = "step"
       /\ CASE OtherSubject(p, k) -> Exit(p)
            [] ~OtherSubject(p, k) /\ InSnapshot(p) -> Write(p, Resolved(p, k, Subject(p)), Good(c))
            [] ByReceipt(p) /\ r.ph = "rejected" -> Write(p, ClearRejection(p, k), Bad(c))
            [] ByReceipt(p) /\ c.st = "fw" /\ r.ph \in {"issued", "materialized", "adopted"} -> Stay(p, AtPass(c.md))
            [] ~OtherSubject(p, k) /\ ~InSnapshot(p) /\ ~ByReceipt(p) ->
                   IF c.st = "vm" THEN Exit(p) ELSE Stay(p, AtPass(c.md))
            [] OTHER -> FALSE
       /\ Count({}) /\ UNCHANGED <<env, cloud, faults>>

(* exactFirewallAssignmentState and readFloatingIPUpdateState: the relation, or
   the name, is there. *)
RelationThere(s, v) == SeesFw(FirewallOf(s)) /\ vm[v].st = "live" /\ vm[v].fw
NameThere(v) == SeesFip(v) /\ vm[v].fip = "named"

(* A fresh read shows that the mutation of receipt k took effect. *)
Committed(k, v) ==
    CASE k[1] = "vm" -> Named(k[2]) # {}
      [] k[1] = "fw" -> SeesFw(k[2])
      [] k[1] = "as" -> RelationThere(k[2], v)
      [] k[1] = "fip" -> NameThere(v)

(* recoverCreatedVMOwnership: the one VM of the slot's name is this cluster's. *)
Unowned(s) == ForeignName(s) \/ DuplicateName(s)

(* readVMCreateDispatchAuthority, validateFirewallCreateDispatchAuthority and
   readExactOwnedVMMutationAuthority: a name is ambiguous or somebody else's, the
   VM or the firewall that the request would name cannot be read back. *)
NoVMAuthority(s) == Unowned(s) \/ ~SeesFw(FirewallOf(s))
NoFirewallAuthority == FALSE
NoExactVM(v) == ~Sees(v)
NoNameAuthority(v) == NoExactVM(v) \/ ~SeesFip(v) \/ vm[v].fip \notin {"auto", "named"}

(* A fresh read is no authority for the request of receipt k. *)
NoAuthority(k, v) ==
    CASE k[1] = "vm" -> NoVMAuthority(k[2])
      [] k[1] = "fw" -> NoFirewallAuthority
      [] k[1] = "as" -> ~SeesFw(FirewallOf(k[2])) \/ NoExactVM(v)
      [] k[1] = "fip" -> NoNameAuthority(v)

(* The identity a committed create is recorded under. *)
Identity(k, v) == IF k[1] = "vm" THEN CHOOSE w \in Named(k[2]) : TRUE ELSE v

(* An issued receipt is never replayed: discoverCreatedVMIdentity and
   recoverCreatedVMOwnership, waitForExactFirewallAssignment and
   readFloatingIPUpdateState only look for what the lost request did. *)
RecoverIssued(p) ==
    LET c == cmd[p]
        k == Key(c)
        r == mem[p].c[k]
        v == IF k[1] = "vm" THEN r.id ELSE Subject(p)
    IN /\ c.l = "step" /\ ByReceipt(p) /\ ~Fresh(p, k) /\ r.ph # "rejected" /\ c.st # "fw"
       /\ IF k[1] = "vm"
          THEN IF r.id = Nil
               THEN IF Named(c.s) = {} \/ Unowned(c.s)
                    THEN Stay(p, AtPass(c.md))
                    ELSE Write(p, Materialize(p, k, Identity(k, v)), Guard(c, "found"))
               ELSE Stay(p, IF Sees(r.id) /\ ~DuplicateName(c.s) THEN Guard(c, "found") ELSE AtPass(c.md))
          ELSE IF Committed(k, v) THEN Write(p, Materialize(p, k, v), Good(c))
               ELSE IF k[1] = "fip" /\ r.ph # "issued" THEN Exit(p) ELSE Stay(p, Bad(c))
       /\ Count({}) /\ UNCHANGED <<env, cloud, faults>>

(* The in-gate read of an assignment, and the intent half of authorizeCreate. *)
PersistIntent(p) ==
    LET c == cmd[p]
        k == Key(c)
        r == mem[p].c[k]
        id == IF k[1] \in {"as", "fip"} THEN Subject(p) ELSE Nil
    IN /\ c.l = "step" /\ ByReceipt(p) /\ Fresh(p, k)
       /\ CASE k[1] = "as" /\ ~SeesFw(FirewallOf(c.s)) -> Stay(p, Bad(c))
            [] k[1] = "as" /\ Committed(k, id) -> Write(p, Adopt(p, k, id), Good(c))
            [] OTHER -> Write(p, IF r.ph = "intent" THEN mem[p]
                                 ELSE WithC(p, k, [NoCreate EXCEPT !.ph = "intent", !.id = id]),
                              At(c, "issue"))
       /\ Count({}) /\ UNCHANGED <<env, cloud, faults>>

(* Another assignment to the same firewall is issued and unresolved. *)
PeerUnresolved(p, k) ==
    k[1] = "as" /\ \E s \in Slots \ {k[2]} : /\ FirewallOf(s) = FirewallOf(k[2])
                                            /\ mem[p].c[<<"as", s>>].ph = "issued"

(* The issue half of authorizeCreate: intent becomes issued under a new issue
   identifier. *)
PersistIssue(p) ==
    LET c == cmd[p]
        k == Key(c)
    IN /\ c.l = "issue"
       /\ IF PeerUnresolved(p, k)
          THEN Stay(p, Bad(c))
          ELSE /\ Write(p, WithC(p, k, [mem[p].c[k] EXCEPT !.ph = "issued", !.n = NewCreateIssue(k)]), At(c, "auth"))
       /\ Count({}) /\ UNCHANGED <<env, cloud, faults>>

(* The authority read after the issue was persisted: without authority the issue
   is taken back, a mutation that is already there is recorded, and only proven
   absence leads to the request. *)
ReadAuthority(p) ==
    LET c == cmd[p]
        k == Key(c)
        v == Subject(p)
    IN /\ c.l = "auth"
       /\ \/ /\ Fault
             /\ Write(p, ResetIssue(p, k), Bad(c))
          \/ /\ UNCHANGED faults
             /\ IF NoAuthority(k, v) THEN Write(p, ResetIssue(p, k), Bad(c))
                ELSE IF Committed(k, v)
                     THEN Write(p, Materialize(p, k, Identity(k, v)),
                                IF k[1] = "vm" THEN Guard(c, "found") ELSE Good(c))
                     ELSE Stay(p, At(c, "post"))
       /\ Count({}) /\ UNCHANGED <<env, cloud>>

Request(k, v) == [op |-> k[1], s |-> k[2], v |-> IF k[1] \in {"as", "fip"} THEN v ELSE Nil]

(* CreateVM, CreateFirewall, AssignFirewallToVM or UpdateFloatingIP is sent. *)
SendCreate(p) ==
    LET c == cmd[p]
        k == Key(c)
    IN /\ c.l = "post"
       /\ wire' = wire \cup {Request(k, Subject(p))}
       /\ Stay(p, At(c, "back"))
       /\ Count({k}) /\ UNCHANGED <<env, vm, fw, hidden, aged, faults>>

(* The client refuses the request before it leaves (ErrMutationBlocked). *)
CreateBlocked(p) ==
    LET c == cmd[p]
    IN /\ c.l = "post" /\ Fault
       /\ Write(p, Reject(p, Key(c)), At(c, "rejected"))
       /\ Count({}) /\ UNCHANGED <<env, cloud>>

(* The readback after a request, whatever the request returned.  A create that
   is visible is recorded; when the request itself returned an error the pass
   still ends. *)
ReadBack(p) ==
    LET c == cmd[p]
        k == Key(c)
        v == Subject(p)
    IN /\ c.l = "back"
       /\ IF ~Committed(k, v) \/ (k[1] = "vm" /\ Unowned(c.s))
          THEN Stay(p, Bad(c))
          ELSE \E next \in CASE k[1] = "vm" -> {Guard(c, "posted"), Guard(c, "erred")}
                              [] k[1] = "fw" -> {Good(c), AtPass(c.md)}
                              [] OTHER -> {Good(c)} :
                   Write(p, Materialize(p, k, Identity(k, v)), next)
       /\ Count({}) /\ UNCHANGED <<env, cloud, faults>>

(* After a blocked request: the rejection receipt is cleared when a fresh read
   shows nothing, otherwise what is there is recorded.  A VM found this way is
   protected, but the pass reports the rejection. *)
AfterRejection(p) ==
    LET c == cmd[p]
        k == Key(c)
        v == Subject(p)
    IN /\ c.l = "rejected"
       /\ CASE ~Committed(k, v) -> Write(p, ClearRejection(p, k), Bad(c))
            [] k[1] = "vm" /\ Unowned(c.s) -> Stay(p, AtPass(c.md))
            [] OTHER -> Write(p, Materialize(p, k, Identity(k, v)),
                              IF k[1] = "vm" THEN Guard(c, "blocked") ELSE Good(c))
       /\ Count({}) /\ UNCHANGED <<env, cloud, faults>>

(* recoverCreatedVM: the protected VM has the requested shape and address.  The
   bastion's pass ends after its own POST; a recovered bastion is used on. *)
CheckShape(p) ==
    LET c == cmd[p]
        v == mem[p].c[<<"vm", c.s>>].id
        d == [c EXCEPT !.st = "vm"]
    IN /\ c.l = "shape"
       /\ \/ /\ c.how = "blocked"
             /\ Stay(p, AtPass(c.md)) /\ UNCHANGED faults
          \/ /\ c.how # "blocked" /\ Sees(v) /\ vm[v].ok
             /\ Stay(p, CASE c.how = "erred" \/ (c.how = "posted" /\ c.s = 0) -> AtPass(c.md)
                         [] c.how = "found" /\ c.s = 0 -> After([d EXCEPT !.sn.vm[0] = v])
                         [] OTHER -> After(d))
             /\ UNCHANGED faults
          \/ /\ c.how # "blocked"
             /\ Stay(p, At(c, "roll"))
             /\ IF Sees(v) /\ vm[v].ok THEN Fault ELSE UNCHANGED faults
       /\ Count({}) /\ UNCHANGED <<env, cloud>>

NewRollback(v) == [NoRemoval EXCEPT !.ph = "fipFind", !.id = v, !.why = "rollback"]

(* rollbackMalformedCreatedVM: a durable rollback receipt, then its resolution. *)
StartRollback(p) ==
    LET c == cmd[p]
        k == <<"vm", c.s>>
        d == mem[p].d[k]
        v == mem[p].c[k].id
    IN /\ c.l = "roll"
       /\ IF d.ph # "none" /\ (d.id # v \/ d.why # "rollback") THEN Stay(p, AtPass(c.md))
          ELSE Write(p, IF d.ph = "none" THEN WithD(p, k, NewRollback(v)) ELSE mem[p],
                     [c EXCEPT !.l = "rb", !.st = "vm", !.how = ""])
       /\ Count({}) /\ UNCHANGED <<env, cloud, faults>>

(* expiredFixedFirewallAssignmentRollback: only a VM that this cluster's own POST
   made, with an anchored firewall, falls under the protection deadline. *)
UnderDeadline(p, s) ==
    /\ mem[p].c[<<"as", s>>].ph = "issued"
    /\ mem[p].c[<<"vm", s>>].ph = "materialized"
    /\ mem[p].c[<<"vm", s>>].id = mem[p].c[<<"as", s>>].id
    /\ mem[p].c[<<"fw", FirewallOf(s)>>].ph \in {"materialized", "adopted"}

(* The end of ensureVMProtection when the relation was not established: before
   the deadline the pass ends; after it (one of the faults) a final read decides between recording
   the relation and rolling the VM back. *)
ProtectionDeadline(p) ==
    LET c == cmd[p]
        k == <<"as", c.s>>
        v == Subject(p)
        d == mem[p].d[<<"vm", c.s>>]
    IN /\ c.l = "deadline"
       /\ \/ Stay(p, AtPass(c.md)) /\ UNCHANGED faults
          \/ /\ UnderDeadline(p, c.s) /\ mem[p].c[k].id = v /\ SeesFw(FirewallOf(c.s)) /\ Fault
             /\ IF Committed(k, v) THEN Write(p, Materialize(p, k, v), Done(c))
                ELSE IF d.ph # "none" THEN Stay(p, AtPass(c.md))
                ELSE Write(p, WithD(p, <<"vm", c.s>>, NewRollback(v)), [c EXCEPT !.l = "rb", !.st = "vm", !.how = ""])
       /\ Count({}) /\ UNCHANGED <<env, cloud>>

(* The protocol, and the four functions that run it. *)
StageStep(p) ==
    \/ EnterStage(p) \/ RecoverIssued(p) \/ PersistIntent(p) \/ PersistIssue(p)
    \/ ReadAuthority(p) \/ SendCreate(p) \/ CreateBlocked(p) \/ ReadBack(p)
    \/ AfterRejection(p)

EnsureManagedVMCreate(p) == cmd[p].st = "vm" /\ StageStep(p)
EnsureManagedFirewallCreate(p) == cmd[p].st = "fw" /\ StageStep(p)
EnsureExactFirewallAssignment(p) == cmd[p].st \in {"guard", "prot"} /\ StageStep(p)
EnsureOwnedAutoFloatingIP(p) == cmd[p].st = "fip" /\ StageStep(p)

ReconcileStep(p) ==
    \/ BeginReconcile(p)
    \/ EnsureManagedVMCreate(p) \/ EnsureManagedFirewallCreate(p)
    \/ EnsureExactFirewallAssignment(p) \/ EnsureOwnedAutoFloatingIP(p)
    \/ CheckShape(p) \/ StartRollback(p) \/ ProtectionDeadline(p)
=============================================================================
