-------------------------- MODULE BootstrapRemoval --------------------------
(***************************************************************************)
(* The removals of the bootstrap controller: the rollback of a VM that is   *)
(* malformed or could not be protected, and a Destroy pass.                 *)
(*                                                                         *)
(* Both drive removal receipts through the same protocol: intent, issued, a *)
(* fresh authority read, at most one request, and absence that is observed  *)
(* twice at least one interval apart before the receipt moves on.  A label  *)
(* "dissue", "dauth", "dsend" or "dobs" works on removal key <<st, s>>.     *)
(***************************************************************************)
EXTENDS BootstrapCreate

RemovalKey(c) == <<c.st, c.s>>
Rolling(d) == d.why = "rollback"

Bound(v) == vm[v].fip \in {"auto", "named"}

Issue == [vmIntent |-> "vmIssued", unIntent |-> "unIssued", delIntent |-> "delIssued", fwIntent |-> "fwIssued"]
Intent == [vmIssued |-> "vmIntent", unIssued |-> "unIntent", delIssued |-> "delIntent", fwIssued |-> "fwIntent"]

(* setDeleteAttemptPhase: a new phase carries no issue and no observation. *)
SetPhase(d, ph) == [d EXCEPT !.ph = ph, !.n = 0, !.seen = FALSE]

-----------------------------------------------------------------------------
(* One removal. *)

(* issueDeleteAttempt, issueDestroyRemoval *)
IssueRemoval(p) ==
    LET c == cmd[p]
        k == RemovalKey(c)
        d == mem[p].d[k]
    IN /\ c.l = "dissue"
       /\ Write(p, WithD(p, k, [d EXCEPT !.ph = Issue[d.ph], !.n = NewRemovalIssue(k)]), At(c, "dauth"))
       /\ Count({}) /\ UNCHANGED <<env, cloud, faults>>

(* The target is not there for a request: it is gone already. *)
NothingToSend(k, d) ==
    CASE d.ph = "vmIssued" -> ~Sees(d.id)
      [] d.ph = "unIssued" -> ~SeesFip(d.id) \/ ~Bound(d.id)
      [] d.ph = "delIssued" -> ~SeesFip(d.id)
      [] d.ph = "fwIssued" -> ~SeesFw(k[2])

(* authorizeVMDeleteDispatch: the exact VM is listed and no other VM has its name. *)
VMAuthority(k, d) == Named(k[2]) = {d.id}

(* authorizeRollbackFloatingIPDispatch and authorizeDestroyFloatingIPDispatch: an
   address is unassigned from the VM it is recorded with after the rollback saw
   the VM gone, or while Destroy still sees the VM; only an unassigned address is
   deleted. *)
RollbackAddressAuthority(k, d) == Named(k[2]) = {} /\ (d.ph = "delIssued" => ~Bound(d.id))
DestroyAddressAuthority(d) ==
    IF d.ph = "unIssued" THEN Sees(d.id) /\ vm[d.id].fip = "named" ELSE ~Bound(d.id)

(* readDestroyFirewallAuthority: the firewall has no assignment left. *)
FirewallAuthority(k) == Assigned(k[2]) = {}

RemovalAuthority(k, d) ==
    CASE d.ph = "vmIssued" -> VMAuthority(k, d)
      [] d.ph = "fwIssued" -> FirewallAuthority(k)
      [] OTHER -> IF Rolling(d) THEN RollbackAddressAuthority(k, d) ELSE DestroyAddressAuthority(d)

(* resetPreDispatchDeleteIssue *)
ResetRemoval(p, k) == WithD(p, k, SetPhase(mem[p].d[k], Intent[mem[p].d[k].ph]))

(* The read after the issue was persisted; without authority the issue is taken
   back, and a target that is gone is observed without a request. *)
ReadRemovalAuthority(p) ==
    LET c == cmd[p]
        k == RemovalKey(c)
        d == mem[p].d[k]
        rolledVM == Rolling(d) /\ d.ph # "vmIssued" /\ Named(k[2]) # {}
    IN /\ c.l = "dauth"
       /\ \/ /\ Fault
             /\ Write(p, ResetRemoval(p, k), AtPass(c.md))
          \/ /\ UNCHANGED faults
             /\ IF NothingToSend(k, d) /\ ~rolledVM THEN Stay(p, At(c, "dobs"))
                ELSE IF RemovalAuthority(k, d) THEN Stay(p, At(c, "dsend"))
                ELSE Write(p, ResetRemoval(p, k), AtPass(c.md))
       /\ Count({}) /\ UNCHANGED <<env, cloud>>

RemovalRequest(k, d) == [op |-> d.ph, s |-> k[2], v |-> d.id]

(* DeleteVM, UnassignFloatingIP, DeleteFloatingIP or DeleteFirewall is sent. *)
SendRemoval(p) ==
    LET c == cmd[p]
        k == RemovalKey(c)
    IN /\ c.l = "dsend"
       /\ wire' = wire \cup {RemovalRequest(k, mem[p].d[k])}
       /\ Stay(p, At(c, "dobs"))
       /\ Count({}) /\ UNCHANGED <<env, vm, fw, hidden, aged, faults>>

RemovalBlocked(p) ==
    LET c == cmd[p]
    IN /\ c.l = "dsend" /\ Fault
       /\ Write(p, ResetRemoval(p, RemovalKey(c)), AtPass(c.md))
       /\ Count({}) /\ UNCHANGED <<env, cloud>>

(* What an observation looks for: observeExactVMDeletion,
   observeDestroyFirewallRemoval, and observeDestroyFloatingIPRemoval or
   observeRollbackFloatingIP. *)
DeletingVM(d) == d.ph \in {"vmIntent", "vmIssued"}
VMGone(d) == ~Sees(d.id)
FirewallGone(k) == ~SeesFw(k[2])
AddressGone(d) == ~SeesFip(d.id) \/ (d.ph = "unIssued" /\ ~Bound(d.id))
SeenGone(k, d) ==
    CASE DeletingVM(d) -> VMGone(d)
      [] d.ph \in {"fwIntent", "fwIssued"} -> FirewallGone(k)
      [] OTHER -> AddressGone(d)

(* corroborateVMDeletionAbsence: the name is not used by another VM. *)
Reused(k, d) == DeletingVM(d) /\ Named(k[2]) \ {d.id} # {}

PhaseAfter(d) == IF DeletingVM(d) THEN IF Rolling(d) THEN "fipAfter" ELSE "absent"
                 ELSE IF d.ph = "unIssued" /\ SeesFip(d.id) THEN "delIntent" ELSE "absent"

(* The caller waits out the interval itself (observeDestroyRemovalTwice). *)
Waits(c, d) == ~Rolling(d) /\ c.st \in {"fip", "fw"}

AfterObservation(c, d) == IF Rolling(d) THEN At(c, "rb")
                          ELSE IF c.fd THEN At(c, "dpick") ELSE AtPass(c.md)

(* Destroy goes on past an address that it sees again under an intent. *)
Skips(d) == d.ph \in {"unIntent", "delIntent"}

(* Mutant: a resource seen again is removed again. *)
StillThereRetries(d) == IF d.ph \in IssuedPhases THEN SetPhase(d, Intent[d.ph]) ELSE [d EXCEPT !.seen = FALSE]

(* Visibility discards the evidence; the issue stays. *)
StillThere(d) == [d EXCEPT !.seen = FALSE]

FirstAbsence(d) == [d EXCEPT !.seen = TRUE]

(* observeDestroyRemovalTwice and the two observations of a rollback: visibility
   discards the evidence, a first absence is recorded, a second one a full interval
   later moves the receipt on. *)
ObserveRemoval(p) ==
    LET c == cmd[p]
        k == RemovalKey(c)
        d == mem[p].d[k]
    IN /\ c.l = "dobs"
       /\ CASE ~SeenGone(k, d) /\ Skips(d) -> Stay(p, AfterObservation(c, d))
            [] ~SeenGone(k, d) /\ ~Skips(d) -> Write(p, WithD(p, k, StillThere(d)), AtPass(c.md))
            [] SeenGone(k, d) /\ Reused(k, d) -> Stay(p, AtPass(c.md))
            [] SeenGone(k, d) /\ ~Reused(k, d) /\ ~d.seen ->
                   Write(p, WithD(p, k, FirstAbsence(d)), IF Waits(c, d) THEN c ELSE AtPass(c.md))
            [] OTHER -> IF k \in aged \/ ~Current(p)
                        THEN Write(p, WithD(p, k, SetPhase(d, PhaseAfter(d))), AfterObservation(c, d))
                        ELSE ~Waits(c, d) /\ Stay(p, AtPass(c.md))
       /\ aged' = {j \in aged : file'.d[j] = file.d[j]}
       /\ Count({}) /\ UNCHANGED <<env, vm, fw, wire, hidden, faults>>

(* The protocol, and the four functions that run it. *)
RemovalProtocol(p) ==
    \/ IssueRemoval(p) \/ ReadRemovalAuthority(p) \/ SendRemoval(p) \/ RemovalBlocked(p)
    \/ ObserveRemoval(p)

ReconcileVMDelete(p) ==
    cmd[p].st = "vm" /\ DeletingVM(mem[p].d[RemovalKey(cmd[p])]) /\ RemovalProtocol(p)
RollbackFloatingIP(p) ==
    cmd[p].st = "vm" /\ ~DeletingVM(mem[p].d[RemovalKey(cmd[p])]) /\ RemovalProtocol(p)
ReconcileDestroyFloatingIPRemoval(p) == cmd[p].st = "fip" /\ RemovalProtocol(p)
ReconcileDestroyFirewallRemoval(p) == cmd[p].st = "fw" /\ RemovalProtocol(p)

-----------------------------------------------------------------------------
(* The rollback. *)

(* clearCompletedRollback: the slot's receipts go, the slot may be created anew. *)
ClearRollback(p, s) ==
    [mem[p] EXCEPT !.c = [k \in CreateKeys |-> IF k[1] # "fw" /\ k[2] = s THEN NoCreate ELSE @[k]],
                   !.d[<<"vm", s>>] = NoRemoval]

(* rollbackFloatingIP in its discovery phase: the VM is not deleted before its
   address is on record. *)
DiscoverAddress(p) ==
    LET c == cmd[p]
        k == RemovalKey(c)
        d == mem[p].d[k]
    IN /\ c.l = "rb" /\ d.ph = "fipFind"
       /\ IF SeesFip(d.id) /\ vm[d.id].fip \in {"auto", "named", "free"}
          THEN Write(p, WithD(p, k, [SetPhase(d, "vmIntent") EXCEPT !.ip = TRUE]), c)
          ELSE Stay(p, AtPass(c.md))
       /\ Count({}) /\ UNCHANGED <<env, cloud, faults>>

(* rollbackFloatingIP after the VM is gone: the recorded address is unassigned or
   deleted, or found absent twice. *)
AddressAfterVM(p) ==
    LET c == cmd[p]
        k == RemovalKey(c)
        d == mem[p].d[k]
    IN /\ c.l = "rb" /\ d.ph = "fipAfter"
       /\ CASE SeesFip(d.id) -> Write(p, WithD(p, k, SetPhase(d, IF Bound(d.id) THEN "unIntent" ELSE "delIntent")), c)
            [] ~SeesFip(d.id) /\ ~d.seen -> Write(p, WithD(p, k, FirstAbsence(d)), AtPass(c.md))
            [] OTHER -> IF k \in aged THEN Write(p, WithD(p, k, SetPhase(d, "absent")), c)
                        ELSE Stay(p, AtPass(c.md))
       /\ aged' = {j \in aged : file'.d[j] = file.d[j]}
       /\ Count({}) /\ UNCHANGED <<env, vm, fw, wire, hidden, faults>>

(* reconcileRollbackDelete: by phase. *)
RollbackStep(p) ==
    LET c == cmd[p]
        k == RemovalKey(c)
        d == mem[p].d[k]
    IN /\ c.l = "rb" /\ d.ph \notin {"fipFind", "fipAfter"}
       /\ IF d.ph = "absent"
          THEN IF mem[p].c[k].ph # "none" /\ mem[p].c[k].id # d.id THEN Exit(p)
               ELSE Write(p, ClearRollback(p, c.s), AtPass(c.md))
          ELSE Stay(p, At(c, IF d.ph \in IssuedPhases THEN "dobs" ELSE "dissue"))
       /\ Count({}) /\ UNCHANGED <<env, cloud, faults>>

-----------------------------------------------------------------------------
(* A Destroy pass. *)

(* uniqueDestroyVMs, validateDestroyVMOwnership *)
DestroyRefuses == \E s \in Active : ForeignName(s) \/ DuplicateName(s)

(* validateOwnedFirewallAssignments: a firewall holds a VM that is neither listed
   nor under a deletion receipt. *)
Drift(p, c) == \E v \in c.sn.with : /\ v # c.sn.vm[v[1]]
                                    /\ mem[p].d[<<"vm", v[1]>>].id # v

BeginDestroy(p) ==
    /\ cmd[p].l = "pass" /\ cmd[p].md = "destroy" /\ Current(p)
    /\ IF RollbackKeys(p) # {}
       THEN \E k \in RollbackKeys(p) : Stay(p, [cmd[p] EXCEPT !.l = "rb", !.st = "vm", !.s = k[2]])
       ELSE IF DestroyRefuses THEN Exit(p)
            ELSE Stay(p, [cmd[p] EXCEPT !.sn = Snapshot, !.l = "dpick"])
    /\ Count({}) /\ UNCHANGED <<env, cloud, faults>>

Least(S) == CHOOSE s \in S : \A t \in S : s <= t
Observe(c, kind, s, on) == [c EXCEPT !.l = "dobs", !.st = kind, !.s = s, !.fd = on]
Drive(c, kind, s, d) == [c EXCEPT !.l = IF d.ph \in IssuedPhases THEN "dobs" ELSE "dissue",
                                  !.st = kind, !.s = s, !.fd = FALSE]

(* A receipt in progress, or an object the snapshot shows. *)
OpenRemoval(p, k) == mem[p].d[k].ph \notin {"none", "absent"}
AwaitedVMs(p, c) ==
    LET issued == {s \in Slots : mem[p].d[<<"vm", s>>].ph = "vmIssued"}
    IN IF issued # {} THEN issued
       ELSE {s \in Slots : mem[p].d[<<"vm", s>>].ph = "vmIntent" /\ c.sn.vm[s] = Nil}
AddressWork(p, c) == {s \in Slots : /\ c.sn.fip[s] # "past"
                                    /\ c.sn.fip[s] # "none" \/ OpenRemoval(p, <<"fip", s>>)}
VMWork(c) == {s \in Slots : c.sn.vm[s] # Nil}

(* Mutant: only open receipts lead to a firewall. *)
FirewallReceipts(p, c) == {f \in Firewalls : OpenRemoval(p, <<"fw", f>>)}

FirewallWork(p, c) == {f \in Firewalls : f \in c.sn.fw \/ OpenRemoval(p, <<"fw", f>>)}

(* The loop over the floating IPs: an unnamed one is named first. *)
DestroyAddress(p, c, s) ==
    LET k == <<"fip", s>>
        d == mem[p].d[k]
        v == CHOOSE w \in VMIds : w[1] = s /\ Ours(w) /\ (c.sn.vm[s] = w \/ vm[w].fip \in {"named", "free"})
        new == [NoRemoval EXCEPT !.ph = IF c.sn.fip[s] = "named" THEN "unIntent" ELSE "delIntent",
                                 !.id = v, !.why = "destroy", !.ip = TRUE]
    IN CASE c.sn.fip[s] = "none" -> Stay(p, Observe([c EXCEPT !.sn.fip[s] = "past"], "fip", s, TRUE))
         [] c.sn.fip[s] # "none" /\ d.ph = "absent" -> Exit(p)
         [] c.sn.fip[s] = "auto" /\ d.ph # "absent" -> Stay(p, Step(c, "fip", s))
         [] OTHER -> IF d.ph = "none" THEN Write(p, WithD(p, k, new), Drive(c, "fip", s, new))
                     ELSE Stay(p, Drive(c, "fip", s, d))

(* A VM without a removal receipt whose address no receipt covers either: the
   snapshot shows no address of the slot. *)
AddressUnseen(p, s) == mem[p].d[<<"vm", s>>].ph = "none" /\ mem[p].d[<<"fip", s>>].ph = "none"

(* Mutant: a VM without a visible address is deleted at once. *)
NoWait(p, v) == TRUE

(* destroyFloatingIPObservationPending: this process began to wait for the address
   in an earlier pass.  Its own clock may have reached the bound since, whether or
   not the address is still to come. *)
BoundElapsed(p, v) == v \in since[p]

(* The loop over the VMs. *)
DestroyVM(p, c, s) ==
    LET k == <<"vm", s>>
        d == mem[p].d[k]
        v == c.sn.vm[s]
        new == [NoRemoval EXCEPT !.ph = "vmIntent", !.id = v, !.why = "destroy"]
    IN CASE d.ph = "absent" \/ (d.ph # "none" /\ d.id # v) -> Exit(p)
         [] d.ph = "none" -> \/ AddressUnseen(p, s) /\ Stay(p, AtPass(c.md))
                             \/ /\ AddressUnseen(p, s) => BoundElapsed(p, v)
                                /\ Write(p, WithD(p, k, new), Drive(c, "vm", s, new))
         [] OTHER -> Stay(p, Drive(c, "vm", s, d))

(* The loop over the firewalls. *)
DestroyFirewall(p, c, f) ==
    LET k == <<"fw", f>>
        d == mem[p].d[k]
        new == [NoRemoval EXCEPT !.ph = "fwIntent", !.why = "destroy"]
    IN CASE f \notin c.sn.fw -> Stay(p, Observe(c, "fw", f, TRUE))
         [] f \in c.sn.fw /\ d.ph = "absent" -> Exit(p)
         [] f \in c.sn.fw /\ d.ph # "absent" /\ (\E v \in c.sn.with : FirewallOf(v[1]) = f) -> Stay(p, AtPass(c.md))
         [] OTHER -> IF d.ph = "none" THEN Write(p, WithD(p, k, new), Drive(c, "fw", f, new))
                     ELSE Stay(p, Drive(c, "fw", f, d))

(* The VM whose turn it is when the pass has not seen its address. *)
Unseen(p, c) ==
    IF AwaitedVMs(p, c) = {} /\ ~Drift(p, c) /\ AddressWork(p, c) = {} /\ VMWork(c) # {}
       /\ AddressUnseen(p, Least(VMWork(c)))
    THEN {c.sn.vm[Least(VMWork(c))]} ELSE {}

(* What Destroy gives up on.  When it takes up the removal of a VM: the address,
   if its wait has reached the bound, or if the slot's address receipt is that of
   an earlier VM.  At its end: the creates that are still issued. *)
TakenUp == {v \in VMIds : file'.d[<<"vm", v[1]>>].id = v /\ file.d[<<"vm", v[1]>>].id = Nil}
Waive(p, c) ==
    waived' = [fips |-> waived.fips \cup {v \in TakenUp : \/ v \in Unseen(p, c) /\ v \in since[p]
                                                        \/ file.d[<<"fip", v[1]>>].id \notin {Nil, v}},
               creates |-> waived.creates \cup {k \in CreateKeys : /\ file.c[k].ph = "issued"
                                                                   /\ file'.c[k].ph = "none"}]

(* The body of Destroy: deletions already issued, then addresses, VMs and
   firewalls in this order; when nothing is left all receipts are cleared. *)
DestroyPick(p) ==
    LET c == cmd[p]
    IN /\ c.l = "dpick"
       /\ CASE AwaitedVMs(p, c) # {} -> \E s \in AwaitedVMs(p, c) : Stay(p, Observe(c, "vm", s, FALSE))
            [] AwaitedVMs(p, c) = {} /\ Drift(p, c) -> Exit(p)
            [] OTHER -> IF AddressWork(p, c) # {} THEN DestroyAddress(p, c, Least(AddressWork(p, c)))
                        ELSE IF VMWork(c) # {} THEN DestroyVM(p, c, Least(VMWork(c)))
                        ELSE IF FirewallWork(p, c) # {} THEN DestroyFirewall(p, c, Least(FirewallWork(p, c)))
                        ELSE Write(p, EmptyStatus, [AtPass("destroy") EXCEPT !.l = "done"])
       /\ since' = [since EXCEPT ![p] = @ \cup Unseen(p, c)]
       /\ Waive(p, c)
       /\ Count({}) /\ UNCHANGED <<size, team, turns, cloud, faults>>

RemovalStep(p) ==
    \/ ReconcileVMDelete(p) \/ RollbackFloatingIP(p)
    \/ ReconcileDestroyFloatingIPRemoval(p) \/ ReconcileDestroyFirewallRemoval(p)
    \/ DiscoverAddress(p) \/ AddressAfterVM(p) \/ RollbackStep(p)
    \/ BeginDestroy(p) \/ DestroyPick(p)
=============================================================================
