------------------------------ MODULE Bootstrap ------------------------------
(***************************************************************************)
(* The bootstrap commands (inspace-cluster-controller) on one cluster file: *)
(* each runs Reconcile or Destroy passes until it ends, may crash at any    *)
(* point and may be started again; two may run at the same time.  The cloud *)
(* settles their requests in its own time.                                  *)
(***************************************************************************)
EXTENDS BootstrapRemoval

CONSTANT Plans      \* the clusters, the fault budgets and the commands considered

-----------------------------------------------------------------------------
(* The commands. *)

(* A command is started on the status on file, in any order with the others: the
   init playbook, an automatic destroy after a failed init, an explicit destroy. *)
StartCommand(p, md) ==
    /\ cmd[p].l = "off" /\ <<p, md>> \in team
    /\ IF md = turns.last THEN UNCHANGED turns
       ELSE turns.left > 0 /\ turns' = [last |-> md, left |-> turns.left - 1]
    /\ cmd' = [cmd EXCEPT ![p] = AtPass(md)]
    /\ mem' = [mem EXCEPT ![p] = file]
    /\ since' = [since EXCEPT ![p] = {}]
    /\ UNCHANGED <<size, team, waived, file, cloud, faults, posts>>

(* runControllerLoop and destroyUntilDone return between two passes: ready, done,
   or out of time. *)
EndCommand(p) ==
    /\ cmd[p].l \in {"pass", "done"}
    /\ Exit(p)
    /\ UNCHANGED <<env, cloud, faults, posts>>

Crash(p) ==
    /\ cmd[p].l \notin {"off", "pass", "done"} /\ Fault
    /\ Exit(p)
    /\ UNCHANGED <<env, cloud, posts>>

-----------------------------------------------------------------------------
(* The cloud. *)

NewVM(v, good) == [vm EXCEPT ![v] = [st |-> "live", ok |-> good, fw |-> FALSE, fip |-> "later"]]

CommitVM(r) ==
    /\ r.op = "vm"
    /\ \E n \in 1..MaxVMs : /\ vm[<<r.s, n>>].st = "none"
                            /\ \A m \in 1..n - 1 : vm[<<r.s, m>>].st # "none"
                            /\ \/ vm' = NewVM(<<r.s, n>>, TRUE) /\ UNCHANGED faults
                               \/ vm' = NewVM(<<r.s, n>>, FALSE) /\ Fault
    /\ UNCHANGED fw

CommitFirewall(r) == /\ r.op = "fw" /\ fw' = fw \cup {r.s}
                     /\ UNCHANGED <<vm, faults>>

CommitAssignment(r) == /\ r.op = "as"
                       /\ vm' = IF vm[r.v].st = "live" /\ FirewallOf(r.s) \in fw
                                THEN [vm EXCEPT ![r.v].fw = TRUE] ELSE vm
                       /\ UNCHANGED <<fw, faults>>

CommitName(r) == /\ r.op = "fip"
                 /\ vm' = [vm EXCEPT ![r.v].fip = CASE @ = "auto" -> "named" [] @ = "stray" -> "free" [] OTHER -> @]
                 /\ UNCHANGED <<fw, faults>>

Unassigned(x) == CASE x \in {"later", "auto"} -> "stray" [] x = "named" -> "free" [] OTHER -> x

(* A deleted VM's address may keep its dangling assignment. *)
CommitVMDelete(r) ==
    /\ r.op = "vmIssued"
    /\ \E kept \in BOOLEAN :
           vm' = [vm EXCEPT ![r.v] = [NoVM EXCEPT !.st = "gone", !.fip = IF kept /\ vm[r.v].fip # "later" THEN vm[r.v].fip
                                                                       ELSE Unassigned(vm[r.v].fip)]]
    /\ UNCHANGED <<fw, faults>>

CommitUnassign(r) == /\ r.op = "unIssued" /\ vm' = [vm EXCEPT ![r.v].fip = Unassigned(@)]
                     /\ UNCHANGED <<fw, faults>>

CommitAddressDelete(r) == /\ r.op = "delIssued" /\ vm' = [vm EXCEPT ![r.v].fip = "gone"]
                          /\ UNCHANGED <<fw, faults>>

CommitFirewallDelete(r) == /\ r.op = "fwIssued" /\ fw' = fw \ {r.s}
                           /\ UNCHANGED <<vm, faults>>

(* Requests that name something deleted have no effect any more. *)
Moot(r) == \/ r.op \in {"as", "vmIssued"} /\ vm'[r.v].st = "gone"
           \/ r.op \in {"fip", "unIssued", "delIssued"} /\ vm'[r.v].fip = "gone"

(* The cloud carries a request out, or never does. *)
Commit(r) ==
    /\ \/ CommitVM(r) \/ CommitFirewall(r) \/ CommitAssignment(r) \/ CommitName(r)
       \/ CommitVMDelete(r) \/ CommitUnassign(r) \/ CommitAddressDelete(r) \/ CommitFirewallDelete(r)
    /\ wire' = {q \in wire \ {r} : ~Moot(q)}
    /\ UNCHANGED <<env, file, mem, cmd, hidden, aged, posts>>

Lose(r) ==
    /\ Fault /\ wire' = wire \ {r}
    /\ UNCHANGED <<env, file, mem, cmd, vm, fw, hidden, aged, posts>>

(* The automatic address of a new VM becomes visible. *)
AddressAppears(v) ==
    /\ vm[v].st = "live" /\ vm[v].fip = "later"
    /\ vm' = [vm EXCEPT ![v].fip = "auto"]
    /\ UNCHANGED <<env, file, mem, cmd, fw, wire, hidden, aged, faults, posts>>

(* While something is being deleted the inventories may leave it out for a
   moment that is shorter than the interval between two observations, and not
   again within the next interval. *)
Deleting == {<<"vm", v>> : v \in {w \in VMIds : \E r \in wire : r.op = "vmIssued" /\ r.v = w}}
            \cup {<<"fip", v>> : v \in {w \in VMIds : \E r \in wire : r.op \in {"unIssued", "delIssued"} /\ r.v = w}}
            \cup {<<"fw", f>> : f \in {g \in Firewalls : \E r \in wire : r.op = "fwIssued" /\ r.s = g}}
Flap(x) ==
    /\ Fault /\ hidden = {} /\ x \in Deleting
    /\ \A k \in RemovalKeys : ~file.d[k].seen
    /\ hidden' = {x}
    /\ UNCHANGED <<env, file, mem, cmd, vm, fw, wire, aged, posts>>

Unflap ==
    /\ hidden # {} /\ hidden' = {}
    /\ UNCHANGED <<env, file, mem, cmd, vm, fw, wire, aged, faults, posts>>

(* One observation interval passes. *)
Tick ==
    LET seen == {k \in RemovalKeys : file.d[k].seen}
    IN /\ hidden = {} /\ aged # seen
       /\ aged' = seen
       /\ UNCHANGED <<env, file, mem, cmd, vm, fw, wire, hidden, faults, posts>>

(* Somebody else makes or removes a VM with the name of a slot. *)
Foreign(s) ==
    /\ IF vm[<<s, 0>>].st = "none" THEN Fault ELSE UNCHANGED faults
    /\ vm' = [vm EXCEPT ![<<s, 0>>].st = IF @ = "live" THEN "gone" ELSE "live"]
    /\ vm[<<s, 0>>].st # "gone"
    /\ UNCHANGED <<env, file, mem, cmd, fw, wire, hidden, aged, posts>>

(* An operator releases the address of a running VM. *)
OperatorReleases(v) ==
    /\ Fault /\ vm[v].st = "live" /\ Bound(v)
    /\ vm' = [vm EXCEPT ![v].fip = "gone"]
    /\ UNCHANGED <<env, file, mem, cmd, fw, wire, hidden, aged, posts>>

-----------------------------------------------------------------------------
(* The slots of a cluster are new, were built by these commands, or are found:
   their VMs and firewalls are there and the cluster file has no receipts. *)
BuiltVM == [NoVM EXCEPT !.st = "live", !.fw = TRUE, !.fip = "named"]
FoundVM == [NoVM EXCEPT !.st = "live", !.fip = "auto"]
BuiltReceipt(k) == [ph |-> "materialized", id |-> IF k[1] = "fw" THEN Nil ELSE <<k[2], 1>>, n |-> 1]
Init ==
    /\ \E plan \in Plans :
          /\ size = plan.size /\ faults = plan.faults /\ team = plan.team /\ turns = plan.turns
          /\ fw = {FirewallOf(s) : s \in plan.built \cup plan.found}
          /\ vm = [v \in VMIds |-> IF v[2] = 1 /\ v[1] \in plan.built THEN BuiltVM
                                   ELSE IF v[2] = 1 /\ v[1] \in plan.found THEN FoundVM ELSE NoVM]
          /\ file = [EmptyStatus EXCEPT !.c = [k \in CreateKeys |-> IF k[2] \in plan.built THEN BuiltReceipt(k)
                                                                    ELSE NoCreate]]
    /\ mem = [p \in Procs |-> Nil]
    /\ cmd = [p \in Procs |-> Off]
    /\ wire = {} /\ hidden = {} /\ aged = {}
    /\ since = [p \in Procs |-> {}]
    /\ waived = [creates |-> {}, fips |-> {}]
    /\ posts = [k \in CreateKeys |-> IF file.c[k].ph = "none" THEN 0 ELSE 1]

Command(p) == ReconcileStep(p) \/ RemovalStep(p)

Cloud == \/ \E r \in wire : Commit(r) \/ Lose(r)
         \/ \E v \in VMIds : AddressAppears(v) \/ OperatorReleases(v)
         \/ \E x \in Deleting : Flap(x)
         \/ Unflap \/ Tick
         \/ \E s \in Active : Foreign(s)

Next == \/ \E p \in Procs : \/ Command(p) \/ EndCommand(p) \/ Crash(p)
                            \/ \E md \in {"reconcile", "destroy"} : StartCommand(p, md)
        \/ Cloud

Spec == Init /\ [][Next]_vars

-----------------------------------------------------------------------------
(* Whatever a command leaves on file, the validators of the next one accept it (a
   receipt they reject would stop every later pass and need an operator); no
   receipt names somebody else's VM that carries a managed name; and a rollback
   receipt names the VM that the slot's own create receipt materialized. *)
ReceiptsValid ==
    /\ \A k \in CreateKeys : /\ ValidCreate(k, file.c[k]) /\ InTopology(k, file.c[k].ph # "none")
                             /\ file.c[k].id # <<k[2], 0>>
    /\ \A k \in RemovalKeys : LET d == file.d[k]
                                 c == file.c[<<"vm", k[2]>>]
                             IN /\ ValidRemoval(k, d) /\ InTopology(k, d.ph # "none")
                                /\ d.id # <<k[2], 0>>
                                /\ k[1] = "vm" /\ Rolling(d) => c.ph = "materialized" /\ c.id = d.id

(* No public address outlives its VM unrecorded: when a managed VM is gone its
   automatic address is gone too or a removal receipt still carries it.  Destroy
   gives an address up in two cases only: none of its passes saw it before the wait
   reached its bound, or the VM came so late that the slot's address receipt is
   that of an earlier VM. *)
NoStrayAddress ==
    \A v \in VMIds : Ours(v) /\ vm[v].st = "gone" /\ vm[v].fip # "gone" =>
        \/ \E k \in RemovalKeys : file.d[k].id = v /\ file.d[k].ip
        \/ v \in waived.fips

(* A removal request is never sent while the same request is still in flight,
   across crashes, restarts and two commands. *)
RemovalsNotReplayed ==
    [][\A p \in Procs : SendRemoval(p) =>
          RemovalRequest(RemovalKey(cmd[p]), mem[p].d[RemovalKey(cmd[p])]) \notin wire]_vars

DestroyEnds(p) == DestroyPick(p) /\ cmd'[p].l = "done"
OpenCreate(k) == file.c[k].ph = "issued" \/ k \in waived.creates

(* Destroy reports Done, and clears every receipt, only when nothing that the
   cluster made is left, apart from what a create makes that is still open or was
   when an earlier Destroy ended, and from the addresses it gave up. *)
DoneMeansGone ==
    [][\A p \in Procs : DestroyEnds(p) /\ Current(p) =>
          /\ \A f \in fw : OpenCreate(<<"fw", f>>)
          /\ \A v \in VMIds : Ours(v) /\ ~OpenCreate(<<"vm", v[1]>>) =>
                 vm[v].st # "live" /\ (vm[v].fip # "gone" => v \in waived.fips)]_vars

FenceKeys == {k \in CreateKeys : k[1] \in {"vm", "fw"}}
FenceStage ==
    [k \in FenceKeys |-> CASE k \in waived.creates -> "settled"
                           [] k \notin waived.creates /\ file.c[k].ph = "issued" ->
                                  IF posts[k] = 0 THEN "armed" ELSE "sent"
                           [] k \notin waived.creates /\ file.c[k].ph \in {"materialized", "adopted"} -> "settled"
                           [] OTHER -> "idle"]
FenceSends == [k \in FenceKeys |-> IF k \in waived.creates THEN 1 ELSE posts[k]]
Fences == INSTANCE OneShot WITH Keys <- FenceKeys, stage <- FenceStage, sends <- FenceSends

(* The create receipts of VMs and firewalls implement the abstract one-shot fence
   for as long as no Destroy ends while one of them is issued: at most one POST per
   durable issue, and no other step releases a receipt while the outcome of its
   POST is open, in whatever order commands run. *)
OneShotCreates ==
    [][\/ UNCHANGED <<FenceStage, FenceSends>>
       \/ Fences!Next
       \/ \E p \in Procs : DestroyEnds(p)]_vars

(* An issued create receipt is never released while its request may still commit:
   empty inventories are no authority for that. *)
IssuedIsKept ==
    [][\A k \in FenceKeys : file.c[k].ph = "issued" /\ Request(k, Nil) \in wire => file'.c[k].ph # "none"]_vars
=============================================================================
