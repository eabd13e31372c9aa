--------------------------- MODULE BootstrapLedger ---------------------------
(***************************************************************************)
(* The state the bootstrap commands share: the status kept in the cluster   *)
(* file (the create and removal receipts), the copy each running command    *)
(* works on, the InSpace cloud, and the requests on the wire.               *)
(*                                                                         *)
(* Slot 0 is the bastion and slots 1..size the control planes.  A managed   *)
(* VM <<s, n>> is the n-th VM ever made for slot s; <<s, 0>> is a VM of     *)
(* somebody else that carries the name of slot s.  A request takes effect   *)
(* when the cloud commits it, at any time after it was sent or never,       *)
(* whatever its sender was told; until then no inventory shows it.          *)
(***************************************************************************)
EXTENDS Naturals, FiniteSets

CONSTANTS Procs,        \* the commands that may run at the same time
          Slots,        \* 0 .. the largest number of control planes
          MaxVMs,       \* bound: VMs made for one slot
          Nil           \* no VM, no snapshot, no status

VARIABLES
    size,       \* spec.controlPlane.replicas
    file,       \* the status in the cluster file: receipts .c and .d
    mem,        \* mem[p]: the status command p holds, Nil when it does not run
    cmd,        \* cmd[p]: where command p is
    vm,         \* the cloud's VMs, each with its firewall relation and address
    fw,         \* the managed firewalls that exist
    wire,       \* requests sent and not settled
    hidden,     \* resources that the inventories leave out for the moment
    aged,       \* removal keys whose first absence is one interval old
    team,       \* the commands that may be run, each with its modes
    since,      \* since[p]: VMs whose missing address command p began to wait for
    waived,     \* history: the creates and the addresses that a Destroy gave up on
    turns,      \* the kind of command started last, and how often it may still change
    faults,     \* faults the environment may still cause
    posts       \* history: requests sent per create key while it holds a receipt

env == <<size, team, turns, since, waived>>
cloud == <<vm, fw, wire, hidden, aged>>
vars == <<env, file, mem, cmd, cloud, faults, posts>>

Firewalls == {0, 1}
FirewallOf(s) == IF s = 0 THEN 0 ELSE 1
Active == {s \in Slots : s <= size}
VMIds == Slots \X (0..MaxVMs)
Ours(v) == v[2] # 0

(* The keys of status.createAttempts and of status.deleteAttempts. *)
CreateKeys == ({"vm", "as", "fip"} \X Slots) \cup ({"fw"} \X Firewalls)
RemovalKeys == ({"vm", "fip"} \X Slots) \cup ({"fw"} \X Firewalls)

NoCreate == [ph |-> "none", id |-> Nil, n |-> 0]
NoRemoval == [ph |-> "none", id |-> Nil, why |-> "", ip |-> FALSE, seen |-> FALSE, n |-> 0]
EmptyStatus == [c |-> [k \in CreateKeys |-> NoCreate], d |-> [k \in RemovalKeys |-> NoRemoval]]

CreatePhases == {"none", "intent", "issued", "materialized", "adopted", "rejected"}
RemovalPhases == {"none", "fipFind", "vmIntent", "vmIssued", "fipAfter", "unIntent",
                  "unIssued", "delIntent", "delIssued", "fwIntent", "fwIssued", "absent"}

NoVM == [st |-> "none", ok |-> TRUE, fw |-> FALSE, fip |-> "gone"]

AtPass(md) == [l |-> "pass", md |-> md, st |-> "", s |-> 0, fd |-> FALSE, how |-> "", sn |-> Nil]
Off == [AtPass("") EXCEPT !.l = "off"]

-----------------------------------------------------------------------------
(* The status compare-and-swap. *)

(* FileStatusStore: the copy a command holds is the status on file.  A command whose copy is stale
   when a pass begins cannot persist an issue any more, so it sends nothing and
   changes nothing; such passes are left out and the command just ends. *)
Current(p) == mem[p] = file

(* compareAndSwapClusterStatus over the file store: an unchanged status is not
   written; the file is replaced only when it still holds what the command read
   last, otherwise the command ends.  Everything between the locked read and the
   rename is one step. *)
Write(p, new, next) ==
    IF new = mem[p] \/ Current(p)
    THEN /\ file' = IF new = mem[p] THEN file ELSE new
         /\ mem' = [mem EXCEPT ![p] = new]
         /\ cmd' = [cmd EXCEPT ![p] = next]
    ELSE /\ UNCHANGED file
         /\ mem' = [mem EXCEPT ![p] = Nil]
         /\ cmd' = [cmd EXCEPT ![p] = Off]

Stay(p, next) == /\ cmd' = [cmd EXCEPT ![p] = next]
                 /\ UNCHANGED <<file, mem>>

(* The command ends with an error that is not retried. *)
Exit(p) == /\ cmd' = [cmd EXCEPT ![p] = Off]
           /\ mem' = [mem EXCEPT ![p] = Nil]
           /\ UNCHANGED file

WithC(p, k, r) == [mem[p] EXCEPT !.c[k] = r]
WithD(p, k, r) == [mem[p] EXCEPT !.d[k] = r]

(* newCreateIssueID: an identifier that no receipt of the key carries anywhere. *)
Held == {file} \cup {mem[p] : p \in {q \in Procs : mem[q] # Nil}}
IssueIDs == 1..Cardinality(Procs) + 2
Unused(used) == CHOOSE n \in IssueIDs \ used : \A m \in IssueIDs \ used : n <= m
NewCreateIssue(k) == Unused({st.c[k].n : st \in Held})
NewRemovalIssue(k) == Unused({st.d[k].n : st \in Held})

(* validateCreateAttempt *)
ValidCreate(k, r) ==
    /\ r.ph \in CreatePhases /\ r.id \in VMIds \cup {Nil}
    /\ (r.n # 0) <=> (r.ph \in {"issued", "rejected", "materialized"})
    /\ k[1] = "vm" => (r.id # Nil <=> r.ph \in {"materialized", "adopted"})

(* validateVMDeleteAttempt for a VM, validateDestroyRemovalAttempt otherwise. *)
AddressPhases == {"unIntent", "unIssued", "delIntent", "delIssued"}
ValidVMRemoval(d) ==
    /\ d.id \in VMIds /\ d.why \in {"destroy", "rollback"}
    /\ d.ph \in {"fipFind", "fipAfter"} \cup AddressPhases => d.why = "rollback"
    /\ d.ph \in AddressPhases => d.ip
    /\ d.ph = "fipFind" \/ d.why = "destroy" => ~d.ip
    /\ d.seen => d.ph \in {"vmIntent", "vmIssued", "fipAfter", "unIssued", "delIssued"}
ValidDestroyRemoval(k, d) ==
    /\ d.why = "destroy"
    /\ d.ph \in {"absent"} \cup (IF k[1] = "fw" THEN {"fwIntent", "fwIssued"} ELSE AddressPhases)
    /\ k[1] = "fip" => d.ip
    /\ d.seen => d.ph # "absent"
IssuedPhases == {"vmIssued", "unIssued", "delIssued", "fwIssued"}
ValidRemoval(k, d) ==
    \/ d = NoRemoval
    \/ /\ d.ph \in RemovalPhases \ {"none"}
       /\ (d.n # 0) <=> (d.ph \in IssuedPhases)
       /\ IF k[1] = "vm" THEN ValidVMRemoval(d) ELSE ValidDestroyRemoval(k, d)

(* validateMutationAttemptTopology: every key lies in the configured topology. *)
InTopology(k, used) == used => k[1] = "fw" \/ k[2] <= size

(* recordMaterializedCreate *)
Materialize(p, k, v) ==
    LET r == mem[p].c[k]
    IN IF r.ph \in {"issued", "rejected"} THEN WithC(p, k, [r EXCEPT !.ph = "materialized", !.id = v])
       ELSE mem[p]

(* recordAdoptedCreate *)
Adopt(p, k, v) ==
    IF mem[p].c[k].ph \in {"none", "intent"}
    THEN WithC(p, k, [ph |-> "adopted", id |-> v, n |-> 0])
    ELSE mem[p]

(* recordPreDispatchCreateRejection *)
Reject(p, k) == WithC(p, k, [mem[p].c[k] EXCEPT !.ph = "rejected"])

(* Mutant: the reset receipt still counts as issued. *)
ResetKeepsIssue(p, k) == WithC(p, k, [mem[p].c[k] EXCEPT !.ph = "intent"])
(* resetPreDispatchCreateIssue *)
ResetIssue(p, k) == WithC(p, k, [mem[p].c[k] EXCEPT !.ph = "intent", !.n = 0])

(* clearPreDispatchCreateRejection *)
ClearRejection(p, k) == WithC(p, k, NoCreate)

-----------------------------------------------------------------------------
(* What the inventories show. *)

Sees(v) == vm[v].st = "live" /\ <<"vm", v>> \notin hidden
SeesFip(v) == vm[v].fip \in {"auto", "named", "free", "stray"} /\ <<"fip", v>> \notin hidden
SeesFw(f) == f \in fw /\ <<"fw", f>> \notin hidden
Named(s) == {v \in VMIds : v[1] = s /\ Sees(v)}

(* A named address, or one that is assigned to a visible VM of this cluster. *)
Item(s) == {v \in VMIds : /\ v[1] = s /\ Ours(v) /\ SeesFip(v)
                          /\ \/ vm[v].fip \in {"named", "free"}
                             \/ vm[v].fip = "auto" /\ Sees(v)}
Assigned(f) == {v \in VMIds : FirewallOf(v[1]) = f /\ vm[v].st = "live" /\ vm[v].fw}

Snapshot == [vm   |-> [s \in Slots |-> IF Named(s) = {} THEN Nil ELSE CHOOSE v \in Named(s) : TRUE],
             fw   |-> {f \in Firewalls : SeesFw(f)},
             with |-> {v \in VMIds : vm[v].st = "live" /\ vm[v].fw},
             fip  |-> [s \in Slots |-> IF Item(s) = {} THEN "none"
                                       ELSE vm[CHOOSE v \in Item(s) : TRUE].fip]]

Fault == faults > 0 /\ faults' = faults - 1

(* Counts the requests sent under a create receipt; an empty one has none. *)
Count(sent) == posts' = [k \in CreateKeys |-> IF file'.c[k].ph = "none" THEN 0
                                             ELSE posts[k] + IF k \in sent THEN 1 ELSE 0]
=============================================================================
