---------------------------- MODULE FirewallSlot ----------------------------
(***************************************************************************)
(* The firewall mutation ledger: one Lease holds, for each firewall, a       *)
(* non-expiring receipt of who may change its relations.  One firewall is    *)
(* modelled.  An acquisition is one CAS of the Lease: its nonce is fresh,    *)
(* so a slot that is found, one's own included, never gives the right to     *)
(* send; only the slot one has just written does.                           *)
(***************************************************************************)
EXTENDS Naturals

Empty == [owner |-> "none", op |-> "none", phase |-> "none", issue |-> 0]

Slots == [owner : {"none", "target", "newcomer"},
          op : {"none", "assign", "detach"},
          phase : {"none", "issued", "observed", "rejected"}, issue : Nat]

Taken(owner, op, issue) ==
    [owner |-> owner, op |-> op, phase |-> "issued", issue |-> issue]

Owns(slot, owner, op) == slot.owner = owner /\ slot.op = op

(* Mutant: an issued slot of another claim is taken for settled. *)
TerminalAlways(slot, exists, receipt) == TRUE

(* The owner in the slot is done: its phase says so, its NodeClaim is gone,  *)
(* or the assignment receipt that NodeClaim carries is settled.  An issued   *)
(* detach of a NodeClaim that still exists is never done.                    *)
Terminal(slot, exists, receipt) ==
    \/ slot.phase \in {"none", "observed", "rejected"}
    \/ ~exists
    \/ slot.op = "assign" /\ receipt \in {"observed", "rejected"}

(* A slot somebody else has taken over is left alone. *)
SlotFinished(slot, owner, op, issue, terminal) ==
    IF Owns(slot, owner, op) /\ slot.issue = issue /\ slot.phase = "issued"
    THEN [slot EXCEPT !.phase = terminal] ELSE slot
=============================================================================
