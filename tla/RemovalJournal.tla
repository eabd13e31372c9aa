--------------------------- MODULE RemovalJournal ---------------------------
(***************************************************************************)
(* The removal-mutation fence of a NodeClaim: one annotation that           *)
(* serializes everything the provider destroys for that claim.  It holds    *)
(* one receipt at a time, of the VM DELETE ("vm"), of the unassignment of    *)
(* the floating IP ("unassign") or of its DELETE ("delete"), and remembers   *)
(* the observed DELETE of the address after the receipt has been replaced.  *)
(*                                                                         *)
(* A journal names one VM and one address, so the operation identifies the  *)
(* mutation.  Every operator here is one read-compare-Update-read back of    *)
(* the store.                                                               *)
(***************************************************************************)
EXTENDS Naturals

NoOp == "none"
Ops == {"vm", "unassign", "delete"}

(* The ready record, written together with the create fence. *)
Ready == [op |-> NoOp, phase |-> "ready", issue |-> 0, deleted |-> FALSE]

(* What a store call told its caller about a mutation: no receipt at all,   *)
(* or the receipt, and whether the caller may send the request now.          *)
Inactive == [op |-> NoOp, phase |-> "none", issue |-> 0, allow |-> FALSE]

Fence(j) == [op |-> j.op, phase |-> j.phase, issue |-> j.issue, allow |-> FALSE]

Observation(op) == [op |-> op, phase |-> "observed", issue |-> 0, allow |-> FALSE]

(* The DELETE of the address was observed, now or before later receipts. *)
Archived(j) == j.deleted

(* Mutant: a settled receipt is never replaced. *)
MayIssueOnce(j, op) == j.phase = "ready"

(* A new receipt replaces a ready or settled one: another operation must     *)
(* have been observed, the same operation must have been rejected.           *)
MayIssue(j, op) ==
    /\ ~(op = "delete" /\ Archived(j))
    /\ \/ j.phase = "ready"
       \/ j.phase = "observed" /\ j.op # op
       \/ j.phase = "rejected" /\ j.op = op

Issue(j, op) == [j EXCEPT !.op = op, !.phase = "issued", !.issue = @ + 1]

(* A present resource whose receipt is already issued: no second request.    *)
Pending(j, op) == j.phase = "issued" /\ j.op = op

(* The answer to "this resource is absent": the receipt of that mutation,    *)
(* if there is one, to be observed. *)
Recall(j, op) ==
    IF op = "delete" /\ Archived(j) THEN Observation(op)
    ELSE IF j.op = op THEN Fence(j) ELSE Inactive

(* The receipt the caller holds is still the stored one, issue and phase. *)
CanFinish(j, f, terminal) ==
    /\ j.op = f.op /\ j.issue = f.issue
    /\ \/ j.phase = terminal
       \/ /\ j.phase = f.phase
          /\ j.phase \in IF terminal = "rejected" THEN {"issued"}
                         ELSE {"issued", "rejected"}

(* Observing the DELETE of the address also archives it. *)
Finished(j, terminal) ==
    [j EXCEPT !.phase = terminal,
              !.deleted = @ \/ (terminal = "observed" /\ j.op = "delete")]
=============================================================================
