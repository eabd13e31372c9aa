------------------------------ MODULE MCNodeLB ------------------------------
(* Finite instances of NodeLB: what may happen in a behaviour. *)
EXTENDS NodeLB

MCFirst == [s \in Services |-> IF s = "s1" THEN "p" ELSE "r"]

Plan(live, edits, to, deletes, outside, faults) ==
    [live |-> live, edits |-> edits, to |-> to, deletes |-> deletes, outside |-> outside, faults |-> faults]

One == {"s1"}
Two == {"s1", "s2"}

MCPlans ==
    { Plan(One, 1, {"q"}, One, {}, 1),                \* edited and deleted, one fault
      Plan(One, 0, {}, One, {}, 2),                   \* deleted, two faults
      Plan(One, 2, {"invalid", "p"}, {}, {}, 0),      \* malformed, then repaired
      Plan(One, 0, {}, {}, {"pool", "firewall"}, 1),  \* others delete what it stands on
      Plan(One, 0, {}, One, {"pool"}, 0),
      Plan(Two, 0, {}, {"s2"}, {}, 1),                \* one leaves the shard, one fault
      Plan(Two, 0, {}, Two, {}, 0),                   \* both leave it
      Plan(Two, 1, {"q"}, {}, {}, 0),                 \* one is edited
      Plan(Two, 1, {"invalid"}, {}, {}, 0) }          \* one becomes malformed

(* One Service, edited and edited back while a PUT may be unanswered. *)
MCReverted == { Plan(One, 2, {"p", "q"}, {}, {}, 1) }
=============================================================================
