------------------------- MODULE MCFirewallRelation -------------------------
(* Finite instances of FirewallRelation: what may happen in a behaviour. *)
EXTENDS FirewallRelation

Plan(controllers, owners, live, serving, launches, leaves, want, limit, stuck, n) ==
    [controllers |-> controllers, owners |-> owners, live |-> live, serving |-> serving,
     launches |-> launches, leaves |-> leaves, want |-> want, limit |-> limit,
     stuck |-> stuck, faults |-> n]

Edge == {"icmp", "shard"}

MCPlans == {
    \* A replacement: one Node serves and leaves, another is launched.
    Plan({"a"}, Edge, {1}, {1}, {2}, {1}, {}, 2, {}, 0),
    \* The first Node is attached; something goes wrong once.
    Plan({"a"}, Edge, {1}, {}, {}, {}, {}, 2, {}, 1),
    \* Two controllers overlap.
    Plan({"a", "b"}, {"s1"}, {1}, {}, {}, {}, {1}, 3, {}, 1),
    \* Two Services share a VM that has room for one more firewall.
    Plan({"a"}, {"s1", "s2"}, {1}, {}, {}, {}, {1}, 1, {}, 0),
    \* One relation never commits.
    Plan({"a"}, {"s1"}, {1, 2}, {1, 2}, {}, {}, {}, 3, {1}, 0) }

SurgePlans == {Plan({"a"}, Edge, {1}, {1}, {2}, {}, {}, 2, {}, 0)}
=============================================================================
