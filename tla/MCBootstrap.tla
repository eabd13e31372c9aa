----------------------------- MODULE MCBootstrap -----------------------------
(* Finite instances of Bootstrap. *)
EXTENDS Bootstrap, TLC

CONSTANTS p1, p2

Both == {"reconcile", "destroy"}
Plan(sz, n, ps, modes, built, found) ==
    [size |-> sz, faults |-> n, team |-> ps \X modes, built |-> built, found |-> found,
     turns |-> [last |-> IF modes = Both THEN "reconcile" ELSE CHOOSE md \in modes : TRUE,
                left |-> IF modes # Both THEN 0 ELSE IF built = {} THEN 2 ELSE 1]]
New == Plan(1, 1, {p1}, {"reconcile"}, {}, {})                \* a fault anywhere in the first build
Grow == Plan(1, 2, {p1}, {"reconcile"}, {0}, {})              \* two faults around one control plane
Life == Plan(1, 0, {p1}, Both, {}, {})                        \* build, destroy at any point, build again at any point
Down == Plan(1, 2, {p1}, {"destroy"}, {0, 1}, {})             \* two faults while everything is destroyed
Found == Plan(1, 1, {p1}, {"reconcile"}, {}, {0, 1})          \* VMs without receipts are adopted
Three == Plan(3, 0, {p1}, {"reconcile"}, {0, 1}, {})          \* three control planes
ThreeDown == Plan(3, 0, {p1}, {"destroy"}, {0, 1, 2, 3}, {})
Pair == Plan(1, 0, {p1, p2}, {"reconcile"}, {0}, {})          \* two commands at the same time
PairDown == Plan(1, 0, {p1, p2}, {"destroy"}, {0, 1}, {})
Clash == Plan(1, 0, {p1, p2}, Both, {0, 1}, {})               \* a destroy while a reconcile runs

Symmetry == Permutations({p1, p2})
MCPlans == {New, Grow, Life, Down, Found, Three, ThreeDown, Pair, PairDown, Clash}
MCLife == {Life}
=============================================================================
