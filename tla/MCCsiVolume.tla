---------------------------- MODULE MCCsiVolume ----------------------------
(* Instances of CsiVolume for TLC: one controller process, two RPCs at a     *)
(* time, and the workloads they are drawn from.                              *)
EXTENDS CsiVolume, TLC

CONSTANTS p1, d1

OneProcess == [c \in Callers |-> p1]

Load(ops, existing, sizes, attempts) ==
  [ops |-> ops, existing |-> existing, sizes |-> sizes, attempts |-> attempts]

\* CreateVolume of one name in two sizes.
Creating == Load({"create", "operator"}, {}, {1, 2}, 3)
\* CreateVolume and DeleteVolume of one name.
Deleting == Load({"create", "delete", "operator"}, {}, {1}, 4)
\* ControllerPublishVolume and ControllerUnpublishVolume of one disk.
Attaching == Load({"attach", "detach", "removal"}, {d1}, {1}, 2)
\* DeleteVolume against ControllerPublishVolume of the same disk.
InUse == Load({"attach", "delete", "removal"}, {d1}, {1}, 3)
\* ControllerExpandVolume against ControllerUnpublishVolume of the same disk.
Expanding == Load({"detach", "expand", "removal"}, {d1}, {1, 2}, 2)

SafetyLoads == {Creating, Deleting, Attaching, InUse, [Expanding EXCEPT !.attempts = 1]}
ExpandLoads == {Expanding}
CreateLoads == {[Creating EXCEPT !.attempts = 2]}

Symmetry == Permutations(VMs)
=============================================================================
