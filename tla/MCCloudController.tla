-------------------------- MODULE MCCloudController --------------------------
(* Finite instances of CloudController. *)
EXTENDS CloudController, TLC

CONSTANTS p1, p2

Base == [nodes |-> {1}, service |-> TRUE, built |-> FALSE, team |-> {p1}, late |-> FALSE, col |-> {FALSE},
         faults |-> 0, flaky |-> FALSE, calm |-> FALSE, brownouts |-> 0, edits |-> 0, may |-> {}]
New == [Base EXCEPT !.faults = 2]
Grow == [Base EXCEPT !.nodes = {1, 2}, !.built = TRUE, !.may = {"node", "vm", "rule"}, !.edits = 3]
Dark == [Grow EXCEPT !.may = {"node"}, !.edits = 2, !.brownouts = 1]
Unpublish == [Base EXCEPT !.built = TRUE, !.edits = 3, !.may = {"mark", "release", "delete"}, !.faults = 1]
GoneSoon == [Base EXCEPT !.edits = 1, !.may = {"delete"}, !.faults = 2]
Collide == [Base EXCEPT !.col = BOOLEAN, !.faults = 1]
Flaps == [Base EXCEPT !.built = TRUE, !.edits = 1, !.may = {"delete"}, !.flaky = TRUE, !.faults = 1]
Cluster == [Base EXCEPT !.service = FALSE, !.nodes = {1, 2, 3}, !.edits = 2, !.may = {"node", "vm", "lease"}, !.brownouts = 1]
Again == [Cluster EXCEPT !.nodes = {1, 2}, !.edits = 2, !.may = {"node", "vm"}, !.brownouts = 2]
Late == [Base EXCEPT !.faults = 1, !.late = TRUE, !.edits = 2, !.may = {"mark"}]
Losses == [Base EXCEPT !.service = FALSE, !.nodes = {1, 2, 3}, !.edits = 4, !.may = {"node", "vm"}]
Two == [Base EXCEPT !.team = {p1, p2}]
TwoDelete == [Two EXCEPT !.built = TRUE, !.edits = 1, !.may = {"delete"}]

Calm == [Base EXCEPT !.edits = 2, !.may = {"delete", "rule", "mark"}, !.calm = TRUE]

AllPlans == {New, Grow, Dark, Unpublish, GoneSoon, Collide, Flaps, Cluster, Again, Losses, Two, TwoDelete, Calm,
             [Calm EXCEPT !.built = TRUE]}
LatePlans == {Late}
=============================================================================
