---------------------------- MODULE MCNodeRemoval ----------------------------
(* Finite instances of TerminationRecovery: what may happen in a behaviour. *)
EXTENDS TerminationRecovery

P(n, late, lifecycle, recovery, newcomer, releases, reallocates, rejoins) ==
    [faults |-> n, late |-> late, lifecycle |-> lifecycle, recovery |-> recovery,
     newcomer |-> newcomer, releases |-> releases, reallocates |-> reallocates,
     rejoins |-> rejoins]

MCPlans == {
    P(1, FALSE, TRUE, TRUE, FALSE, FALSE, TRUE, FALSE),
    P(2, FALSE, TRUE, FALSE, TRUE, TRUE, FALSE, FALSE),
    P(3, FALSE, TRUE, FALSE, FALSE, TRUE, TRUE, FALSE),
    P(2, FALSE, FALSE, TRUE, FALSE, FALSE, FALSE, TRUE),
    P(0, FALSE, TRUE, FALSE, TRUE, TRUE, FALSE, FALSE) }

WakeupPlans == {P(0, FALSE, FALSE, TRUE, TRUE, TRUE, FALSE, TRUE)}
=============================================================================
