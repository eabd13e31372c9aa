---------------------------- MODULE MCKeyedMutex ----------------------------
(* Three goroutines of one controller process and two VMs. *)
EXTENDS KeyedMutex, TLC

CONSTANTS c1, c2, c3, v1, v2, e1, e2, e3

MCCallers == {c1, c2, c3}
MCKeys == {v1, v2}
MCEntries == {e1, e2, e3}
=============================================================================
