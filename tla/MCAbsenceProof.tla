--------------------------- MODULE MCAbsenceProof ---------------------------
(* Instances of AbsenceProof for TLC. *)
EXTENDS AbsenceProof
=============================================================================
