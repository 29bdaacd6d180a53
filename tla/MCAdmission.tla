----------------------------- MODULE MCAdmission -----------------------------
(***************************************************************************)
(* Small instances of AdmissionControl: words of 16 and 20 bits, periods   *)
(* and computation times that add up to both sides of 0.693.               *)
(***************************************************************************)
EXTENDS AdmissionControl, TLC

Word16 == 2^16
Word20 == 2^20
Symmetry == Permutations(Pids)
=============================================================================
