------------------------------ MODULE MCSources ------------------------------
(* A small instance of Sources for TLC.                                     *)
EXTENDS Sources, TLC

MCSymmetry == Permutations(Clients)
=============================================================================
