------------------------------ MODULE MCProfiles ------------------------------
(* Small instances of Profiles for TLC.                                     *)
EXTENDS ProfilesRefinement, TLC

MCSymmetry == Permutations(Profiles) \cup Permutations(Tokens) \cup Permutations(Clients)

\* Where one profile's changes run alone and another's do not, the two differ.
MCSlots == Permutations(Tokens) \cup Permutations(Clients)
=============================================================================
