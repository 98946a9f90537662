-------------------------- MODULE MCEnforcementFsm --------------------------
(***************************************************************************)
(* EnforcementFsm for TLC: request slots and hashes are model values.      *)
(***************************************************************************)
EXTENDS EnforcementFsm, TLC

\* Slots are interchangeable, and so are hashes: the code only compares them.
SlotsAndHashes == Permutations(Requests) \cup Permutations(Hashes)
=============================================================================
