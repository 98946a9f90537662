--------------------------- MODULE MCUsageReserve ---------------------------
(***************************************************************************)
(* UsageReserve for TLC: keys, runs and slots are model values.            *)
(***************************************************************************)
EXTENDS UsageReserve, TLC

\* Keys, runs and slots are only compared, and all start alike.
Interchangeable == Permutations(Keys) \cup Permutations(Runs) \cup Permutations(Requests)
=============================================================================
