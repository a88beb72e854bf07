------------------------------ MODULE MCSshPool ------------------------------
(* Model values and symmetry for checking SshPool.                          *)
EXTENDS SshPool, TLC

Symmetry == Permutations(Calls) \cup Permutations(Ids)
=============================================================================
