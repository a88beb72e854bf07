---------------------------- MODULE MCArchiveJobs ----------------------------
(* Model values and symmetry for checking ArchiveJobs.                      *)
EXTENDS ArchiveJobs, TLC

Plain == Names \X {0}

Symmetry == Permutations(Jobs) \cup Permutations(Names)
=============================================================================
