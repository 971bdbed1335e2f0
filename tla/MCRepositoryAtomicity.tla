------------------------ MODULE MCRepositoryAtomicity ------------------------
(* One caller, and batches smaller than, and as large as, the repository.   *)
EXTENDS RepositoryAtomicity, MCRequestRepository

============================================================================
