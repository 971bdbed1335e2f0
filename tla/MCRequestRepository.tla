------------------------ MODULE MCRequestRepository ------------------------
(* Small instances of the repository.                                      *)
EXTENDS RequestRepository, TLC

CONSTANTS t1, t2, r1, r2, r3, r4, r5

MCRequests == {r1, r2, r3, r4}
ThreeRequests == {r1, r2, r3}
FiveRequests == {r1, r2, r3, r4, r5}

\* The ids are the requests themselves: all different.
OwnId == [r \in Requests |-> r]

\* A request without statements, one with a single one and two with more.
MCSqlCount == [r \in Requests |-> IF r = r1 THEN 2 ELSE IF r = r2 THEN 0 ELSE 1]

ThreadSymmetry == Permutations(Threads)

============================================================================
