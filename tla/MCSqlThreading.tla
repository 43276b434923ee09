--------------------------- MODULE MCSqlThreading ---------------------------
(***************************************************************************)
(* Instances of SqlThreading for TLC: three queries, so that a job that    *)
(* has been used is taken again while others are under way.  Queries and   *)
(* jobs are interchangeable, which the safety runs use.                    *)
(***************************************************************************)
EXTENDS SqlThreading, TLC

CONSTANTS q1, q2, q3, j1, j2, j3

ThreeQueries == {q1, q2, q3}
TwoQueries == {q1, q2}
ThreeJobs == {j1, j2, j3}
TwoJobs == {j1, j2}

Interchangeable == Permutations(ThreeQueries) \cup Permutations(ThreeJobs)

=============================================================================
