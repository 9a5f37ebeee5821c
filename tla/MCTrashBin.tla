----------------------------- MODULE MCTrashBin -----------------------------
(***************************************************************************)
(* Instances of TrashBin for TLC: an account with one project.             *)
(***************************************************************************)
EXTENDS TrashBin, TLC

CONSTANTS u1, p1, w1, w2, c1

OwnedByU1 == [p \in Projects |-> u1]

\* The two tables have been used before, to different extents.
ApartPks == [k \in Kinds |-> IF k = "account" THEN 1 ELSE 11]

\* An account may be trashed twice, so that a total deletion supersedes another.
TwoAccountRows == [k \in Kinds |-> IF k = "account" THEN 2 ELSE 1]
OneRow == [k \in Kinds |-> 1]

WorkerSymmetry == Permutations({w1, w2})
=============================================================================
