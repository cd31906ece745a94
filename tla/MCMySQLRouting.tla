--------------------------- MODULE MCMySQLRouting ---------------------------
(***************************************************************************)
(* Instances of MySQLRouting for TLC.                                      *)
(***************************************************************************)
EXTENDS MySQLRouting

CONSTANTS c1, c2, s1

\* With two buckets each of the two connections has one of its own.
MCBucketOf == [c \in Conns |-> IF c = c1 /\ NumBuckets = 2 THEN 2 ELSE 1]
=============================================================================
