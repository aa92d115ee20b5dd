------------------------------ MODULE MCMigration ------------------------------
(* Values for the constants of Migration.                                  *)
EXTENDS Migration

CONSTANTS s1, s2, a, b

\* b references version 2 of s2.
MCRefs == [x \in Identity |-> IF x = b THEN {[subject |-> s2, version |-> 2]} ELSE {}]
MCReads == Identity \X Identity

MCRank == [s \in Subject |-> IF s = s1 THEN 1 ELSE 2]

\* No explicit ID, one a registry should not hold, or one that leaves a gap.
MCRequestedIDs == {0, -1, 2}
=============================================================================
