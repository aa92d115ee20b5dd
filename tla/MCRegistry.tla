------------------------------ MODULE MCRegistry ------------------------------
(* Values for the constants of Registry.                                   *)
EXTENDS Registry, TLC

CONSTANTS s1, s2, a, b, c, o1

\* b references version 1 of s1, c references version 1 of s2.
MCRefs == a :> {} @@ b :> {[subject |-> s1, version |-> 1]}
          @@ c :> {[subject |-> s2, version |-> 1]}

\* c can read a and be read by it, b can read a.
MCReads == {<<c, a>>, <<a, c>>, <<b, a>>}

\* Explicit IDs: none, the first ID, a negative one and the largest.
MCRequestedIDs == {0, 1, -1, MaxInt}

\* The logical backup of a registry that holds a in s1, soft-deleted.
MCBackups ==
    LET r == [op |-> NoOperation, subject |-> s1, identity |-> a, id |-> 0, version |-> 0]
        d == [op |-> NoOperation, subject |-> s1, version |-> 1, permanent |-> FALSE]
        registered == Apply(NewState, RegisterEnvelope(NewState, r))
    IN  {Apply(registered, DeleteVersionEnvelope(registered, d))}
=============================================================================
