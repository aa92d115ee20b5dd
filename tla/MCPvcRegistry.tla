---------------------------- MODULE MCPvcRegistry ----------------------------
(* Values for the constants of PvcRegistry.                                *)
EXTENDS PvcRegistry

CONSTANTS s1, a, o1

MCRefs == [x \in Identity |-> {}]

\* The logical backup of a registry that holds a in s1, registered by o1.
MCBackups ==
    LET r == [op |-> o1, subject |-> s1, identity |-> a, id |-> 0, version |-> 0]
    IN  {Apply(NewState, RegisterEnvelope(NewState, r))}
=============================================================================
