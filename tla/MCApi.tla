-------------------------------- MODULE MCApi --------------------------------
(* Values for the constants of Api.                                        *)
EXTENDS Api, TLC

CONSTANTS s1, s2, a, b

\* b references version 1 of s1; b reads a, and the engine of a does not parse b.
MCRefs == a :> {} @@ b :> {[subject |-> s1, version |-> 1]}
MCReads == {<<b, a>>}
MCForeign == {<<a, b>>}

Base == [subject |-> s1, schema |-> None, id |-> 0, version |-> 0, flag |-> FALSE, value |-> None]
On(endpoint, fields) == [endpoint |-> endpoint] @@ fields @@ Base

\* The requests; a mutation is the operation of its place in the list.
MCOperations == 1 .. 11
Sent ==
    <<On("register", [schema |-> a]),
      On("register", [schema |-> b]),
      On("register", [subject |-> s2, schema |-> b]),
      On("deleteVersion", [version |-> 1]),
      On("deleteVersion", [version |-> 1, flag |-> TRUE]),
      On("deleteVersion", [subject |-> s2]),
      On("deleteSubject", [subject |-> s2, flag |-> TRUE]),
      On("putConfig", [value |-> "NONE"]),
      On("putMode", [value |-> "READONLY"]),
      On("deleteSubjectConfig", <<>>),
      On("deleteSubjectMode", <<>>),
      On("schemaByID", [subject |-> Global, id |-> 1]),
      On("schemaByID", [id |-> 1]),
      On("versionsByID", [id |-> 1]),
      On("subjects", <<>>),
      On("version", <<>>),
      On("version", [version |-> 1, flag |-> TRUE]),
      On("referencedBy", [version |-> 1]),
      On("getSubjectConfig", [flag |-> TRUE]),
      On("getSubjectMode", <<>>),
      On("lookupSchema", [schema |-> a]),
      On("compatibility", [schema |-> b, version |-> 1]),
      On("compatibility", [subject |-> s2, schema |-> a])>>

MCRequests ==
    {[op |-> IF i \in MCOperations THEN i ELSE NoOperation] @@ Sent[i] : i \in DOMAIN Sent}

\* A registry that holds a in s1 and b in s2.
MCBackups ==
    LET r(s, x) == [op |-> NoOperation, subject |-> s, identity |-> x, id |-> 0, version |-> 0]
        first == Apply(NewState, RegisterEnvelope(NewState, r(s1, a)))
    IN  {Apply(first, RegisterEnvelope(first, r(s2, b)))}

=============================================================================
