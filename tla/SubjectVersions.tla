---------------------------- MODULE SubjectVersions ----------------------------
(***************************************************************************)
(* The versions of a subject: their schemas, the verdict of the engine of  *)
(* their format on two of them under the subject's level                   *)
(* (Engine.Compatible), and what the level promises to those who read and  *)
(* write with them.  RegistryState leaves the verdict on a pair of schemas *)
(* open; here it is the one of the JSON Schema or of the Protobuf engine.  *)
(***************************************************************************)
EXTENDS Integers, JsonSchema, Protobuf

CONSTANTS
    Documents,          \* JSON Schemas that are registered
    Values,             \* JSON values producers write
    Files,              \* Protobuf files that are registered
    ConfiguredLevels,   \* levels of the subject
    MaxVersions         \* bound on the versions

ASSUME SchemasAssumption ==
    /\ \A d \in Documents : IsDocument(d)
    /\ \A v \in Values : IsValue(v)
    /\ \A f \in Files : \A m \in DOMAIN f : \A n \in DOMAIN f[m] : f[m][n].kind \in Kind
    /\ MaxVersions \in Nat

VARIABLES
    format,     \* "JSON" or "PROTOBUF"
    level,      \* the effective compatibility of the subject
    history,    \* schemas of its versions, in order
    deleted     \* soft-deleted versions

BackwardLevels == {"BACKWARD", "BACKWARD_TRANSITIVE", "FULL", "FULL_TRANSITIVE"}
ForwardLevels == {"FORWARD", "FORWARD_TRANSITIVE", "FULL", "FULL_TRANSITIVE"}
TransitiveLevels == {"BACKWARD_TRANSITIVE", "FORWARD_TRANSITIVE", "FULL_TRANSITIVE"}

Active == DOMAIN history \ deleted

\* The schemas of the subject's format, and the comparison of its engine.
Schemas == IF format = "JSON" THEN Documents ELSE Files
Compare(reader, writer) ==
    IF format = "JSON" THEN CompareDocuments(reader, writer) ELSE CompareFiles(reader, writer)

\* Engine.Compatible, which is the same in both engines.
Compatible(candidate, previous) ==
    /\ level \in BackwardLevels => Compare(candidate, previous)
    /\ level \in ForwardLevels => Compare(previous, candidate)

-----------------------------------------------------------------------------
\* The pairs of active versions, reader first, that the level speaks about.
Promised ==
    {p \in Active \X Active : \/ level \in BackwardLevels /\ p[1] > p[2]
                              \/ level \in ForwardLevels /\ p[1] < p[2]}

\* Versions p was compared with directly or by way of versions in between.
Between(p) ==
    IF level \in TransitiveLevels THEN {p}
    ELSE LET low == IF p[1] < p[2] THEN p[1] ELSE p[2]
             high == IF p[1] < p[2] THEN p[2] ELSE p[1]
         IN  {q \in (low .. high) \X (low .. high) : (q[1] < q[2]) = (p[1] < p[2]) /\ q[1] # q[2]}

\* A consumer with one version of a JSON Schema reads everything a producer
\* wrote with another that the level relates it to, also where versions were
\* compared only with the latest one and others were deleted in between.  Values
\* are lost to differences compareDocuments does not look at, and to no other.
ReadersKeepUp ==
    format = "JSON" => \A p \in Promised :
        \/ Covers(Values, history[p[1]], history[p[2]])
        \/ \E q \in Between(p) : Unread(history[q[1]], history[q[2]])

\* A field number is read as it was written in all active versions of a
\* Protobuf schema, with two exceptions: under a level that compares with the
\* latest version only it may come back with another encoding after a version
\* without it, and there are differences wireClass does not look at, as between
\* bytes and text.
NumbersKeepTheirEncoding ==
    format = "PROTOBUF" => \A p \in Promised : \A m \in DOMAIN history[p[1]] :
        \A n \in DOMAIN history[p[1]][m] :
            Misreads(history[p[1]], history[p[2]], m, n) =>
                \E q \in Between(p) :
                    \/ m \notin Common(history[q[1]], history[q[2]])
                    \/ n \notin Common(history[q[1]][m], history[q[2]][m])
                    \/ Overlooked(history[q[1]][m][n], history[q[2]][m][n])
=============================================================================
