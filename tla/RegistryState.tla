---------------------------- MODULE RegistryState ----------------------------
(***************************************************************************)
(* The materialized registry state of internal/domain: the Snapshot record *)
(* (state.go), its queries, the planning of every command (machine.go) and *)
(* the application of a transition envelope.  Everything here is a pure    *)
(* operator on a state st; the modules that hold state extend this one.    *)
(*                                                                         *)
(* A schema is known by its identity: the hash of canonical text, type and *)
(* references (schemaIdentity of the engines), so the references of a      *)
(* schema are a function of its identity.  Text, GUIDs and timestamps are  *)
(* left out.                                                               *)
(***************************************************************************)
EXTENDS Integers, FiniteSets

CONSTANTS
    Subject,            \* subject names
    Identity,           \* schema identities
    OperationID,        \* operation IDs a client may repeat
    NoOperation,        \* the empty operation ID
    Global,             \* Scope{Subject: ""}
    None,               \* absence of a map entry
    Refs,               \* Refs[x]: the [subject, version] pairs schema x names
    Reads,              \* <<reader, writer>>: the engine accepts the pair
    MaxInt,             \* largest SchemaID and Version (2^63 - 1 in the code)
    RequestedIDs,       \* explicit IDs clients send, 0 for none
    RequestedVersions,  \* explicit versions clients send, 0 for none
    ConfigLevels,       \* compatibility levels clients configure
    ConfigModes,        \* modes clients configure
    Backups,            \* logical snapshots an operator may restore
    MaxSequence         \* bound on the number of transitions explored

Int64 == -MaxInt - 1 .. MaxInt
Increment(n) == IF n = MaxInt THEN -MaxInt - 1 ELSE n + 1

Reference == [subject : Subject, version : Int64]

Levels == {"NONE", "BACKWARD", "BACKWARD_TRANSITIVE", "FORWARD",
           "FORWARD_TRANSITIVE", "FULL", "FULL_TRANSITIVE"}
Transitive == {"BACKWARD_TRANSITIVE", "FORWARD_TRANSITIVE", "FULL_TRANSITIVE"}
Modes == {"READWRITE", "READONLY", "IMPORT"}

ASSUME ConstantsAssumption ==
    /\ MaxInt \in Nat \ {0}
    /\ Refs \in [Identity -> SUBSET Reference]
    /\ \A x \in Identity : \A r \in Refs[x] : r.version >= 1
    /\ Reads \subseteq Identity \X Identity
    /\ RequestedIDs \subseteq Int64
    /\ RequestedVersions \subseteq Int64
    /\ ConfigLevels \subseteq Levels
    /\ ConfigModes \subseteq Modes
    /\ Global \notin Subject
    /\ NoOperation \notin OperationID

-----------------------------------------------------------------------------
(* Types.                                                                  *)

\* One subject version.  seq is the sequence that registered it.
SubjectVersion == [version : Int64, id : Int64, seq : Nat,
                   deleted : BOOLEAN, permanent : BOOLEAN]

Result == [SchemaID : Int64, Version : Int64, Versions : SUBSET Int64]
ResultOf(id, version, versions) ==
    [SchemaID |-> id, Version |-> version, Versions |-> versions]
EmptyResult == ResultOf(0, 0, {})

\* Schemas keeps the identity stored under each ID.
Snapshot ==
    [Sequence : Nat,
     NextSchemaID : Int64,
     Schemas : [Int64 -> Identity \cup {None}],
     IdentityToID : [Identity -> Int64 \cup {None}],
     Subjects : [Subject -> SUBSET SubjectVersion],
     GlobalCompatibility : Levels,
     SubjectCompatibility : [Subject -> Levels \cup {None}],
     GlobalMode : Modes,
     SubjectModes : [Subject -> Modes \cup {None}],
     Operations : [OperationID -> Result \cup {None}]]

\* The sentinel differs from every value that can stand in its place.
ASSUME NoneAssumption ==
    /\ None \notin Identity
    /\ None \notin Int64
    /\ None \notin Levels
    /\ None \notin Modes
    /\ None \notin Result
    /\ None \notin Snapshot

NewState ==
    [Sequence |-> 0,
     NextSchemaID |-> 1,
     Schemas |-> [id \in Int64 |-> None],
     IdentityToID |-> [x \in Identity |-> None],
     Subjects |-> [s \in Subject |-> {}],
     GlobalCompatibility |-> "BACKWARD",
     SubjectCompatibility |-> [s \in Subject |-> None],
     GlobalMode |-> "READWRITE",
     SubjectModes |-> [s \in Subject |-> None],
     Operations |-> [o \in OperationID |-> None]]

-----------------------------------------------------------------------------
(* Queries.                                                                *)

IsActive(i) == ~i.deleted /\ ~i.permanent

\* Items a Lookup or a version listing sees.
Visible(st, s, includeDeleted) ==
    {i \in st.Subjects[s] : ~i.permanent /\ (includeDeleted \/ ~i.deleted)}

Versions(st, s, includeDeleted) ==
    {i.version : i \in Visible(st, s, includeDeleted)}

HasVersion(st, s, v, includeDeleted) == v \in Versions(st, s, includeDeleted)

EffectiveMode(st, s) ==
    IF st.SubjectModes[s] # None THEN st.SubjectModes[s] ELSE st.GlobalMode

EffectiveCompatibility(st, s) ==
    IF st.SubjectCompatibility[s] # None
    THEN st.SubjectCompatibility[s] ELSE st.GlobalCompatibility

\* Some active version of some subject references version v of subject s.
IsReferenced(st, s, v) ==
    \E t \in Subject : \E i \in st.Subjects[t] :
        /\ IsActive(i)
        /\ st.Schemas[i.id] # None
        /\ [subject |-> s, version |-> v] \in Refs[st.Schemas[i.id]]

\* Active associations of an ID, of all subjects or of one, that carry the
\* greatest sequence: the code walks a map, so it may answer with any member of
\* this set.
LatestForID(st, id, scope) ==
    LET owners == {s \in Subject : scope \in {Global, s}}
    IN  {p \in UNION {{[subject |-> s, item |-> i] : i \in st.Subjects[s]} : s \in owners} :
            /\ p.item.id = id /\ IsActive(p.item)
            /\ \A s \in owners : \A j \in st.Subjects[s] :
                  j.id = id /\ IsActive(j) => j.seq <= p.item.seq}

\* Mutant of IsRecorded: ResultFor is never asked.
IsRecordedNever(st, op) == FALSE

\* A retry of an operation that was recorded: the command answers with it.
IsRecorded(st, op) == op # NoOperation /\ st.Operations[op] # None

-----------------------------------------------------------------------------
(* Commands.  c is the command record the transport hands to the machine;  *)
(* XAllowed(st, c) is the conjunction of the checks that let it commit a   *)
(* transition, XEnvelope(st, c) the transition it commits.  A command that *)
(* is refused, answered from Operations or found to be a duplicate changes *)
(* nothing.                                                                *)

Operation == OperationID \cup {NoOperation}
Scope == Subject \cup {Global}

RegisterCommand == [op : Operation, subject : Subject, identity : Identity,
                    id : RequestedIDs, version : RequestedVersions]
DeleteVersionCommand == [op : Operation, subject : Subject,
                         version : 1 .. MaxInt, permanent : BOOLEAN]
DeleteSubjectCommand == [op : Operation, subject : Subject, permanent : BOOLEAN]
SetCompatibilityCommand == [op : Operation, scope : Scope, value : ConfigLevels]
SetModeCommand == [op : Operation, scope : Scope, value : ConfigModes]
InheritCommand == [op : Operation, scope : Subject]

Envelope(st, op, kind, payload, result) ==
    [Sequence |-> st.Sequence + 1, OperationID |-> op, Kind |-> kind,
     Payload |-> payload, Result |-> result]

\* Parsing resolves references against active versions, nested ones too: x
\* parses if x belongs to a set of schemas closed under active references.  A
\* cycle of references, which the engines refuse, would parse here; there is
\* none, since a schema references versions that were there before it.
Parses(st, x) ==
    \E S \in SUBSET Identity :
        /\ x \in S
        /\ \A y \in S : \A r \in Refs[y] : \E i \in Visible(st, r.subject, FALSE) :
              i.version = r.version /\ st.Schemas[i.id] \in S

\* The engines' verdict on one pair.  A pair of different formats is in Reads
\* in neither direction.
PairCompatible(level, new, old) ==
    /\ level \in {"BACKWARD", "BACKWARD_TRANSITIVE", "FULL", "FULL_TRANSITIVE"}
          => <<new, old>> \in Reads
    /\ level \in {"FORWARD", "FORWARD_TRANSITIVE", "FULL", "FULL_TRANSITIVE"}
          => <<old, new>> \in Reads

\* compatibilitySchemas: every active version, or the latest one only.
ComparedItems(st, s) ==
    LET active == Visible(st, s, FALSE)
    IN  IF EffectiveCompatibility(st, s) \in Transitive THEN active
        ELSE {i \in active : \A j \in active : j.version <= i.version}

\* m.check over the compared versions, when the policy asks for it.
PolicyAccepts(st, s, x) ==
    LET level    == EffectiveCompatibility(st, s)
        previous == {st.Schemas[i.id] : i \in ComparedItems(st, s)}
    IN  \/ EffectiveMode(st, s) = "IMPORT"
        \/ level = "NONE"
        \/ previous = {}
        \/ /\ Parses(st, x)
           /\ \A y \in previous : Parses(st, y) /\ PairCompatible(level, x, y)

NextVersion(st, s) ==
    LET numbers == {0} \cup {i.version : i \in st.Subjects[s]}
    IN  Increment(CHOOSE m \in numbers : \A n \in numbers : n <= m)

RegisterID(st, c) ==
    IF st.IdentityToID[c.identity] # None THEN st.IdentityToID[c.identity]
    ELSE IF c.id # 0 THEN c.id
    ELSE st.NextSchemaID

RegisterVersion(st, c) ==
    IF c.version # 0 THEN c.version ELSE NextVersion(st, c.subject)

\* Mutant of IsDuplicate: only the latest version of the subject is compared.
IsDuplicateOfLatest(st, s, x) ==
    \E i \in st.Subjects[s] : /\ IsActive(i) /\ i.id = st.IdentityToID[x]
                             /\ \A j \in st.Subjects[s] : j.version <= i.version

\* The schema is already an active version of the subject.
IsDuplicate(st, s, x) ==
    \E i \in st.Subjects[s] : IsActive(i) /\ i.id = st.IdentityToID[x]

RegisterAllowed(st, c) ==
    /\ ~IsRecorded(st, c.op)
    /\ EffectiveMode(st, c.subject) # "READONLY"
    /\ c.id # 0 \/ c.version # 0 => EffectiveMode(st, c.subject) = "IMPORT"
    /\ \A r \in Refs[c.identity] : HasVersion(st, r.subject, r.version, FALSE)
    /\ ~IsDuplicate(st, c.subject, c.identity)
    /\ c.id # 0 /\ st.IdentityToID[c.identity] # None
          => c.id = st.IdentityToID[c.identity]
    /\ st.Schemas[RegisterID(st, c)] \in {None, c.identity}
    /\ \A i \in st.Subjects[c.subject] : i.version # RegisterVersion(st, c)
    /\ PolicyAccepts(st, c.subject, c.identity)

RegisterEnvelope(st, c) ==
    Envelope(st, c.op, "schema_registered",
             [subject |-> c.subject, identity |-> c.identity,
              id |-> RegisterID(st, c), version |-> RegisterVersion(st, c)],
             ResultOf(RegisterID(st, c), RegisterVersion(st, c), {}))

\* Mutant of MayDestroy: ReferencedBy is not consulted.
MayDestroyReferenced(st, s, v) == \A i \in st.Subjects[s] : i.version = v => i.deleted

\* Permanent deletion asks for an earlier soft delete and no active referrer.
MayDestroy(st, s, v) ==
    /\ \A i \in st.Subjects[s] : i.version = v => i.deleted
    /\ ~IsReferenced(st, s, v)

DeleteVersionAllowed(st, c) ==
    /\ ~IsRecorded(st, c.op)
    /\ EffectiveMode(st, c.subject) # "READONLY"
    /\ HasVersion(st, c.subject, c.version, c.permanent)
    /\ c.permanent => MayDestroy(st, c.subject, c.version)

DeleteVersionEnvelope(st, c) ==
    Envelope(st, c.op, "version_deleted",
             [subject |-> c.subject, versions |-> {c.version}, permanent |-> c.permanent],
             ResultOf(0, c.version, {}))

DeleteSubjectAllowed(st, c) ==
    /\ ~IsRecorded(st, c.op)
    /\ EffectiveMode(st, c.subject) # "READONLY"
    /\ Versions(st, c.subject, c.permanent) # {}
    /\ c.permanent => \A v \in Versions(st, c.subject, TRUE) : MayDestroy(st, c.subject, v)

DeleteSubjectEnvelope(st, c) ==
    LET versions == Versions(st, c.subject, c.permanent)
    IN  Envelope(st, c.op, "subject_deleted",
                 [subject |-> c.subject, versions |-> versions, permanent |-> c.permanent],
                 ResultOf(0, 0, versions))

\* simpleMutation: configuration and mode commands check nothing but the retry.
SimpleAllowed(st, c) == ~IsRecorded(st, c.op)
SetCompatibilityEnvelope(st, c) ==
    Envelope(st, c.op, "compatibility_set", [scope |-> c.scope, value |-> c.value], EmptyResult)
DeleteCompatibilityEnvelope(st, c) ==
    Envelope(st, c.op, "compatibility_deleted", [scope |-> c.scope, value |-> None], EmptyResult)
SetModeEnvelope(st, c) ==
    Envelope(st, c.op, "mode_set", [scope |-> c.scope, value |-> c.value], EmptyResult)
DeleteModeEnvelope(st, c) ==
    Envelope(st, c.op, "mode_deleted", [scope |-> c.scope, value |-> None], EmptyResult)

-----------------------------------------------------------------------------
(* Transitions.                                                            *)

Deletions == {"version_deleted", "subject_deleted"}

\* Mutant of NewVersion: the sequence is not recorded.
NewUnsequencedVersion(e) ==
    [version |-> e.Payload.version, id |-> e.Payload.id, seq |-> 0,
     deleted |-> FALSE, permanent |-> FALSE]

\* The version a registration appends to its subject.
NewVersion(e) ==
    [version |-> e.Payload.version, id |-> e.Payload.id, seq |-> e.Sequence,
     deleted |-> FALSE, permanent |-> FALSE]

\* markDeleted on one version, if the payload names it.
MarkDeleted(i, p) ==
    IF i.version \in p.versions /\ ~i.permanent
    THEN [version |-> i.version, id |-> i.id, seq |-> i.seq,
          deleted |-> TRUE, permanent |-> p.permanent]
    ELSE i

\* A payload that does not fit the state is corrupt.
PayloadFits(st, e) ==
    /\ e.Kind = "schema_registered" =>
          st.Schemas[e.Payload.id] \in {None, e.Payload.identity}
    /\ e.Kind \in Deletions =>
          \A v \in e.Payload.versions : \E i \in st.Subjects[e.Payload.subject] :
              i.version = v /\ ~i.permanent

(* applyPayload, one operator per field of the snapshot.                    *)
SchemasAfter(st, e) ==
    IF e.Kind = "schema_registered"
    THEN [st.Schemas EXCEPT ![e.Payload.id] = e.Payload.identity]
    ELSE st.Schemas

IdentityToIDAfter(st, e) ==
    IF e.Kind = "schema_registered"
    THEN [st.IdentityToID EXCEPT ![e.Payload.identity] = e.Payload.id]
    ELSE st.IdentityToID

\* Mutant of NextSchemaIDAfter: an ID above the counter does not move it.
NextSchemaIDAfterAllocation(st, e) ==
    IF e.Kind = "schema_registered" /\ e.Payload.id = st.NextSchemaID
    THEN Increment(e.Payload.id)
    ELSE st.NextSchemaID

NextSchemaIDAfter(st, e) ==
    IF e.Kind = "schema_registered" /\ e.Payload.id >= st.NextSchemaID
    THEN Increment(e.Payload.id)
    ELSE st.NextSchemaID

\* Mutant of SubjectsAfter: permanent deletion removes the version.
SubjectsPurged(st, e) ==
    IF e.Kind = "schema_registered"
    THEN [st.Subjects EXCEPT ![e.Payload.subject] = @ \cup {NewVersion(e)}]
    ELSE IF e.Kind \in Deletions
    THEN [st.Subjects EXCEPT ![e.Payload.subject] =
            {i \in {MarkDeleted(i, e.Payload) : i \in @} : ~i.permanent}]
    ELSE st.Subjects

SubjectsAfter(st, e) ==
    IF e.Kind = "schema_registered"
    THEN [st.Subjects EXCEPT ![e.Payload.subject] = @ \cup {NewVersion(e)}]
    ELSE IF e.Kind \in Deletions
    THEN [st.Subjects EXCEPT ![e.Payload.subject] = {MarkDeleted(i, e.Payload) : i \in @}]
    ELSE st.Subjects

\* A configuration or mode of the given kind is written at global scope.
SetsGlobal(e, kind) == e.Kind = kind /\ e.Payload.scope = Global

\* It is written, or with None removed, at subject scope.
SetsSubject(e, kinds) == e.Kind \in kinds /\ e.Payload.scope # Global

GlobalCompatibilityAfter(st, e) ==
    IF SetsGlobal(e, "compatibility_set") THEN e.Payload.value ELSE st.GlobalCompatibility

SubjectCompatibilityAfter(st, e) ==
    IF SetsSubject(e, {"compatibility_set", "compatibility_deleted"})
    THEN [st.SubjectCompatibility EXCEPT ![e.Payload.scope] = e.Payload.value]
    ELSE st.SubjectCompatibility

\* Mutant of GlobalModeAfter: the scope is not looked at.
GlobalModeOfAnyScope(st, e) ==
    IF e.Kind \in {"mode_set", "mode_deleted"} THEN e.Payload.value ELSE st.GlobalMode

GlobalModeAfter(st, e) ==
    IF SetsGlobal(e, "mode_set") THEN e.Payload.value ELSE st.GlobalMode

SubjectModesAfter(st, e) ==
    IF SetsSubject(e, {"mode_set", "mode_deleted"})
    THEN [st.SubjectModes EXCEPT ![e.Payload.scope] = e.Payload.value]
    ELSE st.SubjectModes

\* Mutant of OperationsAfter: the result is not kept.
OperationsForgotten(st, e) == st.Operations

OperationsAfter(st, e) ==
    IF e.OperationID = NoOperation THEN st.Operations
    ELSE [st.Operations EXCEPT ![e.OperationID] = e.Result]

\* State.Apply: the payload, the sequence and the recorded result.
Apply(st, e) ==
    [Sequence |-> e.Sequence,
     NextSchemaID |-> NextSchemaIDAfter(st, e),
     Schemas |-> SchemasAfter(st, e),
     IdentityToID |-> IdentityToIDAfter(st, e),
     Subjects |-> SubjectsAfter(st, e),
     GlobalCompatibility |-> GlobalCompatibilityAfter(st, e),
     SubjectCompatibility |-> SubjectCompatibilityAfter(st, e),
     GlobalMode |-> GlobalModeAfter(st, e),
     SubjectModes |-> SubjectModesAfter(st, e),
     Operations |-> OperationsAfter(st, e)]

\* Mutant of Valid: version numbers are not looked at.
ValidAnyVersion(st) ==
    /\ st.NextSchemaID \in 1 .. MaxInt
    /\ \A x \in Identity : st.IdentityToID[x] # None => st.Schemas[st.IdentityToID[x]] = x

\* State.validate, run on every state before it is published or restored.
Valid(st) ==
    /\ st.NextSchemaID \in 1 .. MaxInt
    /\ \A x \in Identity : st.IdentityToID[x] # None => st.Schemas[st.IdentityToID[x]] = x
    /\ \A s \in Subject : \A i \in st.Subjects[s] :
          /\ i.version \in 1 .. MaxInt
          /\ st.Schemas[i.id] # None
          /\ \A j \in st.Subjects[s] : j.version = i.version => j = i

\* Apply returns a state and not an error.
Applies(st, e) ==
    /\ e.Sequence = st.Sequence + 1
    /\ PayloadFits(st, e)
    /\ Valid(Apply(st, e))

-----------------------------------------------------------------------------
\* The transitions some command plans in st.
Plans(st) ==
    UNION {{RegisterEnvelope(st, c) : c \in {d \in RegisterCommand : RegisterAllowed(st, d)}},
           {DeleteVersionEnvelope(st, c) : c \in {d \in DeleteVersionCommand : DeleteVersionAllowed(st, d)}},
           {DeleteSubjectEnvelope(st, c) : c \in {d \in DeleteSubjectCommand : DeleteSubjectAllowed(st, d)}},
           {SetCompatibilityEnvelope(st, c) : c \in {d \in SetCompatibilityCommand : SimpleAllowed(st, d)}},
           {DeleteCompatibilityEnvelope(st, c) : c \in {d \in InheritCommand : SimpleAllowed(st, d)}},
           {SetModeEnvelope(st, c) : c \in {d \in SetModeCommand : SimpleAllowed(st, d)}},
           {DeleteModeEnvelope(st, c) : c \in {d \in InheritCommand : SimpleAllowed(st, d)}}}

-----------------------------------------------------------------------------
(* What a well-formed registry state satisfies.                            *)

\* An ID names one schema and a schema has one ID.
IDsMatch(st) ==
    /\ \A x \in Identity : st.IdentityToID[x] # None => st.Schemas[st.IdentityToID[x]] = x
    /\ \A id \in Int64 : st.Schemas[id] # None => st.IdentityToID[st.Schemas[id]] = id

\* Every ID in use is below the allocation counter.
CounterIsFresh(st) ==
    \A id \in Int64 : st.Schemas[id] # None => id < st.NextSchemaID

\* A schema is active at most once in a subject.
OneActive(st) ==
    \A s \in Subject : \A i, j \in st.Subjects[s] :
        IsActive(i) /\ IsActive(j) /\ i.id = j.id => i = j

\* What an active schema references is at worst soft-deleted.
ReferencesKept(st) ==
    \A s \in Subject : \A i \in st.Subjects[s] : IsActive(i) =>
        \A r \in Refs[st.Schemas[i.id]] : \E j \in st.Subjects[r.subject] :
            j.version = r.version /\ ~j.permanent

\* A permanently deleted version was soft-deleted first.
DeletedFirst(st) ==
    \A s \in Subject : \A i \in st.Subjects[s] : i.permanent => i.deleted

\* Each version was registered by a transition of its own, already applied.
Sequenced(st) ==
    /\ \A s \in Subject : \A i \in st.Subjects[s] : i.seq <= st.Sequence
    /\ \A s, t \in Subject : \A i \in st.Subjects[s], j \in st.Subjects[t] :
          i.seq = j.seq => s = t /\ i.version = j.version

WellFormed(st) ==
    /\ st \in Snapshot
    /\ Valid(st)
    /\ IDsMatch(st)
    /\ CounterIsFresh(st)
    /\ OneActive(st)
    /\ ReferencesKept(st)
    /\ DeletedFirst(st)
    /\ Sequenced(st)

\* Backups are exports of registries, which are well formed.
ASSUME BackupsAssumption == \A b \in Backups : WellFormed(b)
ASSUME BoundAssumption == MaxSequence \in Nat

=============================================================================
