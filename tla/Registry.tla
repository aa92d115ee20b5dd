------------------------------- MODULE Registry -------------------------------
(***************************************************************************)
(* The registry a client sees: domain.Machine over a committer that never  *)
(* fails.  Machine holds its mutex from the retry check to the publication *)
(* of the new state, so a command is one atomic step.  This is also the    *)
(* abstract specification that the registries over a durable store refine: *)
(* there, state is what the store would give back after a restart.         *)
(***************************************************************************)
EXTENDS RegistryState

VARIABLE state      \* Machine.state

\* commitApply: validate the next state, commit, publish.
CommitApply(e) ==
    /\ state.Sequence < MaxSequence
    /\ Applies(state, e)
    /\ state' = Apply(state, e)

Register(c) ==
    /\ RegisterAllowed(state, c)
    /\ CommitApply(RegisterEnvelope(state, c))

DeleteVersion(c) ==
    /\ DeleteVersionAllowed(state, c)
    /\ CommitApply(DeleteVersionEnvelope(state, c))

DeleteSubject(c) ==
    /\ DeleteSubjectAllowed(state, c)
    /\ CommitApply(DeleteSubjectEnvelope(state, c))

SetCompatibility(c) ==
    /\ SimpleAllowed(state, c)
    /\ CommitApply(SetCompatibilityEnvelope(state, c))

DeleteCompatibility(c) ==
    /\ SimpleAllowed(state, c)
    /\ CommitApply(DeleteCompatibilityEnvelope(state, c))

SetMode(c) ==
    /\ SimpleAllowed(state, c)
    /\ CommitApply(SetModeEnvelope(state, c))

DeleteMode(c) ==
    /\ SimpleAllowed(state, c)
    /\ CommitApply(DeleteModeEnvelope(state, c))

\* Mutant of RestoreBackup: the registry need not be empty.
RestoreBackupOver(b) == Valid(b) /\ state' = b

\* An empty registry is initialised from a validated logical backup.
RestoreBackup(b) ==
    /\ state = NewState
    /\ Valid(b)
    /\ state' = b

Init == state = NewState

Next ==
    \/ \E c \in RegisterCommand : Register(c)
    \/ \E c \in DeleteVersionCommand : DeleteVersion(c)
    \/ \E c \in DeleteSubjectCommand : DeleteSubject(c)
    \/ \E c \in SetCompatibilityCommand : SetCompatibility(c)
    \/ \E c \in InheritCommand : DeleteCompatibility(c)
    \/ \E c \in SetModeCommand : SetMode(c)
    \/ \E c \in InheritCommand : DeleteMode(c)
    \/ \E b \in Backups : RestoreBackup(b)

Spec == Init /\ [][Next]_state

-----------------------------------------------------------------------------
(* Properties.                                                             *)

\* The state Machine publishes is a snapshot: what Apply computes stays within
\* the ranges of the Go types, whatever transition it is given.
TypeOK == state \in Snapshot

\* An ID names one schema, a schema has one ID, and the ID planRegister would
\* allocate next is above every ID in use: imports of explicit IDs, the largest
\* and negative ones included, never make the counter hand out an ID twice.
IDsAreUnique == IDsMatch(state) /\ CounterIsFresh(state)

\* A schema is active at most once in a subject: deletion and registration of
\* the same schema in any order never leave two live versions of it.
OneActiveVersionPerSchema == OneActive(state)

\* Every version an active schema references still exists, at worst soft-
\* deleted: planRegister refuses deleted references, permanent deletion
\* refuses referenced versions, and no order of the two slips between them.
ReferencesSurvive == ReferencesKept(state)

\* LatestForID iterates over a Go map; its answer does not depend on the
\* order because no two versions of the registry share a sequence.
LatestForIDIsUnique ==
    \A id \in Int64, scope \in Scope : \A p, q \in LatestForID(state, id, scope) : p = q

\* A version number is never reused and never comes back: once committed, a
\* version keeps its schema for ever and only moves towards deletion.
VersionsAreForEver ==
    [][\A s \in Subject : \A i \in state.Subjects[s] : \E j \in state'.Subjects[s] :
          /\ j.version = i.version /\ j.id = i.id /\ j.seq = i.seq
          /\ i.deleted => j.deleted
          /\ i.permanent => j.permanent]_state

\* What a schema ID decodes to never changes, deletions included: consumers
\* cache schemas by ID.
SchemasAreImmutable ==
    [][\A id \in Int64 : state.Schemas[id] # None =>
          state'.Schemas[id] = state.Schemas[id]]_state

\* Outside IMPORT a new version is above every version the subject ever had,
\* permanently deleted ones included.
VersionsIncrease ==
    [][\A s \in Subject : EffectiveMode(state, s) # "IMPORT" =>
          \A j \in state'.Subjects[s] : \A i \in state.Subjects[s] :
              j.seq > state.Sequence => j.version > i.version]_state

\* The result recorded for an operation is final.
ResultsAreFinal ==
    [][\A o \in OperationID : state.Operations[o] # None =>
          state'.Operations[o] = state.Operations[o]]_state

=============================================================================
