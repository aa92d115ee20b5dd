# A verification project for Riquet

Riquet is a schema registry with the HTTP API of the Confluent Schema Registry.
It runs as one process over an embedded bbolt file ("PVC") or as several
replicas over one compacted Kafka topic ("Kafka HA"). These TLA+ modules model
the registry, its HTTP handlers, the comparison of schemas, the two ways the
registry is stored, the forwarding of mutations between replicas, and the tool
that migrates a Confluent registry into it. TLC checks small instances, and
TLAPS proves every safety property of these parts for every value of the
constants.

Paths below are relative to the repository (`src/`).

## 1. Inventory

| Component | State it keeps | Operations that change it |
|---|---|---|
| Domain state (`internal/domain/state.go`, `types.go`, `transition.go`) | `Snapshot`: sequence, next schema ID, schemas by ID, IDs by identity, versions of each subject, levels, modes, results of operations | `Apply` of a transition envelope, `validate` |
| Domain machine (`machine.go`) | the published state, behind one mutex | seven commands: `Register`, `DeleteVersion`, `DeleteSubject`, set and delete of compatibility and of mode; `ApplyCommitted` |
| Storage contract (`internal/storage/store.go`) | none; `Store`, `Coordinator`, `Lease` | |
| bbolt store (`internal/storage/bolt/store.go`) | transitions by sequence, last sequence, one snapshot, `lastErr` | `Open`, `Commit`, `Replay`, `SaveSnapshot`, `RestoreSnapshot`, `Close` |
| Kafka store (`internal/storage/kafka/store.go`, `layout.go`) | consumer position, transitions read, snapshot, restore base, last announcement, own lease, producer | consume loop, `Commit`, `Follow`, `SaveSnapshot`, `RestoreSnapshot` |
| Kafka coordinator (`coordinator.go`) | assignment of the partition, lease held | group callbacks, `Acquire`, `Renew`, `Release`, activation, deactivation |
| Application (`internal/app/app.go`) | the goroutines of a process | recovery, serving, `coordinate`, `Follow`, shutdown |
| Mutation forwarding (`internal/ha/forwarder.go`) | attempts made, the lease named in the forwarded call, calls that still run | `servePublic`, `forward`, `receive` |
| HTTP API (`internal/transport/confluent/server.go`) | the progress of each request: what its handler looked up before and after its command | one handler per endpoint |
| Format engines (`internal/formats/*`) | a parse cache per request | parse, resolve references, compare |
| Logical backup (`internal/backup/logical.go`, `cmd/riquet-backup`, `cmd/riquet-restore`) | a checksummed snapshot file | capture, restore |
| Confluent migration (`internal/migration/confluent.go`, `cmd/riquet-export`) | the inventory, a machine in IMPORT mode | requests to the source, `buildState` |
| Configuration, security, observability, contract and test harness, command line | none that later steps depend on | |

How they interact. A handler builds a command with the client's operation ID
and calls the machine. The machine holds its mutex while it looks the operation
up, plans an envelope in its current state, validates the state that would
result, asks the store to commit the envelope durably, and only then publishes
the state and answers. Over bbolt a commit is one local transaction. Over Kafka
it is a Kafka transaction; the store waits until its own read-committed
consumer has seen the record, and other replicas apply it through `Follow`. The
coordinator decides who writes: the replica to which a consumer group assigns
the only partition announces itself with a new epoch through a producer with a
shared transactional ID, which fences the previous one. On start-up a process
loads a snapshot, replays the transitions after it and serves. A mutation that
reaches a replica without the announced lease is forwarded to the primary
announced last, with that lease in the call; the receiver compares it with its
own, runs the same handler, and the answer is relayed.

What is hard. Errors of the durable commit are ambiguous in both stores: the
write may have happened. A process can die between commit and publication.
Shutdown captures a state while late requests may still commit. Two replicas
may both believe that they own the partition; announcements, fencing, the
consumer and deactivation are asynchronous to each other. A forwarded call
outlives the forwarder that gave it up and may be executed beside its own
retry. Handlers take several snapshots around one command. Kafka compaction
drops records at any time. Deletion and references interact across subjects.
Imported IDs reach the limits of int64. The export reads a registry by many
requests and replays it under rules written for clients.

What makes each part correct:

- registry: an ID decodes to one schema for ever; IDs and version numbers are
  never reused; an active schema occurs once in a subject; what an active
  schema references is not destroyed; the result of an operation is final;
- bbolt deployment: what a client was told survives everything; readers see
  durable states only; recovery always succeeds and finds everything; an
  operation takes effect once; a stuck store says so; a repeated request is
  answered in the end;
- Kafka deployment: replicas agree on one list of operations; an operation
  enters it once and answers name its place; only the announced primary writes;
  replicas catch up; a topic can be opened at any time;
- HTTP API: an answer is about one moment, a success names the schema that was
  sent, a repeated mutation succeeds;
- forwarding: a mutation takes effect once and its client learns what became of
  it, wherever it was sent and whoever was primary;
- compatibility: what a level promises about readers and writers holds along the
  whole history of a subject;
- migration: the export is the source, or it fails for a reason in the source.

The hazards behind these properties are listed in `PROJECT.json`, each at its
line.

## 2. Modules

| Module | Models | Built on |
|---|---|---|
| `RegistryState` | pure operators: queries, planning and application of every command | |
| `Registry` | the abstract registry: one atomic step per command, restore of a backup | `RegistryState` |
| `PvcRegistry` | one process over bbolt with failures; refines `Registry` | `RegistryState` |
| `Ledger` | what a replicated registry promises: an ordered list of operations | |
| `KafkaCluster` | replicas, coordinators, transactions, consumers; refines `Ledger` | |
| `KafkaTopic` | the topic as a database: snapshots, restore checkpoint, compaction | |
| `Api` | the HTTP handlers, several connections over one machine | `RegistryState`, `Registry` |
| `Forwarding` | forwarders, handlers and leadership of several replicas | |
| `JsonSchema`, `Protobuf` | the comparison of two schemas in those engines | |
| `SubjectVersions` | the versions of a subject, their comparison under a level and what it promises | `JsonSchema`, `Protobuf` |
| `Evolution` | the history of a subject under a level | `SubjectVersions` |
| `Migration` | the export tool against a source that runs `Registry` | `RegistryState` |
| `MCRegistry`, `MCPvcRegistry`, `MCKafkaCluster`, `MCApi`, `MCForwarding`, `MCEvolution`, `MCMigration` | values of constants for TLC | |
| `RegistryStateProofs`, `RegistryProofs`, `PvcProofs`, `KafkaClusterProofs`, `KafkaTopicProofs`, `ApiProofs`, `ForwardingProofs`, `MigrationProofs` | theorems, one module for each part | |

### RegistryState and Registry

A state is a record with the fields of `Snapshot`. Maps are functions with
`None` for a missing key. A schema is its identity, the hash the engines compute
from canonical text, type and references; so `Refs`, the references of a
schema, is a constant function of the identity, and text, GUIDs and timestamps
are left out. `Reads` is the verdict of the format engine on a pair of schemas,
a constant here: the direction, the scope (`ComparedItems`) and the resolution
of references (`Parses`) are modelled, the verdict itself in `JsonSchema` and
`Protobuf`.
IDs and versions are integers of a finite width with wrap-around (`Increment`).

Each command has an `...Allowed` operator, the conditions and early returns of
its method, and an `...Envelope` operator, the transition it plans. `Apply` and
`Valid` are `State.Apply` and `State.validate`, field by field, and `Applies`
says that a transition passes both. `Plans(st)` is every envelope some command
can plan in `st`. In `Registry` a command is one step. A retry of a recorded
operation and a duplicate registration answer without a step.

### PvcRegistry

State: the three parts of the file (`disk`), the process, the history of durable
states and the answers given to clients (the last two are auxiliary). A command
takes the mutex in `Begin`, after planning. Its transaction is `AppendTransition`
(written, or written with an error reported), `CommitAgain` (the very envelope is
already there), `Conflict` (another one is) or `CommitFails` (nothing written;
`reported` tells an I/O error, which sets `lastErr`, from a cancelled request).
`Publish` publishes and answers. `Stop`, `Capture` and `SaveSnapshot` are the
shutdown of `app.Run`, during which handlers of open connections still run.
`Exit` ends the process at any point, in a crash or regularly. `Open`, `Replay`
(one transition per step) and `Serve` are start-up. `RestoreSnapshot` is
`riquet-restore` on an empty file. A bbolt transaction is atomic: bbolt itself
is external.

### KafkaCluster and Ledger

The broker is external: one log whose records carry the fate of their transaction,
one owner of the transactional ID, and a flag for the owner's transaction having
timed out. Each replica has its consumer (`Consume`, refusing what
`applyRecordLocked` refuses), its follower (`Follow`), one job under `commitMu`
(`job`: a commit or an activation, step by step), its machine and its coordinator.
The consumer group is reduced to callbacks that may arrive in any order, for both
replicas at once too. Failed calls happen with or without effect on the broker;
the one that is left out is a failing initialisation of the producer, after which
the job ends as it does when nothing was produced. A machine's state is the list
of records it applied; `Registry` gives the meaning of such a list. An operation
in `Stamped` stands for a registration, whose envelope contains the time it was
planned at, so that a retry has different bytes; one outside stands for settings
and deletions.

`Ledger` is the abstract specification. The refinement mapping takes, for each
sequence, the first committed transition of the log (`Chosen`).

### KafkaTopic

One process at a time over a topic whose transactions succeed. Keys follow
`layout.go`: one per transition, one for the snapshot, one for the restore
checkpoint. `Compact` drops any record that has a later one under its key.
`Open`, `Consume` and `Recover` are start-up, with the checks of
`applyRecordLocked`, `validateReplay`, `LoadSnapshot` and `Replay`. The registry
state is known by its sequence.

### Api

A connection carries one request at a time (`job`); a request may be sent any
number of times, with the same operation ID, on any connection. A handler is a
chain of stages, one step per snapshot of the machine it takes: `ParseRequest`
resolves references, `ResolveVersion` the version "latest", `LookFirst` what a
handler looks at before its command, `Read` what it answers from. In between
comes the command, one step under the machine's lock (`Register` to
`DeleteSubjectMode`), or its other outcomes: the recorded result, a duplicate, a
refusal, a failed commit. Answers are a status code with what the client reads
in the body. `Foreign` are the pairs of schemas of different formats: the
candidate's engine does not parse the older one, and the request is answered
with 50001. `possible[c]` is auxiliary: the answers the handler could have given
had it run at one of the moments since the request arrived.

### Forwarding

Each replica has a machine that follows the list of decided operations (the
`Ledger` that `KafkaCluster` implements), the store's view of the primary
(`known`, `lease`), its transactional producer and its coordinator (`assigned`,
`acquired`, `held`). A lease is known by its epoch. The consumer group names one
member (`group`) and tells replicas later, one by one (`Assign`, `Revoke`), so an
activation may be under way when the partition has moved on. Catching up and
announcing are one step here; the overlap of two activations, with equal epochs,
is in `KafkaCluster`. A producer that another replica's has fenced stays so until
its process ends, and `MayAnnounce` refuses it. `ActivateFails` is an activation
that returns an error, with its epoch announced or not.

A client's request is in one place (`request`), while handlers called for it run
in slots of their own (`call`): `TimeOut` leaves the handler running, and a retry
starts another. Of the registry one setting is kept, the mode of a subject. A
client puts it, deletes it, or registers a schema with an explicit ID, which needs
it (the mode that is put is IMPORT). Other clients put and delete it too
(`CommitOther`), before the replicas start (`Earlier`) and while they run. `Look`
is the snapshot `deleteSubjectMode` and `deleteSubjectConfig` take before their
command; it answers 404 whenever the setting is absent in the machine's state,
whoever removed it. `Refuse` is the refusal of `planRegister`, which needs no
primary.

`CommitFails` is a commit that returns an error, with or without effect. A
replica whose commit was executed and not consumed is `unseen`; its next commit
writes the same sequence. If the bytes are the same, which they are for a repeated
setting, this is what `Follow` and `AnswerRecorded` do together. Otherwise the
topic is `torn` (finding 1 in section 4): consumers do not get past the second
record, so no commit succeeds, nobody activates and no process starts.

### JsonSchema, Protobuf, SubjectVersions and Evolution

`CompareDocuments` and `CompareFiles` are the comparisons of the two engines that
are written in this repository, over parsed documents and file descriptors. A JSON
Schema of any depth is a function from the paths of its schemas to what they say,
so that the recursive calls of `compareDocuments`, one for each property the two
have in common, are a quantifier over the paths the two share (`CompareSchemas` is
one call). A schema has its type, required properties, schema for additional
properties, the names its `patternProperties` match, a `$ref` and `rest`, the
conditions of all other keywords. The engine reads the first three. The last three
decide with them what a value must be: a matched name is not an additional one,
and beside a `$ref` the validator of Draft 7, which the engine sets
(`engine.go:45`), looks at nothing else. Each condition of `rest` stands for a
keyword with all that its meaning depends on. A Protobuf file maps its top-level
messages to their fields by number; a field has one of eighteen kinds or is a map,
and may be a packed list. What they are checked against is external: which values
a JSON Schema accepts (`Validates`), how Protobuf encodes a field (`Encoding`,
`ReadsField`). `SubjectVersions` has the versions of one subject, the comparison
in the directions of its level (`Compatible`) and the promises of the level;
`Evolution` registers and soft-deletes versions, comparing with those
`compatibilitySchemas` selects.

### Migration

The source is a `Registry` (external) that clients change before the export and,
unless it was frozen, during it. `Start` to `ListVersionsAgain` are the
requests of `inventory`, one per step but for the first three, which ask for
the global settings and the list of subjects and are one step (`Start`). A request
that fails ends the export and is left out; `StartBuild` to `Configure` are
`buildState`, one schema per step. `ReadVersion` chooses whether the source
reports the deleted flag, since the tool accepts both. The sorted slices of the
code are sets from which the first element is taken: `Rank` is the order of
`sort.Strings` on subjects, and `FirstItem` that of the inventory, by subject and
version. The responses that only reach `unsupported` (contexts, aliases, rule
sets) are left out.

## 3. Runs

Every run takes less than 4 minutes with two workers. `CHECK_DEADLOCK FALSE` is
set throughout: a bounded registry at its bound, a stopped process and a
finished export really stop.

| Run | Bounds | Shows |
|---|---|---|
| `registry_references` | 2 subjects, 3 schemas, two of which reference others, 7 transitions, 2 levels | `OneActiveVersionPerSchema`, `ReferencesSurvive`, `VersionsAreForEver`, `VersionsIncrease` |
| `registry_import` | integers of -3..2, explicit IDs 0, 1, -1 and the largest, explicit versions, three modes, an operation, a backup, 5 transitions | `TypeOK`, `IDsAreUnique`, `LatestForIDIsUnique`, `SchemasAreImmutable`, `ResultsAreFinal` |
| `pvc_crash_recovery` | 1 subject, 1 schema, 1 operation and anonymous ones, 3 transitions, a backup; unlimited crashes and failures | `TypeOK`, `AckedIsDurable`, `PublishedIsDurable`, `RecoveryCompletes`, `ExecutedOnce`, `StallIsReported`, `ImplementsRegistry`, `RetriesAreAnswered` |
| `kafka_ledger` | 2 replicas, 2 operations, 1 fault | `TypeOK`, `MachinesAgree`, `WrittenByPrimary`, `ImplementsLedger` |
| `kafka_liveness` | 2 replicas, 1 operation, 1 fault | `FollowersConverge` |
| `kafka_topic` | 5 transitions, 8 records written, a backup of sequence 0 or 2 or none; unlimited restarts and compaction | `ServesEverything`, `NothingIsLost`, `TopicOpensUnlessBackupIsGone` |
| `migration_export` | 2 subjects, 2 schemas, one referencing version 2 of a subject, IDs and versions that are not positive, next or explicit, 4 commands before or during the export | `IdentifiersAreKept`, `OnlyRepeatsAreMissed`, `FailureHasACause`, `ExportTerminates` |
| `api_requests` | 2 connections, 23 requests of nearly every endpoint, 11 of them mutations, 2 subjects, two formats, 5 transitions, a registry that holds a reference | `DirectReadsAreAtomic`, `RegistrationsNameTheirSchema`, `DeletionsHold`, `CommandsOnly`, `RetriesFailOnlyForWhatIsGone` |
| `forwarding` | 2 replicas, a deletion or an import, a mode that was put earlier and that another client may delete, 1 attempt, 2 calls at a time, 2 faults | `TypeOK`, `ExecutedOnce`, `AnswersAreDecided`, `RequestsAreAnswered` |
| `evolution` | 3 versions, 4 levels, documents of depth 2 with one or no property, additional ones allowed, forbidden or described, with a pattern or a `$ref`, 10 Protobuf fields or none, values of depth 2 | `ReadersKeepUp`, `NumbersKeepTheirEncoding` |
| `kafka_conflicting_transitions` | 2 replicas, 2 operations, 1 fault | `OneTransitionPerSequence` is violated |
| `forwarding_superseded_primary` | 2 replicas, 1 operation, 1 rebalance | `LeadersReturn` is violated |

Why the bounds are enough for the cases that matter. Seven transitions allow a
schema, a reference to it, both kinds of deletion of each and a new
registration. The integers are so narrow that the ID counter wraps within two
registrations. Three transitions and one operation let an operation fail
ambiguously, be overtaken by another command, be recovered and be repeated. Two
replicas suffice for every overlap of two terms, and with one fault a term can
end in each way the code knows: revocation, restart, a failed call, a timeout.
`MaxFaults` also limits lost assignments, so runs with several independent
faults are not explored. Symmetry is used for replicas in the Kafka runs that
check safety only: no constant tells one replica from another. Two connections
are enough for every pair of a handler and what runs between its snapshots; a
third step in between is a command that the second connection sends after
another. Four commands and explicit versions put a schema twice in a subject,
with the smaller version registered last, and leave a reference without its
version. With two faults a forwarded call can time out after it was executed,
and the retry can meet another primary or a restarted one; the partition can go
away and come back; a commit can fail and be followed by one that conflicts. One
attempt instead of the two a forwarder makes by default (`forwarder.go`) is enough,
since the client sends again and may choose the same replica. The group begins with
a fixed member: the replicas are alike. Three versions are
the least number with a pair that was never compared.

Fairness. In `PvcRegistry` a process that is down is started again, recovery and
a commit that has begun go on (weak fairness), and the client that waits for an
operation repeats it for as long as it takes (strong fairness of
`AnswerRetry`). Crashes are not assumed to stop by fairness: the property itself
is about behaviours in which they do. In `KafkaCluster` the goroutines of a
process keep running, waits end with their contexts, and the broker answers
(weak fairness of `Consume`, `Open`, `Follow`, `Working`, `WaitExpires`);
nothing is assumed of clients, of the group or of faults. In `Forwarding` clients
repeat a request until it is answered with something other than 500, forwarders,
handlers and the goroutines of a replica go on, and the group tells its members
what it decided (weak fairness of each); faults are bounded and never fair. In
`Migration` the tool runs to its end, and clients need not act.

Every property of a passing run has a mutant of the modelled code, listed in
`PROJECT.json`, under which TLC finds it violated.

## 4. Where the code and its documents disagree

1. **Two transitions for one sequence** (`kafka_conflicting_transitions`;
   `store.go:189`). A commit that fails ambiguously can still take effect: an
   open transaction is committed together with the next one of the same
   producer, or the record is committed and not yet consumed. The retry of a
   registration has another timestamp, so another envelope is committed under
   the same sequence. Every consumer refuses it and stops, and no replica can
   open the topic again. The design says that operation identifiers make
   ambiguous retries safe. An ambiguous failure is also necessary:
   `ConflictsNeedAFault` proves that replicas which are all told that they own the
   partition do not conflict by that alone.
2. **A primary that is never replaced** (`forwarding_superseded_primary`;
   `coordinator.go:94`). A replica that has read its assignment and is slow to
   activate announces itself after the partition was given to another member
   and that member has announced. It then learns that it lost the partition and
   gives its lease up, but its announcement stays the last one. The member that
   has the partition keeps a superseded lease: `Renew` fails, and `Acquire`
   returns the same lease because it compares holder and assignment, not the
   announced epoch. Every mutation is answered with 500 until a restart or
   another rebalance. The specification of high availability promises a
   replacement primary.

Once faults have stopped, `RequestsAreAnswered` promises an answer other than 500
with two exceptions:

- the member of the group has a producer that was fenced (`FencedMember`): in
  finding 2, where the late announcement fences it, and also when the partition
  goes from one replica to another and back. `ProducerID` then returns the same
  error for as long as the process lives (`store.go:253`), so the replica never
  announces itself again;
- the topic holds two transitions of one sequence (`torn`, finding 1).

What is answered is true of the decided operations (`AnswersAreDecided`), though a
404 or a refusal may come from an older part of them: a replica that is behind or
that was replaced looks and plans in the state it has, and asks the store only for
what it wants to commit.

Exceptions that the passing properties state, where a document says more:

- Two overlapping activations may announce the same epoch, or a smaller one than
  the last, which every consumer refuses: the epoch is chosen before the
  producer that fences others is initialised (`coordinator.go:258`). The
  specification of high availability says that "at most one can commit
  authoritative transitions for the same epoch"
  (`openspec/changes/standalone-confluent-registry-v1/specs/high-availability/spec.md:16`).
  `WrittenByPrimary` says which writers remain, and holds in spite of equal
  epochs; `FollowersConverge` excludes topics whose epochs regress.
- A restored topic cannot be opened again once compaction has dropped the
  snapshot its checkpoint names, which happens after the next shutdown snapshot,
  nor if the backup has sequence 0 (`store.go:760`):
  `TopicOpensUnlessBackupIsGone`.
- A schema that a subject holds under two versions is exported under one of them
  (`confluent.go:479`, `503`). If version 1 is deleted and version 2 active, which
  every client can bring about by registering a schema again, the export keeps
  version 1, deletes it, and reports success: the subject has lost its active
  version. In the other order the deletion of the missing one fails. Such
  subjects are not among the reasons for which the export fails by its guide
  (`docs/operations/migration.md:115`); the comparison of both endpoints that the
  guide asks for next finds them; levels and modes are exported
  for subjects that have a version only (`confluent.go:227`):
  `OnlyRepeatsAreMissed`, `FailureHasACause`. Proving these two showed that an
  earlier form, which named the version that is kept, was too strong: with explicit
  version numbers either may be imported first. Of the causes of a failure, the
  reference to a version that is gone takes more than the four commands TLC has and
  is reached in the proof; a source that does not answer is not among them.
- A repeated `DELETE` of a subject's level or mode is answered with 404 although
  its operation is recorded (`server.go:330`, `381`), and a repeated registration
  fails if what its handler looks up was deleted meanwhile. The incident guide
  says that the committed result makes retries idempotent:
  `RetriesFailOnlyForWhatIsGone`, `AnswersAreDecided`.
- `getSubjectConfig` with `defaultToGlobal`, and every path with "latest", put an
  answer together from two snapshots (`server.go:302`, `434`), so it may describe
  a state that never was. The design serves reads from immutable snapshots.
  `DirectReadsAreAtomic` is about all other reads.
- The answer to a duplicate registration is not recorded under its operation
  (`machine.go:103`), so that a repeated request may register the schema again
  after it was deleted. No property excludes it: those of retries are about
  recorded operations.
- `DELETE` of version "latest" removes the version that was the latest when its
  handler looked (`server.go:251`). `DeletionsHold` says that it is gone, not that
  it was still the latest.
- The comparison of JSON Schemas does not look at an absent type, at schemas for
  additional properties, at `patternProperties`, which let names in that
  `additionalProperties: false` otherwise forbids (`engine.go:188`), at `$ref`,
  which disables the keywords beside it (`engine.go:45`), and at most keywords;
  `Unread` in `JsonSchema` is what the fragment here has of it. Protobuf compares
  messages at the top level only, does not tell a packed list from a single
  number, a group from a message, bytes from a string or the types of two maps'
  values apart (`Overlooked`), and a field number may return with another encoding
  after a version without it: `ReadersKeepUp`, `NumbersKeepTheirEncoding`.

Observations outside the properties:

- The second listing of the export compares version numbers with deleted ones
  included (`confluent.go:317`), so a version that is soft-deleted after it was
  read passes unnoticed. The documentation asks for a frozen source, and the
  properties about completeness assume one.
- Readiness over Kafka is `Status`, whose lag is measured against the end of the
  topic as of the last fetch (`store.go:485`) and does not count what `Follow` has
  yet to apply (`store.go:543`); `Health`, which asks the broker, is called over
  bbolt only. None of this is modelled: `FollowersConverge` is about what is applied
  in the end.

## 5. Proofs

TLAPS proves the theorems below for every value of the constants: any subjects,
schemas, references, requests, connections, replicas and operations, any integer
width and any bounds. 36 of the 40 properties of the passing runs are proved: all
but the four liveness properties.

| Module | Specification | Theorems |
|---|---|---|
| `RegistryProofs` | `Registry` | `TypeOK`, `IDsAreUnique`, `OneActiveVersionPerSchema`, `ReferencesSurvive`, `LatestForIDIsUnique`, and of its steps `SchemasAreImmutable`, `ResultsAreFinal`, `VersionsAreForEver`, `VersionsIncrease` |
| `RegistryProofs` | `Evolution`, as `E` | `ReadersKeepUp`, `NumbersKeepTheirEncoding` |
| `PvcProofs` | `PvcRegistry` | `TypeOK`, `AckedIsDurable`, `PublishedIsDurable`, `RecoveryCompletes`, `ExecutedOnce`, `StallIsReported`, and the refinement of `Registry` (`ImplementsRegistry`) |
| `KafkaClusterProofs` | `KafkaCluster` | `TypeOK`, `MachinesAgree`, `WrittenByPrimary`, the refinement of `Ledger` (`ImplementsLedger`), and `ConflictsNeedAFault` |
| `KafkaTopicProofs` | `KafkaTopic` | `NothingIsLost`, `ServesEverything`, `TopicOpensUnlessBackupIsGone` |
| `ApiProofs` | `Api` | `DirectReadsAreAtomic`, `RegistrationsNameTheirSchema`, `DeletionsHold`, and of its steps `CommandsOnly`, `RetriesFailOnlyForWhatIsGone` |
| `ForwardingProofs` | `Forwarding` | `TypeOK`, `ExecutedOnce`, `AnswersAreDecided`, and the refinement of `Ledger` (`ForwardersImplementLedger`) |
| `MigrationProofs` | `Migration` | `IdentifiersAreKept`, `OnlyRepeatsAreMissed` (`FrozenExportMissesOnlyRepeats`), `FailureHasACause`, `ExportIsABackup`, and of its steps `PassesEnd` |

What is assumed of the constants, in the modules that declare them:

- `RegistryState`: references have positive versions, restored backups are well
  formed (`BackupsAssumption`), sentinels are not names, bounds are numbers;
- `Api`: a request has what its endpoint asks for, and its operation ID is its own,
  and schemas of different formats do not read each other (`RequestsAssumption`).
  `operationID` takes the ID from `X-Request-ID` or makes one up, and clients are
  trusted not to use one for two different requests, since the machine answers by
  the ID alone. In the state a process has recovered, a recorded result is true of
  its request (`RecoveredAssumption`, which is what `ApiProofs` shows of every later
  state);
- `Migration`: finitely many subjects in a total order (`ExportAssumption`), and
  backups whose schemas were registered after what they reference
  (`SourceAssumption`). `ExportIsABackup` shows that what the export writes is
  such a backup, so registries that began as an export may be exported again;
- `JsonSchema`, `SubjectVersions`: documents and values are trees, and fields have
  one of Protobuf's kinds (`NameAssumption`, `SchemasAssumption`);
- `KafkaCluster`, `KafkaTopic`, `Forwarding`: sentinels are not names, bounds are
  natural numbers, at least one attempt and one call, and the operations of other
  clients, of which any list came first, are not those of the clients observed
  (`SentinelAssumption`, `TopicAssumption`, `ForwardingAssumption`).

None of the properties is inductive as it stands. The inductive invariants:

**Registry: `WellFormed`** (end of `RegistryState`). That the counter is
fresh needs that it is valid and every ID is below it; that references survive a
permanent deletion needs that a version is soft-deleted before it is destroyed
(`DeletedFirst`) and that registration refuses deleted references; that
`LatestForID` has one answer needs that sequences of versions are distinct and
not above the state's (`Sequenced`). `RegistryStateProofs` shows for each
command that the state it leads to is well formed, and what such a step never
changes; `RegistryProofs` lifts that to `Spec`. `VersionsIncrease` needs that the
largest version is a valid one, so that its increment does not wrap unless
`validate` refuses it.

**Histories of a subject: `EInv`** (in `RegistryProofs`). A level that compares
with the latest version only says nothing of two versions directly, and the ones
in between may have been deleted. What survives is that every version was found
compatible with each earlier active one, or with a version in between that was
(the version itself under a transitive level). A promised pair is thus joined by a
chain of versions that were compared. Along it, what one reader accepts the next
does: at a path of properties that both documents have, the reader's schema
accepts what the writer's does, since its `$ref` is the same and nothing else in it
is unread (`SharedSchemaAccepts`), and where the reader's way down a value leaves
those paths, the reader accepts the value or the writer did not
(`LastSharedSchema`, `ClosedObject`). No induction over the
depth of documents is needed, since a document is a function of paths. For
Protobuf, `SameClassReads` shows that equal wire classes mean equal encodings but
for what `Overlooked` names.

**bbolt: `PvcInv`.** Its centre is
`LogIsHistory`: the states of the history are well formed and numbered by their
sequence, and each transition in the file was planned in the state before it and
leads to the next. The rest places the snapshot, the captured snapshot and the
machine in that history (`SnapshotOK`, `CapturedOK`, `MachineOK`), says what
the command that holds the mutex knows (`InflightOK`), that results stay
(`ResultsStay`, `AckedOK`) and who reported a failure (`StallOK`). The
refinement follows: an append is the command planned in the durable state, a
restore is `RestoreBackup`, and nothing else changes the durable state.

**Kafka replicas: `Inv` of `KafkaClusterProofs`.** Of the log: open records are
the last ones, so what is chosen stays chosen; every transition, committed or
not, has chosen ones of other operations in all places before its own
(`PredecessorsAreChosen`); and it was written under the announcement that was in
force (`WrittenInTerm`). Of each replica: its store holds what is chosen among
the records it has read, its machine a prefix of that (`ReadBy`); its job was
planned for the place after the machine's state (`JobIs`); its lease is known to
its coordinator (`LeaseIs`); and as long as the transactional ID is its own, the
last announcement is the one its lease came from (`TermIs`), which is what
fencing is for. `MachinesAgree` and `WrittenByPrimary` are instances. The
refinement maps the log to its chosen transitions: only the end of a transaction
adds one, in the next place and for an operation that has none, because the one
who planned it had applied every place before. It does not need that a sequence
is written once, which is not so (section 4).

`ConflictsNeedAFault` says when it is so: while `faults` is 0. Its invariant
(`Undisturbed`, beside `Inv`) is that the records of a replica are not followed by
another's while it owns the transactional ID (`TermsDoNotOverlap`), that it has
consumed the transitions it committed but for the one it waits for (`OwnAreRead`)
and an announcement of its own if it has a lease (`AnnouncementIsRead`). So an
owner that plans a command has consumed every committed transition: its own, and
those of others, which precede its announcement. Its sequence is then above all of
them (`OwnerIsAhead`) until the one open record (`OpenIsOwners`) is committed. A
failed call breaks `OwnAreRead` or `OpenIsOwners`, which is how the counterexample
begins.

**Kafka topic: `Inv` of `KafkaTopicProofs`.** `TopicInv` says what compaction
leaves: the last record, every transition since the restore, the checkpoint where
the restore wrote it with some snapshot beside it. `ReaderInv` says what a
process that has read a prefix knows while compaction goes on before and after
its position, `ServingInv` that it is behind by one commit at most.

**Handlers: `Inv` of `ApiProofs`.** The state is well formed and recorded results
are true of their requests (`OutcomesRecorded`); each job is at a stage of its
endpoint; a registration about to read its version back finds its schema there,
or its tombstone; an answer that was given is still true (`MutationInv`); and a
direct read could be answered at once with one of its possible answers
(`DirectInv`). All of this survives the commands of other connections because a
later state keeps schemas, versions and deletions and destroys nothing that was
referenced (`Evolves`, `PlanEvolves`).

**Forwarding: `Inv` of `ForwardingProofs`.** The three properties and two more: an
import stands in a place of the list before which the mode was there
(`ImportsAreAllowed`), and a reply which a handler has given and nobody has read yet
is already true of its operation (`RepliesAreDecided`). Without the first nothing is
known of the result of a recorded import, without the second of the answer a
forwarder relays. A true reply stays true because the list only grows and a reply
names the part of it that it was given after (`TruthStays`). That an operation is
decided once comes from `MayCommit`: whoever appends has applied the whole list and
did not find the operation in it (`DecideKeeps`), so neither leases nor their
comparison in `receive` are needed for it. The refinement of `Ledger` maps the list,
without what came before the replicas started (`EarlierStay`), to places with their
operations, and successes to the places in them. It also needs that a client with an
answer has no request under way (`AnsweredAreIdle`), so that an answer is never
replaced, and that the ledger's next place, one more than its number of entries, is
the list's (`OperationsAreCounted`).

**Migration: `ExportInv`.** The source is well formed and its references come
first; what was read is still held by it (`AllHeld`); the target holds nothing
else (`TargetOK`). For a frozen source the inventory is what the phase says
(`FrozenReading`), everything that is not left in the pass has its schema in the
target (`FrozenImport`), and a pass without progress has found no postponed
schema available. So if a pass gives up, take the schema left that was
registered first in the source: what it references was registered earlier and is
not left; hence it is in the target, unless it is gone in the source or its
subject holds its schema twice, which are the causes `FailureHasACause` names.
The passes over sorted slices need no induction: each element taken from the set
that is left keeps the invariant.

`PassesEnd` is what the termination of `buildState` rests on. Its loops run over
sets that stay finite and always have a next element (`LoopsGoOn`), and every step
of them descends (`LoopsDescend`): it imports a schema, so that fewer are missing;
or it ends a pass that imported one; or it takes one of the schemas of the pass.
A pass without progress ends the export, so none of the three goes on for ever,
also when references form cycles. That the descent reaches its end is the
induction that is left to TLC (`ExportTerminates`).

Only model-checked:

- liveness under fairness, which is out of the prover's reach:
  `RetriesAreAnswered`, `FollowersConverge`, `ExportTerminates`,
  `RequestsAreAnswered`;
- the violated properties of section 4, for which TLC has the counterexample.

## 6. Not modelled

- The consumer-group protocol: its callbacks are arbitrary in `KafkaCluster` and
  follow a single assignment in `Forwarding`. `Release` is
  followed by the end of the process and is covered by `Restart`.
- Loss of a write that bbolt reported as synced, and power loss after a failed
  sync: a bbolt transaction either shows in full or not at all, and stays.
- `Health`, `Status`, readiness and their lag arithmetic.
- Parsing, canonical text and hashing of schemas, the limits on size, count and
  depth of references, and the comparison of Avro schemas, which a library does.
- Requests of the export that fail (network, status, decoding): the tool gives up.
- In `Api`: routing, JSON, the static list of types, the health endpoints. In
  `Forwarding`: authentication between replicas, headers, the size of bodies, and
  the loop guard, since a forwarded call is never forwarded again.
- Several processes in `KafkaTopic`, and a restore into a topic that is in use:
  the documentation restores into an empty installation.
- HTTP, TLS, authentication, metrics, configuration, command lines, the contract
  and test harness.

## 7. Plan

Done: every module of section 2 and the proofs of section 5. Next, in this order:

1. Readiness: what `Health` and `Status` say while a replica is behind.
2. The measures behind the other liveness properties, as `PassesEnd` gives them for
   the export: the records a replica has not consumed (`FollowersConverge`), the
   attempts a forwarder has left (`RequestsAreAnswered`).
