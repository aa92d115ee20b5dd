---------------------------- MODULE MigrationProofs ----------------------------
(***************************************************************************)
(* Proofs about Migration: the export of any source keeps the identifiers  *)
(* of what it exports, the export of a frozen source is complete, it fails *)
(* only for a reason that can be found in the source, and its passes over  *)
(* the schemas end.                                                        *)
(***************************************************************************)
EXTENDS Migration, RegistryStateProofs, FiniteSetTheorems

-----------------------------------------------------------------------------
(* The inductive invariant.                                                *)

\* What ReadVersion answers for a version.
ItemType == [subject : Subject, version : Int64, id : Int64, identity : Identity, deleted : BOOLEAN]
InventoryType ==
    [schemas : SUBSET ItemType,
     globalCompatibility : Levels,
     subjectCompatibility : [Subject -> Levels \cup {None}],
     globalMode : Modes,
     subjectModes : [Subject -> Modes \cup {None}]]

Loop == {"active", "all", "version", "config", "mode"}
Building == {"import", "delete", "done"}

\* The inventory is typed, and nothing is postponed before a pass.
Typed ==
    /\ frozen \in BOOLEAN
    /\ phase \in {"start", "failed"} \cup Inventory \cup Building
    /\ queue \subseteq Subject /\ subjects \subseteq Subject
    /\ inventory \in InventoryType
    /\ phase = "start" \/ phase \in Inventory => remaining = {}

\* The source is a registry.
SourceOK(st) == WellFormed(st) /\ ReferencesFirst(st)

\* st has the version x was read from.
Held(st, x) ==
    \E i \in st.Subjects[x.subject] :
        i.version = x.version /\ i.id = x.id /\ st.Schemas[i.id] = x.identity

AllHeld(st, inv) == \A x \in inv.schemas : Held(st, x)

\* Version i of subject s of st is the import of x.
Matches(st, s, i, x) ==
    x.subject = s /\ x.version = i.version /\ x.id = i.id /\ x.identity = st.Schemas[i.id]

\* All that the target holds was read, references first.
TargetOK(inv, st, pend, rem) ==
    /\ WellFormed(st) /\ ReferencesFirst(st)
    /\ pend \subseteq inv.schemas /\ rem \subseteq inv.schemas
    /\ \A s \in Subject : \A i \in st.Subjects[s] :
          ~i.permanent /\ \E x \in inv.schemas : Matches(st, s, i, x)
    /\ \A id \in Int64 : st.Schemas[id] # None =>
          \E x \in inv.schemas : x.id = id /\ x.identity = st.Schemas[id]

-----------------------------------------------------------------------------
(* A frozen source.                                                        *)

\* What the source shows of subject s, and what was read of it.
ItemFor(st, s, i) ==
    [subject |-> s, version |-> i.version, id |-> i.id, identity |-> st.Schemas[i.id],
     deleted |-> i.deleted]
ItemsOf(st, s) == {ItemFor(st, s, i) : i \in Visible(st, s, TRUE)}
Of(inv, s) == {x \in inv.schemas : x.subject = s}
Shown(st) == {s \in Subject : Versions(st, s, TRUE) # {}}

GlobalsRead(st, inv) ==
    inv.globalCompatibility = st.GlobalCompatibility /\ inv.globalMode = st.GlobalMode

SubjectRead(st, inv, s) ==
    /\ Of(inv, s) = ItemsOf(st, s)
    /\ s \in Shown(st) => /\ inv.subjectCompatibility[s] = st.SubjectCompatibility[s]
                          /\ inv.subjectModes[s] = st.SubjectModes[s]

\* The first subject of the queue, s, is read as far as the phase says.
FirstRead(st, ph, s, act, un, inv) ==
    /\ ph \in {"active", "all"} => Of(inv, s) = {}
    /\ ph \in {"all", "version"} => act = Versions(st, s, FALSE)
    /\ ph = "version" => /\ un \subseteq Versions(st, s, TRUE)
                         /\ Of(inv, s) = {x \in ItemsOf(st, s) : x.version \notin un}
    /\ ph \in {"config", "mode"} => Of(inv, s) = ItemsOf(st, s)
    /\ ph = "mode" => inv.subjectCompatibility[s] = st.SubjectCompatibility[s]

FrozenLoop(st, ph, q, act, un, inv) ==
    /\ q \subseteq Shown(st)
    /\ \A s \in Subject \ q : SubjectRead(st, inv, s)
    /\ \A s \in q : s \notin FirstSubject(q) => Of(inv, s) = {}
    /\ \A s \in FirstSubject(q) : FirstRead(st, ph, s, act, un, inv)

AllRead(st, inv) == GlobalsRead(st, inv) /\ \A s \in Subject : SubjectRead(st, inv, s)

FrozenReading(st, ph, sub, q, act, un, inv) ==
    /\ ph = "start" => inv = NewInventory
    /\ ph \in Inventory => sub = Shown(st)
    /\ ph \in Loop => GlobalsRead(st, inv) /\ FrozenLoop(st, ph, q, act, un, inv)
    /\ ph \in {"listing", "versions"} \cup Building => AllRead(st, inv)

Available(st, x) == \A r \in Refs[x.identity] : HasVersion(st, r.subject, r.version, FALSE)

ImportMode(st) == st.GlobalMode = "IMPORT" /\ \A s \in Subject : st.SubjectModes[s] = None

\* What is left is not in the target, and the schema of all else is.
FrozenImport(inv, st, pend, rem, prog) ==
    /\ pend \cap rem = {}
    /\ ImportMode(st)
    /\ \A s \in Subject : \A i \in st.Subjects[s] :
          ~i.deleted /\ \E x \in inv.schemas \ (pend \cup rem) : Matches(st, s, i, x)
    /\ \A x \in inv.schemas \ (pend \cup rem) : \E i \in st.Subjects[x.subject] : i.id = x.id
    /\ ~prog => \A x \in rem : ~Available(st, x)

\* Deletions are replayed but for those left.
FrozenDelete(inv, st, pend) ==
    /\ \A x \in pend : x.deleted
    /\ \A s \in Subject : \A i \in st.Subjects[s] :
          \E x \in inv.schemas : Matches(st, s, i, x) /\ (i.deleted <=> x.deleted /\ x \notin pend)
    /\ \A x \in inv.schemas : \E i \in st.Subjects[x.subject] : i.id = x.id

Configured(inv, st) ==
    /\ st.GlobalCompatibility = inv.globalCompatibility
    /\ st.SubjectCompatibility = inv.subjectCompatibility
    /\ st.GlobalMode = inv.globalMode
    /\ st.SubjectModes = inv.subjectModes

FrozenBuilding(ph, inv, st, pend, rem, prog) ==
    /\ ph = "import" => FrozenImport(inv, st, pend, rem, prog)
    /\ ph = "delete" => FrozenDelete(inv, st, pend) /\ ImportMode(st)
    /\ ph = "done" => FrozenDelete(inv, st, {}) /\ Configured(inv, st)

\* The reason for a failure that can be found in the source.
Cause(st) ==
    \E s \in Subject : \E x \in Content(st, s) :
        \/ x.deleted /\ \E r \in Refs[x.identity] : ~HasVersion(st, r.subject, r.version, TRUE)
        \/ \E y \in Content(st, s) : y # x /\ y.id = x.id
        \/ x.id < 1

\* The inductive invariant.
ExportInv ==
    /\ Typed
    /\ SourceOK(source)
    /\ AllHeld(source, inventory)
    /\ phase \in Building => TargetOK(inventory, target, pending, remaining)
    /\ frozen => /\ FrozenReading(source, phase, subjects, queue, active, unread, inventory)
                 /\ FrozenBuilding(phase, inventory, target, pending, remaining, progress)
    /\ phase = "failed" /\ frozen => Cause(source)

-----------------------------------------------------------------------------
(* The source.  Source takes its own copies of the operators of            *)
(* RegistryState.  They are the same operators.                            *)

\* The source takes the commands of RegistryState.
LEMMA SameCommands ==
  /\ Source!RegisterCommand = RegisterCommand /\ Source!DeleteVersionCommand = DeleteVersionCommand
  /\ Source!DeleteSubjectCommand = DeleteSubjectCommand /\ Source!InheritCommand = InheritCommand
  /\ Source!SetCompatibilityCommand = SetCompatibilityCommand /\ Source!SetModeCommand = SetModeCommand
  /\ Source!NewState = NewState
BY DEF Source!RegisterCommand, RegisterCommand, Source!DeleteVersionCommand, DeleteVersionCommand,
   Source!DeleteSubjectCommand, DeleteSubjectCommand, Source!InheritCommand, InheritCommand,
   Source!SetCompatibilityCommand, SetCompatibilityCommand, Source!SetModeCommand, SetModeCommand,
   Source!Operation, Operation, Source!Scope, Scope, Source!NewState, NewState, Source!Int64, Int64

\* planRegister plans the same registration in both modules.
LEMMA SameRegister ==
  ASSUME NEW st, NEW c
  PROVE  /\ Source!RegisterAllowed(st, c) <=> RegisterAllowed(st, c)
         /\ Source!RegisterEnvelope(st, c) = RegisterEnvelope(st, c)
BY DEF Source!RegisterAllowed, RegisterAllowed, Source!IsRecorded, IsRecorded, Source!EffectiveMode,
   EffectiveMode, Source!HasVersion, HasVersion, Source!Versions, Versions, Source!Visible, Visible,
   Source!IsDuplicate, IsDuplicate, Source!IsActive, IsActive, Source!RegisterID, RegisterID,
   Source!RegisterVersion, RegisterVersion, Source!NextVersion, NextVersion, Source!Increment, Increment,
   Source!PolicyAccepts, PolicyAccepts, Source!EffectiveCompatibility, EffectiveCompatibility,
   Source!ComparedItems, ComparedItems, Source!Transitive, Transitive, Source!Parses, Parses,
   Source!PairCompatible, PairCompatible, Source!RegisterEnvelope, RegisterEnvelope, Source!Envelope,
   Envelope, Source!ResultOf, ResultOf

\* DeleteVersion and DeleteSubject plan the same deletions in both modules.
LEMMA SameDeletions ==
  ASSUME NEW st, NEW c
  PROVE  /\ Source!DeleteVersionAllowed(st, c) <=> DeleteVersionAllowed(st, c)
         /\ Source!DeleteVersionEnvelope(st, c) = DeleteVersionEnvelope(st, c)
         /\ Source!DeleteSubjectAllowed(st, c) <=> DeleteSubjectAllowed(st, c)
         /\ Source!DeleteSubjectEnvelope(st, c) = DeleteSubjectEnvelope(st, c)
BY DEF Source!DeleteVersionAllowed, DeleteVersionAllowed, Source!DeleteVersionEnvelope,
   DeleteVersionEnvelope, Source!DeleteSubjectAllowed, DeleteSubjectAllowed,
   Source!DeleteSubjectEnvelope, DeleteSubjectEnvelope, Source!IsRecorded, IsRecorded,
   Source!EffectiveMode, EffectiveMode, Source!HasVersion, HasVersion, Source!Versions, Versions,
   Source!Visible, Visible, Source!MayDestroy, MayDestroy, Source!IsReferenced, IsReferenced, Source!IsActive,
   IsActive, Source!Envelope, Envelope, Source!ResultOf, ResultOf

\* simpleMutation plans the same configuration and mode changes in both modules.
LEMMA SameSettings ==
  ASSUME NEW st, NEW c
  PROVE  /\ Source!SimpleAllowed(st, c) <=> SimpleAllowed(st, c)
         /\ Source!SetCompatibilityEnvelope(st, c) = SetCompatibilityEnvelope(st, c)
         /\ Source!DeleteCompatibilityEnvelope(st, c) = DeleteCompatibilityEnvelope(st, c)
         /\ Source!SetModeEnvelope(st, c) = SetModeEnvelope(st, c)
         /\ Source!DeleteModeEnvelope(st, c) = DeleteModeEnvelope(st, c)
BY DEF Source!SimpleAllowed, SimpleAllowed, Source!IsRecorded, IsRecorded, Source!SetCompatibilityEnvelope,
   SetCompatibilityEnvelope, Source!DeleteCompatibilityEnvelope, DeleteCompatibilityEnvelope,
   Source!SetModeEnvelope, SetModeEnvelope, Source!DeleteModeEnvelope, DeleteModeEnvelope, Source!Envelope,
   Envelope, Source!EmptyResult, EmptyResult, Source!ResultOf, ResultOf

\* State.Apply computes the same state in both modules.
LEMMA SameApply ==
  ASSUME NEW st, NEW e
  PROVE  Source!Apply(st, e) = Apply(st, e)
BY DEF Source!Apply, Apply, Source!NextSchemaIDAfter, NextSchemaIDAfter, Source!SchemasAfter, SchemasAfter,
   Source!IdentityToIDAfter, IdentityToIDAfter, Source!SubjectsAfter, SubjectsAfter,
   Source!GlobalCompatibilityAfter, GlobalCompatibilityAfter, Source!SubjectCompatibilityAfter,
   SubjectCompatibilityAfter, Source!GlobalModeAfter, GlobalModeAfter, Source!SubjectModesAfter,
   SubjectModesAfter, Source!OperationsAfter, OperationsAfter, Source!SetsGlobal, SetsGlobal,
   Source!SetsSubject, SetsSubject, Source!NewVersion, NewVersion, Source!MarkDeleted, MarkDeleted,
   Source!Deletions, Deletions, Source!Increment, Increment

\* State.Apply and State.validate refuse the same transitions in both modules.
LEMMA SameApplies ==
  ASSUME NEW st, NEW e
  PROVE  /\ Source!Applies(st, e) <=> Applies(st, e)
         /\ Source!Valid(st) <=> Valid(st)
BY SameApply DEF Source!Applies, Applies, Source!PayloadFits, PayloadFits, Source!Valid, Valid, Source!Deletions,
   Deletions

\* A change of the source applies a transition some command plans, or
\* restores a backup into the empty registry.
LEMMA SourceStep ==
  Source!Next => \/ \E e \in Plans(source) : Applies(source, e) /\ source' = Apply(source, e)
                 \/ source = NewState /\ source' \in Backups
<1> SUFFICES ASSUME Source!Next
             PROVE  \/ \E e \in Plans(source) : Applies(source, e) /\ source' = Apply(source, e)
                    \/ source = NewState /\ source' \in Backups
  OBVIOUS
<1> DEFINE Taken == \E e \in Plans(source) : Applies(source, e) /\ source' = Apply(source, e)
<1>1. ASSUME NEW e \in Plans(source), Source!CommitApply(e)
      PROVE  Taken
  BY <1>1, SameApply, SameApplies DEF Source!CommitApply
<1>2. ASSUME NEW c \in Source!RegisterCommand, Source!Register(c)
      PROVE  Taken
  <2>1. RegisterEnvelope(source, c) \in Plans(source)
    BY <1>2, SameRegister, SameCommands DEF Source!Register, Plans
  <2> QED
    BY <1>1, <1>2, <2>1, SameRegister DEF Source!Register
<1>3. ASSUME NEW c \in Source!DeleteVersionCommand, Source!DeleteVersion(c)
      PROVE  Taken
  <2>1. DeleteVersionEnvelope(source, c) \in Plans(source)
    BY <1>3, SameDeletions, SameCommands DEF Source!DeleteVersion, Plans
  <2> QED
    BY <1>1, <1>3, <2>1, SameDeletions DEF Source!DeleteVersion
<1>4. ASSUME NEW c \in Source!DeleteSubjectCommand, Source!DeleteSubject(c)
      PROVE  Taken
  <2>1. DeleteSubjectEnvelope(source, c) \in Plans(source)
    BY <1>4, SameDeletions, SameCommands DEF Source!DeleteSubject, Plans
  <2> QED
    BY <1>1, <1>4, <2>1, SameDeletions DEF Source!DeleteSubject
<1>5. ASSUME NEW c \in Source!SetCompatibilityCommand, Source!SetCompatibility(c)
      PROVE  Taken
  <2>1. SetCompatibilityEnvelope(source, c) \in Plans(source)
    BY <1>5, SameSettings, SameCommands DEF Source!SetCompatibility, Plans
  <2> QED
    BY <1>1, <1>5, <2>1, SameSettings DEF Source!SetCompatibility
<1>6. ASSUME NEW c \in Source!InheritCommand, Source!DeleteCompatibility(c)
      PROVE  Taken
  <2>1. DeleteCompatibilityEnvelope(source, c) \in Plans(source)
    BY <1>6, SameSettings, SameCommands DEF Source!DeleteCompatibility, Plans
  <2> QED
    BY <1>1, <1>6, <2>1, SameSettings DEF Source!DeleteCompatibility
<1>7. ASSUME NEW c \in Source!SetModeCommand, Source!SetMode(c)
      PROVE  Taken
  <2>1. SetModeEnvelope(source, c) \in Plans(source)
    BY <1>7, SameSettings, SameCommands DEF Source!SetMode, Plans
  <2> QED
    BY <1>1, <1>7, <2>1, SameSettings DEF Source!SetMode
<1>8. ASSUME NEW c \in Source!InheritCommand, Source!DeleteMode(c)
      PROVE  Taken
  <2>1. DeleteModeEnvelope(source, c) \in Plans(source)
    BY <1>8, SameSettings, SameCommands DEF Source!DeleteMode, Plans
  <2> QED
    BY <1>1, <1>8, <2>1, SameSettings DEF Source!DeleteMode
<1>9. ASSUME NEW b \in Backups, Source!RestoreBackup(b)
      PROVE  source = NewState /\ source' \in Backups
  BY <1>9, SameCommands DEF Source!RestoreBackup
<1> HIDE DEF Taken
<1>10. Taken \/ (source = NewState /\ source' \in Backups)
  BY <1>2, <1>3, <1>4, <1>5, <1>6, <1>7, <1>8, <1>9 DEF Source!Next
<1> QED
  BY <1>10 DEF Taken

\* The order of registrations of the source agrees with its references: the
\* machine refuses a schema whose references are not active.
LEMMA ReferencesStayFirst ==
  ASSUME NEW st, SourceOK(st), NEW e \in Plans(st), Applies(st, e)
  PROVE  ReferencesFirst(Apply(st, e))
<1> DEFINE nst == Apply(st, e)
<1>1. WellFormed(st) /\ st \in Snapshot /\ Valid(st) /\ ReferencesFirst(st)
  BY DEF SourceOK, WellFormed
<1>2. \A id \in Int64 : st.Schemas[id] # None => nst.Schemas[id] = st.Schemas[id]
  BY <1>1, SchemasKept
<1>3. \A s \in Subject : \A i \in st.Subjects[s] : \E j \in nst.Subjects[s] :
         j.version = i.version /\ j.id = i.id /\ j.seq = i.seq
  BY <1>1, VersionsKept
<1>4. nst.Subjects = SubjectsAfter(st, e) /\ nst.Schemas = SchemasAfter(st, e)
  BY DEF Apply
<1>5. \A s \in Subject : \A j \in nst.Subjects[s] :
         \/ \E i \in st.Subjects[s] : j.version = i.version /\ j.id = i.id /\ j.seq = i.seq
         \/ e.Kind = "schema_registered" /\ j = NewVersion(e)
  <2> SUFFICES ASSUME NEW s \in Subject, NEW j \in nst.Subjects[s]
               PROVE  \/ \E i \in st.Subjects[s] : j.version = i.version /\ j.id = i.id /\ j.seq = i.seq
                      \/ e.Kind = "schema_registered" /\ j = NewVersion(e)
    OBVIOUS
  <2>1. Planned(st, e) /\ st.Subjects \in [Subject -> SUBSET SubjectVersion]
    BY <1>1, PlansAreSafe DEF Snapshot
  <2>2. CASE e.Kind = "schema_registered"
    BY <2>1, <2>2, <1>4 DEF SubjectsAfter, Planned
  <2>3. CASE e.Kind \in Deletions
    BY <2>1, <2>3, <1>4 DEF SubjectsAfter, Planned, Deletions, MarkDeleted
  <2>4. CASE e.Kind # "schema_registered" /\ e.Kind \notin Deletions
    BY <2>1, <2>4, <1>4 DEF SubjectsAfter
  <2> QED
    BY <2>2, <2>3, <2>4
<1> HIDE DEF nst
<1> SUFFICES ASSUME NEW s \in Subject, NEW j \in nst.Subjects[s], NEW r \in Refs[nst.Schemas[j.id]]
             PROVE  \E k \in nst.Subjects[r.subject] : k.version = r.version /\ k.seq < j.seq
  BY DEF ReferencesFirst, nst
<1>6. ASSUME NEW i \in st.Subjects[s], j.version = i.version, j.id = i.id, j.seq = i.seq
      PROVE  \E k \in nst.Subjects[r.subject] : k.version = r.version /\ k.seq < j.seq
  <2>1. i.id \in Int64 /\ st.Schemas[i.id] # None /\ st.Schemas[i.id] \in Identity
    BY <1>1 DEF Valid, Snapshot, SubjectVersion
  <2>2. r \in Refs[st.Schemas[i.id]] /\ r.subject \in Subject
    BY <1>2, <1>6, <2>1, ConstantsAssumption DEF Reference
  <2>3. PICK k \in st.Subjects[r.subject] : k.version = r.version /\ k.seq < i.seq
    BY <1>1, <2>2 DEF ReferencesFirst
  <2> QED
    BY <1>3, <1>6, <2>2, <2>3
<1>7. CASE e.Kind = "schema_registered" /\ j = NewVersion(e)
  <2>1. PICK c \in RegisterCommand : RegisterAllowed(st, c) /\ e = RegisterEnvelope(st, c)
    BY <1>7, PlanOfKind
  <2>2. /\ e.Sequence = st.Sequence + 1 /\ e.Payload.identity = c.identity
        /\ e.Payload.id = RegisterID(st, c)
    BY <2>1 DEF RegisterEnvelope, Envelope
  <2>3. e.Payload.id \in Int64 /\ c.identity \in Identity
    BY <1>1, <1>7, PlansAreSafe DEF Planned, RegisterCommand
  <2>4. nst.Schemas[e.Payload.id] = c.identity
    BY <1>1, <1>4, <1>7, <2>2, <2>3 DEF SchemasAfter, Snapshot
  <2>5. j.id = e.Payload.id /\ j.seq = st.Sequence + 1
    BY <1>7, <2>2 DEF NewVersion
  <2>6. r \in Refs[c.identity] /\ r.subject \in Subject
    BY <2>3, <2>4, <2>5, ConstantsAssumption DEF Reference
  <2>7. PICK k \in st.Subjects[r.subject] : k.version = r.version
    BY <2>1, <2>6 DEF RegisterAllowed, HasVersion, Versions, Visible
  <2>8. k.seq \in Nat /\ k.seq <= st.Sequence /\ st.Sequence \in Nat
    BY <1>1, <2>6, <2>7 DEF WellFormed, Sequenced, Snapshot, SubjectVersion
  <2>9. PICK l \in nst.Subjects[r.subject] : l.version = k.version /\ l.seq = k.seq
    BY <1>3, <2>6
  <2> QED
    BY <2>5, <2>7, <2>8, <2>9
<1> QED
  BY <1>5, <1>6, <1>7

\* A change keeps the source a registry, and what was read of it.
LEMMA SourceChanges ==
  ASSUME SourceOK(source), Source!Next, NEW inv \in InventoryType, AllHeld(source, inv)
  PROVE  SourceOK(source') /\ AllHeld(source', inv)
<1>1. ASSUME NEW e \in Plans(source), Applies(source, e), source' = Apply(source, e)
      PROVE  SourceOK(source') /\ AllHeld(source', inv)
  <2>1. WellFormed(source) /\ source \in Snapshot /\ Valid(source)
    BY DEF SourceOK, WellFormed
  <2>2. WellFormed(source')
    BY <1>1, <2>1, PlansAreSafe
  <2>3. ReferencesFirst(source')
    BY <1>1, ReferencesStayFirst
  <2>4. ASSUME NEW x \in inv.schemas
        PROVE  Held(source', x)
    <3>1. x.subject \in Subject
      BY DEF InventoryType, ItemType
    <3>2. PICK i \in source.Subjects[x.subject] :
            i.version = x.version /\ i.id = x.id /\ source.Schemas[i.id] = x.identity
      BY DEF AllHeld, Held
    <3>3. i.id \in Int64 /\ source.Schemas[i.id] # None
      BY <2>1, <3>1, <3>2 DEF Valid, Snapshot, SubjectVersion
    <3>4. source'.Schemas[i.id] = source.Schemas[i.id]
      BY <1>1, <2>1, <3>3, SchemasKept
    <3>5. PICK j \in source'.Subjects[x.subject] : j.version = i.version /\ j.id = i.id
      BY <1>1, <2>1, <3>1, VersionsKept
    <3> QED
      BY <3>2, <3>4, <3>5 DEF Held
  <2> QED
    BY <2>2, <2>3, <2>4 DEF SourceOK, AllHeld
<1>2. CASE source = NewState /\ source' \in Backups
  <2>1. SourceOK(source')
    BY <1>2, BackupsAssumption, SourceAssumption DEF SourceOK
  <2>2. inv.schemas = {}
    BY <1>2 DEF AllHeld, Held, NewState, InventoryType, ItemType
  <2> QED
    BY <2>1, <2>2 DEF AllHeld
<1> QED
  BY <1>1, <1>2, SourceStep

-----------------------------------------------------------------------------
(* The target.                                                             *)

\* What Register does with an item of the inventory: the version and the ID
\* are the ones asked for.
LEMMA ImportEffect ==
  ASSUME NEW st, WellFormed(st), NEW x \in ItemType, x.id >= 1, x.version >= 1,
         RegisterAllowed(st, ImportCommand(x)), Applies(st, RegisterEnvelope(st, ImportCommand(x))),
         NEW nst, nst = Apply(st, RegisterEnvelope(st, ImportCommand(x)))
  PROVE  /\ WellFormed(nst)
         /\ st.Schemas[x.id] \in {None, x.identity}
         /\ nst.Schemas = [st.Schemas EXCEPT ![x.id] = x.identity]
         /\ nst.Subjects = [st.Subjects EXCEPT ![x.subject] = @ \cup
               {[version |-> x.version, id |-> x.id, seq |-> st.Sequence + 1,
                 deleted |-> FALSE, permanent |-> FALSE]}]
         /\ nst.GlobalMode = st.GlobalMode /\ nst.SubjectModes = st.SubjectModes
<1> DEFINE c == ImportCommand(x)
           e == RegisterEnvelope(st, c)
<1>1. /\ c.op = NoOperation /\ c.subject = x.subject /\ c.identity = x.identity
      /\ c.id = x.id /\ c.version = x.version
  BY DEF ImportCommand
<1>2. x.subject \in Subject /\ x.identity \in Identity /\ x.id \in Int64 /\ x.version \in Int64
  BY DEF ItemType
<1>3. c.id # 0 /\ c.version # 0
  BY <1>1, <1>2, ConstantsAssumption DEF Int64
<1> HIDE DEF c
<1>4. RegisterID(st, c) = x.id /\ RegisterVersion(st, c) = x.version
  BY <1>1, <1>3 DEF RegisterID, RegisterVersion, RegisterAllowed, c
<1>5. /\ e.Sequence = st.Sequence + 1 /\ e.Kind = "schema_registered"
      /\ e.Payload.subject = x.subject /\ e.Payload.identity = x.identity
      /\ e.Payload.id = x.id /\ e.Payload.version = x.version
  BY <1>1, <1>4 DEF RegisterEnvelope, Envelope
<1>6. st.Schemas[x.id] \in {None, x.identity}
  BY <1>1, <1>4 DEF RegisterAllowed, c
<1>7. WellFormed(nst)
  <2>1. c.op \in Operation /\ c.subject \in Subject /\ c.identity \in Identity /\ c.id \in Int64
    BY <1>1, <1>2 DEF Operation
  <2> QED
    BY <2>1, RegisterWellFormed DEF c
<1>8. nst = Apply(st, e)
  BY DEF c
<1> HIDE DEF e
<1>9. /\ nst.Schemas = SchemasAfter(st, e) /\ nst.Subjects = SubjectsAfter(st, e)
      /\ nst.GlobalMode = GlobalModeAfter(st, e) /\ nst.SubjectModes = SubjectModesAfter(st, e)
  BY <1>8 DEF Apply
<1> QED
  BY <1>5, <1>6, <1>7, <1>9 DEF SchemasAfter, SubjectsAfter, NewVersion, GlobalModeAfter,
     SubjectModesAfter, SetsGlobal, SetsSubject

\* An import adds what was read and nothing else.
LEMMA ImportKeepsTarget ==
  ASSUME NEW inv \in InventoryType, NEW st, NEW pend, NEW rem, TargetOK(inv, st, pend, rem),
         NEW x \in pend, x.id >= 1, x.version >= 1,
         RegisterAllowed(st, ImportCommand(x)), Applies(st, RegisterEnvelope(st, ImportCommand(x))),
         NEW nst, nst = Apply(st, RegisterEnvelope(st, ImportCommand(x)))
  PROVE  TargetOK(inv, nst, pend \ {x}, rem)
<1>1. x \in inv.schemas /\ x \in ItemType
  BY DEF TargetOK, InventoryType
<1>2. x.subject \in Subject /\ x.id \in Int64
  BY <1>1 DEF ItemType
<1>3. WellFormed(st) /\ st \in Snapshot /\ Valid(st)
  BY DEF TargetOK, WellFormed
<1> DEFINE new == [version |-> x.version, id |-> x.id, seq |-> st.Sequence + 1,
                   deleted |-> FALSE, permanent |-> FALSE]
<1>4. /\ WellFormed(nst)
      /\ st.Schemas[x.id] \in {None, x.identity}
      /\ nst.Schemas = [st.Schemas EXCEPT ![x.id] = x.identity]
      /\ nst.Subjects = [st.Subjects EXCEPT ![x.subject] = @ \cup {new}]
  BY <1>1, <1>3, ImportEffect
<1>5. new.version = x.version /\ new.id = x.id /\ ~new.permanent
  OBVIOUS
<1> HIDE DEF new
<1>6. ASSUME NEW id \in Int64, nst.Schemas[id] # None
      PROVE  \E y \in inv.schemas : y.id = id /\ y.identity = nst.Schemas[id]
  <2>1. CASE id = x.id
    BY <1>1, <1>2, <1>3, <1>4, <2>1 DEF Snapshot
  <2>2. CASE id # x.id
    <3>1. nst.Schemas[id] = st.Schemas[id]
      BY <1>2, <1>3, <1>4, <2>2 DEF Snapshot
    <3> QED
      BY <1>6, <3>1 DEF TargetOK
  <2> QED
    BY <2>1, <2>2
<1>7. ASSUME NEW s \in Subject, NEW i \in nst.Subjects[s]
      PROVE  ~i.permanent /\ \E y \in inv.schemas : Matches(nst, s, i, y)
  <2>1. CASE i \in st.Subjects[s]
    <3>1. i.id \in Int64 /\ st.Schemas[i.id] # None
      BY <1>3, <2>1 DEF Valid, Snapshot, SubjectVersion
    <3>2. nst.Schemas[i.id] = st.Schemas[i.id]
      BY <1>2, <1>3, <1>4, <3>1 DEF Snapshot
    <3>3. ~i.permanent /\ \E y \in inv.schemas : Matches(st, s, i, y)
      BY <2>1 DEF TargetOK
    <3> QED
      BY <3>2, <3>3 DEF Matches
  <2>2. CASE i \notin st.Subjects[s]
    <3>1. s = x.subject /\ i = new
      BY <1>2, <1>3, <1>4, <2>2 DEF Snapshot
    <3>2. nst.Schemas[x.id] = x.identity
      BY <1>2, <1>3, <1>4 DEF Snapshot
    <3> QED
      BY <1>1, <1>5, <3>1, <3>2 DEF Matches
  <2> QED
    BY <2>1, <2>2
<1>8. \A s \in Subject : st.Subjects[s] \subseteq nst.Subjects[s]
  BY <1>2, <1>3, <1>4 DEF Snapshot
<1>9. ASSUME NEW s \in Subject, NEW i \in nst.Subjects[s], NEW r \in Refs[nst.Schemas[i.id]]
      PROVE  \E k \in nst.Subjects[r.subject] : k.version = r.version /\ k.seq < i.seq
  <2>1. CASE i \in st.Subjects[s]
    <3>1. i.id \in Int64 /\ st.Schemas[i.id] # None /\ st.Schemas[i.id] \in Identity
      BY <1>3, <2>1 DEF Valid, Snapshot, SubjectVersion
    <3>2. nst.Schemas[i.id] = st.Schemas[i.id]
      BY <1>2, <1>3, <1>4, <3>1 DEF Snapshot
    <3>3. r \in Refs[st.Schemas[i.id]] /\ r.subject \in Subject
      BY <3>1, <3>2, ConstantsAssumption DEF Reference
    <3>4. \E k \in st.Subjects[r.subject] : k.version = r.version /\ k.seq < i.seq
      BY <2>1, <3>3 DEF TargetOK, ReferencesFirst
    <3> QED
      BY <1>8, <3>3, <3>4
  <2>2. CASE i \notin st.Subjects[s]
    <3>1. s = x.subject /\ i = new
      BY <1>2, <1>3, <1>4, <2>2 DEF Snapshot
    <3>2. nst.Schemas[x.id] = x.identity /\ x.identity \in Identity
      BY <1>1, <1>2, <1>3, <1>4 DEF Snapshot, ItemType
    <3>3. i.id = x.id /\ i.seq = st.Sequence + 1
      BY <3>1 DEF new
    <3>4. r \in Refs[x.identity] /\ r.subject \in Subject
      BY <3>2, <3>3, ConstantsAssumption DEF Reference
    <3>5. ImportCommand(x).identity = x.identity
      BY DEF ImportCommand
    <3>6. PICK k \in st.Subjects[r.subject] : k.version = r.version
      BY <3>4, <3>5 DEF RegisterAllowed, HasVersion, Versions, Visible
    <3>7. k.seq \in Nat /\ k.seq <= st.Sequence /\ st.Sequence \in Nat
      BY <1>3, <3>4 DEF WellFormed, Sequenced, Snapshot, SubjectVersion
    <3> QED
      BY <1>8, <3>3, <3>4, <3>6, <3>7
  <2> QED
    BY <2>1, <2>2
<1>10. ReferencesFirst(nst)
  BY <1>9 DEF ReferencesFirst
<1> QED
  BY <1>4, <1>6, <1>7, <1>10 DEF TargetOK

\* A soft deletion DeleteVersion allows applies.
LEMMA DeletionApplies ==
  ASSUME NEW st, WellFormed(st), NEW c, c.subject \in Subject, c.permanent = FALSE,
         DeleteVersionAllowed(st, c)
  PROVE  Applies(st, DeleteVersionEnvelope(st, c))
<1> DEFINE e == DeleteVersionEnvelope(st, c)
           nst == Apply(st, e)
<1>1. /\ e.Sequence = st.Sequence + 1 /\ e.Kind = "version_deleted"
      /\ e.Payload.subject = c.subject /\ e.Payload.versions = {c.version}
  BY DEF DeleteVersionEnvelope, Envelope
<1>2. st \in Snapshot /\ Valid(st)
  BY DEF WellFormed
<1>3. \E i \in st.Subjects[c.subject] : i.version = c.version /\ ~i.permanent
  BY DEF DeleteVersionAllowed, HasVersion, Versions, Visible
<1> HIDE DEF e
<1>4. PayloadFits(st, e)
  BY <1>1, <1>3 DEF PayloadFits
<1>5. /\ nst.NextSchemaID = st.NextSchemaID /\ nst.Schemas = st.Schemas
      /\ nst.IdentityToID = st.IdentityToID
      /\ nst.Subjects = [st.Subjects EXCEPT ![c.subject] = {MarkDeleted(i, e.Payload) : i \in @}]
  BY <1>1 DEF Apply, NextSchemaIDAfter, SchemasAfter, IdentityToIDAfter, SubjectsAfter, Deletions
<1> HIDE DEF nst
<1>6. \A i : MarkDeleted(i, e.Payload).version = i.version /\ MarkDeleted(i, e.Payload).id = i.id
  BY DEF MarkDeleted
<1>7. ASSUME NEW s \in Subject, NEW i \in nst.Subjects[s]
      PROVE  /\ i.version \in 1 .. MaxInt
             /\ nst.Schemas[i.id] # None
             /\ \A j \in nst.Subjects[s] : j.version = i.version => j = i
  <2>1. CASE s # c.subject
    BY <1>2, <1>5, <2>1 DEF Valid, Snapshot
  <2>2. CASE s = c.subject
    <3>1. PICK k \in st.Subjects[s] : i = MarkDeleted(k, e.Payload)
      BY <1>2, <1>5, <2>2 DEF Snapshot
    <3>2. i.version \in 1 .. MaxInt /\ nst.Schemas[i.id] # None
      BY <1>2, <1>5, <1>6, <3>1 DEF Valid
    <3>3. ASSUME NEW j \in nst.Subjects[s], j.version = i.version
          PROVE  j = i
      <4>1. PICK l \in st.Subjects[s] : j = MarkDeleted(l, e.Payload)
        BY <1>2, <1>5, <2>2 DEF Snapshot
      <4>2. l.version = k.version
        BY <1>6, <3>1, <3>3, <4>1
      <4>3. l = k
        BY <1>2, <4>2 DEF Valid
      <4> QED
        BY <3>1, <4>1, <4>3
    <3> QED
      BY <3>2, <3>3
  <2> QED
    BY <2>1, <2>2
<1>8. Valid(nst)
  BY <1>2, <1>5, <1>7 DEF Valid
<1> QED
  BY <1>1, <1>4, <1>8 DEF Applies, nst, e

\* What DeleteVersion does with a soft-deleted item of the inventory.
LEMMA DeleteEffect ==
  ASSUME NEW inv \in InventoryType, NEW st, NEW pend, NEW rem, TargetOK(inv, st, pend, rem),
         NEW x \in pend, DeleteVersionAllowed(st, DeleteCommand(x)),
         NEW nst, nst = Apply(st, DeleteVersionEnvelope(st, DeleteCommand(x)))
  PROVE  /\ WellFormed(nst)
         /\ nst.Schemas = st.Schemas
         /\ nst.GlobalMode = st.GlobalMode /\ nst.SubjectModes = st.SubjectModes
         /\ \A s \in Subject : \A j \in nst.Subjects[s] : \E i \in st.Subjects[s] :
               /\ j.version = i.version /\ j.id = i.id /\ j.seq = i.seq /\ ~j.permanent
               /\ j.deleted <=> i.deleted \/ (s = x.subject /\ i.version = x.version)
         /\ \A s \in Subject : \A i \in st.Subjects[s] : \E j \in nst.Subjects[s] :
               j.version = i.version /\ j.id = i.id /\ j.seq = i.seq
<1> DEFINE c == DeleteCommand(x)
           e == DeleteVersionEnvelope(st, c)
<1>1. x.subject \in Subject /\ x.version \in Int64
  BY DEF TargetOK, InventoryType, ItemType
<1>2. WellFormed(st) /\ st \in Snapshot
  BY DEF TargetOK, WellFormed
<1>3. c.op = NoOperation /\ c.subject = x.subject /\ c.version = x.version /\ c.permanent = FALSE
  BY DEF DeleteCommand
<1>4. /\ e.Kind = "version_deleted" /\ e.OperationID = NoOperation
      /\ e.Result = [SchemaID |-> 0, Version |-> x.version, Versions |-> {}]
      /\ e.Payload.subject = x.subject /\ e.Payload.versions = {x.version}
      /\ e.Payload.permanent = FALSE
  BY <1>3 DEF DeleteVersionEnvelope, Envelope, ResultOf
<1>5. Applies(st, e)
  <2> HIDE DEF c
  <2> QED
    BY <1>1, <1>2, <1>3, DeletionApplies DEF c
<1>6. e.Result \in Result
  BY <1>1, <1>4, ConstantsAssumption DEF Result, Int64
<1>7. nst = Apply(st, e)
  OBVIOUS
<1> HIDE DEF e, c
<1>8. WellFormed(nst)
  <2>1. /\ e.Kind \in Deletions /\ e.OperationID \in Operation
        /\ e.Payload.subject \in Subject /\ e.Payload.permanent \in BOOLEAN
    BY <1>1, <1>4 DEF Deletions, Operation
  <2> QED
    BY <1>2, <1>4, <1>5, <1>6, <1>7, <2>1, DeletionWellFormed
<1>9. /\ nst.Schemas = st.Schemas
      /\ nst.GlobalMode = st.GlobalMode /\ nst.SubjectModes = st.SubjectModes
      /\ nst.Subjects = [st.Subjects EXCEPT ![x.subject] = {MarkDeleted(i, e.Payload) : i \in @}]
  <2>1. /\ nst.Schemas = SchemasAfter(st, e) /\ nst.Subjects = SubjectsAfter(st, e)
        /\ nst.GlobalMode = GlobalModeAfter(st, e) /\ nst.SubjectModes = SubjectModesAfter(st, e)
    BY <1>7 DEF Apply
  <2> QED
    BY <1>4, <2>1 DEF SchemasAfter, SubjectsAfter, Deletions, GlobalModeAfter, SubjectModesAfter,
       SetsGlobal, SetsSubject
<1>10. \A s \in Subject : \A i \in st.Subjects[s] : ~i.permanent /\ i.deleted \in BOOLEAN
  BY <1>2 DEF TargetOK, Snapshot, SubjectVersion
<1>11. ASSUME NEW i \in st.Subjects[x.subject]
       PROVE  LET j == MarkDeleted(i, e.Payload)
              IN  /\ j.version = i.version /\ j.id = i.id /\ j.seq = i.seq /\ ~j.permanent
                  /\ j.deleted <=> i.deleted \/ i.version = x.version
  BY <1>1, <1>4, <1>10 DEF MarkDeleted
<1>12. ASSUME NEW s \in Subject, NEW j \in nst.Subjects[s]
       PROVE  \E i \in st.Subjects[s] :
               /\ j.version = i.version /\ j.id = i.id /\ j.seq = i.seq /\ ~j.permanent
               /\ j.deleted <=> i.deleted \/ (s = x.subject /\ i.version = x.version)
  <2>1. CASE s # x.subject
    BY <1>2, <1>9, <1>10, <2>1 DEF Snapshot
  <2>2. CASE s = x.subject
    <3>1. PICK i \in st.Subjects[s] : j = MarkDeleted(i, e.Payload)
      BY <1>2, <1>9, <2>2 DEF Snapshot
    <3> QED
      BY <1>11, <2>2, <3>1
  <2> QED
    BY <2>1, <2>2
<1>13. ASSUME NEW s \in Subject, NEW i \in st.Subjects[s]
       PROVE  \E j \in nst.Subjects[s] : j.version = i.version /\ j.id = i.id /\ j.seq = i.seq
  <2>1. CASE s # x.subject
    BY <1>2, <1>9, <2>1 DEF Snapshot
  <2>2. CASE s = x.subject
    <3>1. MarkDeleted(i, e.Payload) \in nst.Subjects[s]
      BY <1>2, <1>9, <2>2 DEF Snapshot
    <3> QED
      BY <1>11, <2>2, <3>1
  <2> QED
    BY <2>1, <2>2
<1> QED
  BY <1>8, <1>9, <1>12, <1>13

\* A deletion changes no identifier.
LEMMA DeleteKeepsTarget ==
  ASSUME NEW inv \in InventoryType, NEW st, NEW pend, NEW rem, TargetOK(inv, st, pend, rem),
         NEW x \in pend, DeleteVersionAllowed(st, DeleteCommand(x)),
         NEW nst, nst = Apply(st, DeleteVersionEnvelope(st, DeleteCommand(x)))
  PROVE  TargetOK(inv, nst, pend \ {x}, rem)
<1>1. /\ WellFormed(nst) /\ nst.Schemas = st.Schemas
      /\ \A s \in Subject : \A j \in nst.Subjects[s] : \E i \in st.Subjects[s] :
            j.version = i.version /\ j.id = i.id /\ j.seq = i.seq /\ ~j.permanent
      /\ \A s \in Subject : \A i \in st.Subjects[s] : \E j \in nst.Subjects[s] :
            j.version = i.version /\ j.id = i.id /\ j.seq = i.seq
  BY DeleteEffect
<1>2. ASSUME NEW s \in Subject, NEW j \in nst.Subjects[s]
      PROVE  ~j.permanent /\ \E y \in inv.schemas : Matches(nst, s, j, y)
  <2>1. PICK i \in st.Subjects[s] : j.version = i.version /\ j.id = i.id /\ ~j.permanent
    BY <1>1
  <2>2. PICK y \in inv.schemas : Matches(st, s, i, y)
    BY DEF TargetOK
  <2> QED
    BY <1>1, <2>1, <2>2 DEF Matches
<1>3. ASSUME NEW s \in Subject, NEW j \in nst.Subjects[s], NEW r \in Refs[nst.Schemas[j.id]]
      PROVE  \E k \in nst.Subjects[r.subject] : k.version = r.version /\ k.seq < j.seq
  <2>1. PICK i \in st.Subjects[s] : j.id = i.id /\ j.seq = i.seq
    BY <1>1
  <2>2. st.Schemas[i.id] \in Identity
    BY DEF TargetOK, WellFormed, Snapshot, SubjectVersion, Valid
  <2>3. r \in Refs[st.Schemas[i.id]] /\ r.subject \in Subject
    BY <1>1, <2>1, <2>2, ConstantsAssumption DEF Reference
  <2>4. PICK k \in st.Subjects[r.subject] : k.version = r.version /\ k.seq < i.seq
    BY <2>3 DEF TargetOK, ReferencesFirst
  <2> QED
    BY <1>1, <2>1, <2>3, <2>4
<1>4. ReferencesFirst(nst)
  BY <1>3 DEF ReferencesFirst
<1> QED
  BY <1>1, <1>2, <1>4 DEF TargetOK

\* The fresh machine in IMPORT mode.
LEMMA FreshTarget ==
  ASSUME NEW st, st = Apply(NewState, SetModeEnvelope(NewState, ModeCommand(Global, "IMPORT")))
  PROVE  /\ WellFormed(st) /\ ImportMode(st)
         /\ st.Subjects = [s \in Subject |-> {}] /\ st.Schemas = [id \in Int64 |-> None]
<1> DEFINE e == SetModeEnvelope(NewState, ModeCommand(Global, "IMPORT"))
<1>1. /\ e.Sequence = NewState.Sequence + 1 /\ e.Kind = "mode_set" /\ e.OperationID = NoOperation
      /\ e.Result = EmptyResult /\ e.Payload.scope = Global /\ e.Payload.value = "IMPORT"
  BY DEF SetModeEnvelope, ModeCommand, Envelope
<1>2. st = Apply(NewState, e)
  OBVIOUS
<1> HIDE DEF e
<1>3. /\ st.NextSchemaID = NewState.NextSchemaID /\ st.Schemas = NewState.Schemas
      /\ st.IdentityToID = NewState.IdentityToID /\ st.Subjects = NewState.Subjects
      /\ st.GlobalMode = "IMPORT" /\ st.SubjectModes = NewState.SubjectModes
  <2>1. /\ st.NextSchemaID = NextSchemaIDAfter(NewState, e)
        /\ st.Schemas = SchemasAfter(NewState, e) /\ st.IdentityToID = IdentityToIDAfter(NewState, e)
        /\ st.Subjects = SubjectsAfter(NewState, e)
        /\ st.GlobalMode = GlobalModeAfter(NewState, e)
        /\ st.SubjectModes = SubjectModesAfter(NewState, e)
    BY <1>2 DEF Apply
  <2> QED
    BY <1>1, <2>1 DEF NextSchemaIDAfter, SchemasAfter, IdentityToIDAfter, SubjectsAfter,
       GlobalModeAfter, SubjectModesAfter, SetsGlobal, SetsSubject, Deletions
<1>4. Applies(NewState, e)
  <2>1. Valid(st)
    BY <1>3, NewStateWellFormed DEF WellFormed, Valid
  <2> QED
    BY <1>1, <1>2, <2>1 DEF Applies, PayloadFits, Deletions
<1>5. WellFormed(st)
  <2>1. EmptyResult \in Result
    BY ConstantsAssumption DEF EmptyResult, ResultOf, Result, Int64
  <2> QED
    BY <1>1, <1>2, <1>4, <2>1, NewStateWellFormed, SettingWellFormed, SMTT(20) DEF Operation, Scope, Modes
<1> QED
  BY <1>3, <1>5 DEF ImportMode, NewState

\* Levels and modes make no difference to the identifiers.
LEMMA ConfigureKeepsTarget ==
  ASSUME NEW inv \in InventoryType, NEW st, NEW pend, NEW rem, TargetOK(inv, st, pend, rem),
         NEW n \in Nat,
         NEW nst, nst = [st EXCEPT !.Sequence = @ + n,
                                   !.GlobalCompatibility = inv.globalCompatibility,
                                   !.SubjectCompatibility = inv.subjectCompatibility,
                                   !.SubjectModes = inv.subjectModes,
                                   !.GlobalMode = inv.globalMode]
  PROVE  TargetOK(inv, nst, pend, rem) /\ Configured(inv, nst)
<1>1. WellFormed(st) /\ st \in Snapshot
  BY DEF TargetOK, WellFormed
<1>2. /\ nst.Sequence = st.Sequence + n /\ nst.Schemas = st.Schemas
      /\ nst.IdentityToID = st.IdentityToID /\ nst.Subjects = st.Subjects
      /\ nst.NextSchemaID = st.NextSchemaID /\ nst.Operations = st.Operations
      /\ Configured(inv, nst)
  BY <1>1 DEF Snapshot, Configured
<1>3. nst \in Snapshot
  <2>1. /\ inv.globalCompatibility \in Levels /\ inv.globalMode \in Modes
        /\ inv.subjectCompatibility \in [Subject -> Levels \cup {None}]
        /\ inv.subjectModes \in [Subject -> Modes \cup {None}]
    BY DEF InventoryType
  <2>2. st.Sequence + n \in Nat
    BY <1>1 DEF Snapshot
  <2> QED
    BY <1>1, <2>1, <2>2 DEF Snapshot
<1>4. Valid(nst) /\ IDsMatch(nst) /\ CounterIsFresh(nst) /\ OneActive(nst) /\ ReferencesKept(nst)
      /\ DeletedFirst(nst)
  BY <1>1, <1>2 DEF WellFormed, Valid, IDsMatch, CounterIsFresh, OneActive, ReferencesKept, DeletedFirst
<1>5. Sequenced(nst)
  <2>1. \A s \in Subject : \A i \in nst.Subjects[s] : i.seq <= nst.Sequence
    BY <1>1, <1>2 DEF WellFormed, Sequenced, Snapshot, SubjectVersion
  <2> QED
    BY <1>1, <1>2, <2>1 DEF WellFormed, Sequenced
<1>6. WellFormed(nst)
  BY <1>3, <1>4, <1>5 DEF WellFormed
<1>7. ReferencesFirst(nst)
  BY <1>2 DEF TargetOK, ReferencesFirst
<1> QED
  BY <1>2, <1>6, <1>7 DEF TargetOK, Matches

-----------------------------------------------------------------------------
(* The inventory of a frozen source.                                       *)

\* What the inventory says of a version the source holds.
Shows(st, x, i) ==
    /\ ~i.permanent
    /\ i.version = x.version /\ i.id = x.id /\ st.Schemas[i.id] = x.identity
    /\ i.deleted = x.deleted

\* An inventory that is complete is the content of the source.
LEMMA InventoryIsContent ==
  ASSUME NEW st, NEW inv \in InventoryType, AllRead(st, inv)
  PROVE  /\ \A x \in inv.schemas : x.subject \in Subject /\ \E i \in st.Subjects[x.subject] : Shows(st, x, i)
         /\ \A s \in Subject : \A i \in st.Subjects[s] : ~i.permanent =>
               \E x \in inv.schemas : x.subject = s /\ Shows(st, x, i)
<1>1. ASSUME NEW x \in inv.schemas
      PROVE  x.subject \in Subject /\ \E i \in st.Subjects[x.subject] : Shows(st, x, i)
  <2>1. x.subject \in Subject
    BY DEF InventoryType, ItemType
  <2>2. x \in ItemsOf(st, x.subject)
    BY <2>1 DEF AllRead, SubjectRead, Of
  <2> QED
    BY <2>1, <2>2 DEF ItemsOf, ItemFor, Visible, Shows
<1>2. ASSUME NEW s \in Subject, NEW i \in st.Subjects[s], ~i.permanent
      PROVE  \E x \in inv.schemas : x.subject = s /\ Shows(st, x, i)
  <2> DEFINE x == [subject |-> s, version |-> i.version, id |-> i.id,
                   identity |-> st.Schemas[i.id], deleted |-> i.deleted]
  <2>1. x \in ItemsOf(st, s)
    BY <1>2 DEF ItemsOf, ItemFor, Visible
  <2>2. x \in inv.schemas
    BY <2>1 DEF AllRead, SubjectRead, Of
  <2>3. x.subject = s /\ Shows(st, x, i)
    BY <1>2 DEF Shows
  <2> QED
    BY <2>2, <2>3
<1> QED
  BY <1>1, <1>2

\* It has one item for a version, and one ID for a schema.
LEMMA InventoryIsUnique ==
  ASSUME NEW st, SourceOK(st), NEW inv \in InventoryType, AllRead(st, inv),
         NEW x \in inv.schemas, NEW y \in inv.schemas
  PROVE  /\ x.subject = y.subject /\ x.version = y.version => x = y
         /\ x.identity = y.identity <=> x.id = y.id
         /\ x.version >= 1 /\ x.version <= MaxInt /\ x.id < MaxInt
         /\ x.id \in Int64 /\ x.identity \in Identity
<1>1. WellFormed(st) /\ st \in Snapshot /\ Valid(st)
  BY DEF SourceOK, WellFormed
<1>2. x \in ItemType /\ y \in ItemType /\ x.subject \in Subject /\ y.subject \in Subject
  BY DEF InventoryType, ItemType
<1>3. PICK i \in st.Subjects[x.subject] : Shows(st, x, i)
  BY InventoryIsContent
<1>4. PICK j \in st.Subjects[y.subject] : Shows(st, y, j)
  BY InventoryIsContent
<1>5. i \in SubjectVersion /\ j \in SubjectVersion /\ st.Schemas[i.id] # None /\ st.Schemas[j.id] # None
  BY <1>1, <1>2 DEF Snapshot, Valid
<1>6. ASSUME x.subject = y.subject, x.version = y.version
      PROVE  x = y
  <2>1. i = j
    BY <1>1, <1>2, <1>3, <1>4, <1>6 DEF Valid, Shows
  <2> QED
    BY <1>2, <1>3, <1>4, <1>6, <2>1 DEF Shows, ItemType
<1>7. x.identity = y.identity <=> x.id = y.id
  BY <1>1, <1>3, <1>4, <1>5 DEF Shows, WellFormed, IDsMatch, SubjectVersion
<1>8. x.version >= 1 /\ x.version <= MaxInt
  BY <1>1, <1>2, <1>3, ConstantsAssumption DEF Shows, Valid
<1>9. x.id < MaxInt
  <2>1. x.id \in Int64 /\ x.id < st.NextSchemaID /\ st.NextSchemaID \in 1 .. MaxInt
    BY <1>1, <1>3, <1>5 DEF Shows, WellFormed, CounterIsFresh, Valid, SubjectVersion
  <2> QED
    BY <2>1, ConstantsAssumption DEF Int64
<1> QED
  BY <1>2, <1>6, <1>7, <1>8, <1>9 DEF ItemType

\* Two items of a subject with one ID are a cause for a failure.
LEMMA RepeatIsACause ==
  ASSUME NEW st, SourceOK(st), NEW inv \in InventoryType, AllRead(st, inv),
         NEW x \in inv.schemas, NEW y \in inv.schemas,
         x.subject = y.subject, x.id = y.id, x.version # y.version
  PROVE  Cause(st)
<1> DEFINE C(z) == [version |-> z.version, id |-> z.id, identity |-> z.identity, deleted |-> z.deleted]
<1>1. ASSUME NEW z \in inv.schemas
      PROVE  C(z) \in Content(st, z.subject)
  <2>1. PICK i \in st.Subjects[z.subject] : Shows(st, z, i)
    BY InventoryIsContent
  <2> QED
    BY <2>1 DEF Content, Visible, Shows
<1>2. C(x) \in Content(st, x.subject) /\ C(y) \in Content(st, x.subject) /\ x.subject \in Subject
  BY <1>1 DEF InventoryType, ItemType
<1>3. C(x).id = C(y).id /\ C(x) # C(y)
  OBVIOUS
<1> HIDE DEF C
<1> QED
  BY <1>2, <1>3 DEF Cause

\* So is an item whose ID is not positive.
LEMMA BadIDIsACause ==
  ASSUME NEW st, NEW inv \in InventoryType, AllRead(st, inv), NEW x \in inv.schemas, x.id < 1
  PROVE  Cause(st)
<1>1. PICK i \in st.Subjects[x.subject] : Shows(st, x, i)
  BY InventoryIsContent
<1>2. x.subject \in Subject
  BY InventoryIsContent
<1> DEFINE c == [version |-> i.version, id |-> i.id, identity |-> st.Schemas[i.id], deleted |-> i.deleted]
<1>3. c \in Content(st, x.subject) /\ c.id < 1
  BY <1>1 DEF Content, Visible, Shows
<1> HIDE DEF c
<1> QED
  BY <1>2, <1>3 DEF Cause

-----------------------------------------------------------------------------
(* Building from it.                                                       *)

\* In the import loop everything in the target parses.
LEMMA ImportParses ==
  ASSUME NEW inv \in InventoryType, NEW st, NEW pend, NEW rem, NEW prog,
         TargetOK(inv, st, pend, rem), FrozenImport(inv, st, pend, rem, prog),
         NEW x \in pend, Available(st, x)
  PROVE  Parses(st, x.identity)
<1>1. WellFormed(st) /\ st \in Snapshot /\ Valid(st)
  BY DEF TargetOK, WellFormed
<1>2. x.identity \in Identity
  BY DEF TargetOK, InventoryType, ItemType
<1> DEFINE S == {x.identity} \cup {y \in Identity : \E s \in Subject : \E i \in st.Subjects[s] : st.Schemas[i.id] = y}
<1>3. S \in SUBSET Identity /\ x.identity \in S
  BY <1>2
<1>4. ASSUME NEW s \in Subject, NEW i \in st.Subjects[s]
      PROVE  st.Schemas[i.id] \in S /\ IsActive(i)
  BY <1>1 DEF Valid, Snapshot, SubjectVersion, FrozenImport, TargetOK, IsActive
<1>5. ASSUME NEW y \in S, NEW r \in Refs[y]
      PROVE  \E i \in Visible(st, r.subject, FALSE) : i.version = r.version /\ st.Schemas[i.id] \in S
  <2>1. y \in Identity /\ r.subject \in Subject
    BY <1>3, ConstantsAssumption DEF Reference
  <2>2. \E i \in st.Subjects[r.subject] : i.version = r.version
    <3>1. CASE y = x.identity
      BY <3>1 DEF Available, HasVersion, Versions, Visible
    <3>2. CASE y # x.identity
      <4>1. PICK s \in Subject : \E i \in st.Subjects[s] : st.Schemas[i.id] = y
        BY <3>2
      <4>2. PICK i \in st.Subjects[s] : st.Schemas[i.id] = y
        BY <4>1
      <4>3. IsActive(i)
        BY <1>4
      <4> QED
        BY <1>1, <4>2, <4>3 DEF WellFormed, ReferencesKept
    <3> QED
      BY <3>1, <3>2
  <2>3. PICK i \in st.Subjects[r.subject] : i.version = r.version
    BY <2>2
  <2>4. st.Schemas[i.id] \in S /\ i \in Visible(st, r.subject, FALSE)
    BY <1>4, <2>1 DEF Visible, IsActive
  <2> QED
    BY <2>3, <2>4
<1> HIDE DEF S
<1> QED
  BY <1>3, <1>5 DEF Parses

\* The version of an item that is left is free in the target.
LEMMA VersionIsFree ==
  ASSUME NEW src, SourceOK(src), NEW inv \in InventoryType, AllRead(src, inv),
         NEW st, NEW pend, NEW rem, NEW prog,
         TargetOK(inv, st, pend, rem), FrozenImport(inv, st, pend, rem, prog),
         NEW x \in pend, NEW i \in st.Subjects[x.subject]
  PROVE  i.version # x.version
<1>1. x \in inv.schemas /\ x.subject \in Subject
  BY DEF TargetOK, InventoryType, ItemType
<1>2. PICK y \in inv.schemas \ (pend \cup rem) : Matches(st, x.subject, i, y)
  BY <1>1 DEF FrozenImport
<1>3. y # x
  BY <1>2
<1> QED
  BY <1>1, <1>2, <1>3, InventoryIsUnique DEF Matches

\* The target knows the schema of an item by the ID of the item.
LEMMA TargetIDs ==
  ASSUME NEW src, SourceOK(src), NEW inv \in InventoryType, AllRead(src, inv),
         NEW st, NEW pend, NEW rem, TargetOK(inv, st, pend, rem), NEW x \in inv.schemas
  PROVE  /\ st.IdentityToID[x.identity] \in {None, x.id}
         /\ st.Schemas[x.id] \in {None, x.identity}
<1>1. WellFormed(st) /\ st \in Snapshot /\ Valid(st)
  BY DEF TargetOK, WellFormed
<1>2. x.identity \in Identity /\ x.id \in Int64
  BY DEF InventoryType, ItemType
<1>3. ASSUME st.IdentityToID[x.identity] # None
      PROVE  st.IdentityToID[x.identity] = x.id
  <2> DEFINE id == st.IdentityToID[x.identity]
  <2>1. id \in Int64 /\ st.Schemas[id] = x.identity /\ x.identity # None
    BY <1>1, <1>2, <1>3, NoneAssumption DEF Snapshot, Valid
  <2> HIDE DEF id
  <2>2. PICK y \in inv.schemas : y.id = id /\ y.identity = st.Schemas[id]
    BY <2>1 DEF TargetOK
  <2> QED
    BY <2>1, <2>2, InventoryIsUnique DEF id
<1>4. ASSUME st.Schemas[x.id] # None
      PROVE  st.Schemas[x.id] = x.identity
  <2>1. PICK y \in inv.schemas : y.id = x.id /\ y.identity = st.Schemas[x.id]
    BY <1>2, <1>4 DEF TargetOK
  <2> QED
    BY <2>1, InventoryIsUnique
<1> QED
  BY <1>3, <1>4

\* Register takes an item with a positive ID.
LEMMA ImportIsAccepted ==
  ASSUME NEW src, SourceOK(src), NEW inv \in InventoryType, AllRead(src, inv),
         NEW st, NEW pend, NEW rem, NEW prog,
         TargetOK(inv, st, pend, rem), FrozenImport(inv, st, pend, rem, prog),
         NEW x \in pend, Available(st, x), x.id >= 1, ~IsDuplicate(st, x.subject, x.identity)
  PROVE  /\ RegisterAllowed(st, ImportCommand(x))
         /\ Applies(st, RegisterEnvelope(st, ImportCommand(x)))
<1> DEFINE c == ImportCommand(x)
           e == RegisterEnvelope(st, c)
           nst == Apply(st, e)
<1>1. WellFormed(st) /\ st \in Snapshot /\ Valid(st)
  BY DEF TargetOK, WellFormed
<1>2. x \in inv.schemas /\ x.subject \in Subject
  BY DEF TargetOK, InventoryType, ItemType
<1>3. /\ x.identity \in Identity /\ x.id \in Int64 /\ x.id < MaxInt
      /\ x.version >= 1 /\ x.version <= MaxInt /\ x.version \in Int64
  BY <1>2, InventoryIsUnique DEF InventoryType, ItemType
<1>4. /\ c.op = NoOperation /\ c.subject = x.subject /\ c.identity = x.identity
      /\ c.id = x.id /\ c.version = x.version
  BY DEF ImportCommand
<1>5. c.id # 0 /\ c.version # 0 /\ ~IsRecorded(st, c.op)
  BY <1>3, <1>4, ConstantsAssumption DEF Int64, IsRecorded
<1>6. st.IdentityToID[x.identity] \in {None, x.id} /\ st.Schemas[x.id] \in {None, x.identity}
  BY <1>2, TargetIDs
<1> HIDE DEF c
<1>7. RegisterID(st, c) = x.id /\ RegisterVersion(st, c) = x.version
  BY <1>4, <1>5, <1>6 DEF RegisterID, RegisterVersion
<1>8. EffectiveMode(st, x.subject) = "IMPORT"
  BY <1>2 DEF FrozenImport, ImportMode, EffectiveMode
<1>9. \A i \in st.Subjects[x.subject] : i.version # x.version
  BY VersionIsFree
<1>10. RegisterAllowed(st, c)
  BY <1>4, <1>5, <1>6, <1>7, <1>8, <1>9 DEF RegisterAllowed, Available, PolicyAccepts
<1>11. /\ e.Sequence = st.Sequence + 1 /\ e.Kind = "schema_registered"
       /\ e.Payload.subject = x.subject /\ e.Payload.identity = x.identity
       /\ e.Payload.id = x.id /\ e.Payload.version = x.version
  BY <1>4, <1>7 DEF RegisterEnvelope, Envelope
<1> HIDE DEF e
<1>12. PayloadFits(st, e)
  BY <1>6, <1>11 DEF PayloadFits, Deletions
<1> DEFINE new == [version |-> x.version, id |-> x.id, seq |-> st.Sequence + 1,
                   deleted |-> FALSE, permanent |-> FALSE]
<1>13. /\ nst.NextSchemaID = IF x.id >= st.NextSchemaID THEN Increment(x.id) ELSE st.NextSchemaID
       /\ nst.Schemas = [st.Schemas EXCEPT ![x.id] = x.identity]
       /\ nst.IdentityToID = [st.IdentityToID EXCEPT ![x.identity] = x.id]
       /\ nst.Subjects = [st.Subjects EXCEPT ![x.subject] = @ \cup {new}]
  <2>1. /\ nst.NextSchemaID = NextSchemaIDAfter(st, e) /\ nst.Schemas = SchemasAfter(st, e)
        /\ nst.IdentityToID = IdentityToIDAfter(st, e) /\ nst.Subjects = SubjectsAfter(st, e)
    BY DEF Apply
  <2> QED
    BY <1>11, <2>1 DEF NextSchemaIDAfter, SchemasAfter, IdentityToIDAfter, SubjectsAfter, NewVersion
<1>14. new.version = x.version /\ new.id = x.id
  OBVIOUS
<1> HIDE DEF nst, new
<1>15. nst.NextSchemaID \in 1 .. MaxInt
  <2>1. st.NextSchemaID \in 1 .. MaxInt /\ MaxInt \in Nat
    BY <1>1, ConstantsAssumption DEF Valid
  <2>2. x.id \in Int
    BY <1>3, <2>1 DEF Int64
  <2> QED
    BY <1>3, <1>13, <2>1, <2>2 DEF Increment
<1>16. \A y \in Identity : nst.IdentityToID[y] # None => nst.Schemas[nst.IdentityToID[y]] = y
  <2> SUFFICES ASSUME NEW y \in Identity, nst.IdentityToID[y] # None
               PROVE  nst.Schemas[nst.IdentityToID[y]] = y
    OBVIOUS
  <2>1. CASE y = x.identity
    BY <1>1, <1>3, <1>13, <2>1 DEF Snapshot
  <2>2. CASE y # x.identity
    <3>1. nst.IdentityToID[y] = st.IdentityToID[y]
      BY <1>1, <1>13, <2>2 DEF Snapshot
    <3>2. st.Schemas[st.IdentityToID[y]] = y /\ st.IdentityToID[y] \in Int64 /\ y # None
      BY <1>1, <3>1, NoneAssumption DEF Valid, Snapshot
    <3>3. st.IdentityToID[y] # x.id
      BY <1>6, <2>2, <3>2
    <3> QED
      BY <1>1, <1>13, <3>1, <3>2, <3>3 DEF Snapshot
  <2> QED
    BY <2>1, <2>2
<1>17. ASSUME NEW s \in Subject, NEW i \in nst.Subjects[s]
       PROVE  /\ i.version \in 1 .. MaxInt
              /\ nst.Schemas[i.id] # None
              /\ \A j \in nst.Subjects[s] : j.version = i.version => j = i
  <2>1. x.version \in 1 .. MaxInt /\ x.identity # None
    BY <1>3, ConstantsAssumption, NoneAssumption DEF Int64
  <2>2. \A k \in st.Subjects[s] : k.id \in Int64 /\ st.Schemas[k.id] # None /\ k.version \in 1 .. MaxInt
    BY <1>1 DEF Valid, Snapshot, SubjectVersion
  <2>3. i.version \in 1 .. MaxInt /\ nst.Schemas[i.id] # None
    BY <1>1, <1>2, <1>3, <1>13, <1>14, <2>1, <2>2 DEF Snapshot
  <2>4. ASSUME NEW j \in nst.Subjects[s], j.version = i.version
        PROVE  j = i
    <3>1. CASE i \in st.Subjects[s] /\ j \in st.Subjects[s]
      BY <1>1, <2>4, <3>1 DEF Valid
    <3>2. CASE s = x.subject
      <4>1. i \in st.Subjects[s] \cup {new} /\ j \in st.Subjects[s] \cup {new}
        BY <1>1, <1>2, <1>13, <3>2 DEF Snapshot
      <4> QED
        BY <1>9, <1>14, <2>4, <3>1, <3>2, <4>1
    <3>3. CASE s # x.subject
      <4>1. nst.Subjects[s] = st.Subjects[s]
        BY <1>1, <1>13, <3>3 DEF Snapshot
      <4> QED
        BY <3>1, <4>1
    <3> QED
      BY <3>2, <3>3
  <2> QED
    BY <2>3, <2>4
<1>18. Valid(nst)
  BY <1>15, <1>16, <1>17 DEF Valid
<1>19. Applies(st, e)
  BY <1>11, <1>12, <1>18 DEF Applies, nst
<1> QED
  BY <1>10, <1>19 DEF c, e

\* The loop goes on after an import.
LEMMA ImportKeepsFrozen ==
  ASSUME NEW inv \in InventoryType,
         NEW st, NEW pend, NEW rem, NEW prog,
         TargetOK(inv, st, pend, rem), FrozenImport(inv, st, pend, rem, prog),
         NEW x \in pend, x.id >= 1, x.version >= 1,
         RegisterAllowed(st, ImportCommand(x)), Applies(st, RegisterEnvelope(st, ImportCommand(x))),
         NEW nst, nst = Apply(st, RegisterEnvelope(st, ImportCommand(x)))
  PROVE  FrozenImport(inv, nst, pend \ {x}, rem, TRUE)
<1>1. x \in inv.schemas /\ x \in ItemType
  BY DEF TargetOK, InventoryType
<1>2. x.subject \in Subject /\ x.id \in Int64
  BY <1>1 DEF ItemType
<1>3. WellFormed(st) /\ st \in Snapshot /\ Valid(st)
  BY DEF TargetOK, WellFormed
<1> DEFINE new == [version |-> x.version, id |-> x.id, seq |-> st.Sequence + 1,
                   deleted |-> FALSE, permanent |-> FALSE]
<1>4. /\ st.Schemas[x.id] \in {None, x.identity}
      /\ nst.Schemas = [st.Schemas EXCEPT ![x.id] = x.identity]
      /\ nst.Subjects = [st.Subjects EXCEPT ![x.subject] = @ \cup {new}]
      /\ nst.GlobalMode = st.GlobalMode /\ nst.SubjectModes = st.SubjectModes
  BY <1>1, <1>3, ImportEffect
<1>5. new.version = x.version /\ new.id = x.id /\ ~new.deleted
  OBVIOUS
<1> HIDE DEF new
<1>6. (pend \ {x}) \cap rem = {} /\ x \notin rem
  BY DEF FrozenImport
<1>7. ImportMode(nst)
  BY <1>4 DEF FrozenImport, ImportMode
<1>8. ASSUME NEW s \in Subject, NEW i \in nst.Subjects[s]
      PROVE  ~i.deleted /\ \E y \in inv.schemas \ ((pend \ {x}) \cup rem) : Matches(nst, s, i, y)
  <2>1. CASE i \in st.Subjects[s]
    <3>1. i.id \in Int64 /\ st.Schemas[i.id] # None
      BY <1>3, <2>1 DEF Valid, Snapshot, SubjectVersion
    <3>2. nst.Schemas[i.id] = st.Schemas[i.id]
      BY <1>2, <1>3, <1>4, <3>1 DEF Snapshot
    <3>3. ~i.deleted /\ \E y \in inv.schemas \ (pend \cup rem) : Matches(st, s, i, y)
      BY <2>1 DEF FrozenImport
    <3> QED
      BY <3>2, <3>3 DEF Matches
  <2>2. CASE i \notin st.Subjects[s]
    <3>1. s = x.subject /\ i = new
      BY <1>2, <1>3, <1>4, <2>2 DEF Snapshot
    <3>2. nst.Schemas[x.id] = x.identity
      BY <1>2, <1>3, <1>4 DEF Snapshot
    <3> QED
      BY <1>1, <1>5, <1>6, <3>1, <3>2 DEF Matches
  <2> QED
    BY <2>1, <2>2
<1>9. ASSUME NEW y \in inv.schemas \ ((pend \ {x}) \cup rem)
      PROVE  \E i \in nst.Subjects[y.subject] : i.id = y.id
  <2>1. y.subject \in Subject
    BY DEF InventoryType, ItemType
  <2>2. CASE y = x
    BY <1>2, <1>3, <1>4, <1>5, <2>2 DEF Snapshot
  <2>3. CASE y # x
    <3>1. PICK i \in st.Subjects[y.subject] : i.id = y.id
      BY <2>3 DEF FrozenImport
    <3>2. i \in nst.Subjects[y.subject]
      BY <1>2, <1>3, <1>4, <2>1, <3>1 DEF Snapshot
    <3> QED
      BY <3>1, <3>2
  <2> QED
    BY <2>2, <2>3
<1> QED
  BY <1>6, <1>7, <1>8, <1>9 DEF FrozenImport

\* So does it after a duplicate, whose schema the subject holds already.
LEMMA DuplicateKeepsFrozen ==
  ASSUME NEW src, SourceOK(src), NEW inv \in InventoryType, AllRead(src, inv),
         NEW st, NEW pend, NEW rem, NEW prog,
         TargetOK(inv, st, pend, rem), FrozenImport(inv, st, pend, rem, prog),
         NEW x \in pend, IsDuplicate(st, x.subject, x.identity)
  PROVE  FrozenImport(inv, st, pend \ {x}, rem, TRUE)
<1>1. x \in inv.schemas /\ x.subject \in Subject
  BY DEF TargetOK, InventoryType, ItemType
<1>2. PICK i \in st.Subjects[x.subject] : i.id = st.IdentityToID[x.identity]
  BY DEF IsDuplicate
<1>3. i.id \in Int64
  BY <1>1 DEF TargetOK, WellFormed, Snapshot, SubjectVersion
<1>4. i.id = x.id
  BY <1>1, <1>2, <1>3, TargetIDs, NoneAssumption
<1>5. ASSUME NEW y \in inv.schemas \ ((pend \ {x}) \cup rem)
      PROVE  \E j \in st.Subjects[y.subject] : j.id = y.id
  BY <1>2, <1>4 DEF FrozenImport
<1>6. \A s \in Subject : \A j \in st.Subjects[s] :
         ~j.deleted /\ \E y \in inv.schemas \ ((pend \ {x}) \cup rem) : Matches(st, s, j, y)
  BY DEF FrozenImport
<1> QED
  BY <1>5, <1>6 DEF FrozenImport

\* A pass that imports nothing leaves a schema whose reference is gone, or
\* whose reference is a repeat the target holds under another version.
LEMMA StuckPassHasACause ==
  ASSUME NEW src, SourceOK(src), NEW inv \in InventoryType, AllRead(src, inv),
         NEW st, NEW rem, TargetOK(inv, st, {}, rem), FrozenImport(inv, st, {}, rem, FALSE), rem # {}
  PROVE  Cause(src)
<1>1. WellFormed(src) /\ src \in Snapshot /\ Valid(src) /\ ReferencesFirst(src)
  BY DEF SourceOK, WellFormed
<1>2. rem \subseteq inv.schemas
  BY DEF TargetOK
<1> DEFINE T == {n \in Nat : \E x \in rem : \E i \in src.Subjects[x.subject] : Shows(src, x, i) /\ i.seq = n}
<1>3. ASSUME NEW x \in rem, NEW i \in src.Subjects[x.subject], Shows(src, x, i)
      PROVE  i.seq \in T
  BY <1>1, <1>2, <1>3 DEF Snapshot, SubjectVersion, InventoryType, ItemType
<1>4. T # {} /\ T \in SUBSET Nat
  <2>1. PICK x \in rem : TRUE
    OBVIOUS
  <2>2. PICK i \in src.Subjects[x.subject] : Shows(src, x, i)
    BY <1>2, InventoryIsContent
  <2> QED
    BY <1>3, <2>2
<1>5. PICK n \in T : \A m \in T : n <= m
  <2> HIDE DEF T
  <2> QED
    BY <1>4, LeastElement
<1>6. PICK x \in rem : \E i \in src.Subjects[x.subject] : Shows(src, x, i) /\ i.seq = n
  OBVIOUS
<1>7. PICK i \in src.Subjects[x.subject] : Shows(src, x, i) /\ i.seq = n
  BY <1>6
<1> HIDE DEF T
<1>8. /\ x \in inv.schemas /\ x.subject \in Subject /\ x.identity \in Identity
      /\ src.Schemas[i.id] = x.identity /\ ~i.permanent /\ i.deleted = x.deleted
  BY <1>2, <1>7 DEF InventoryType, ItemType, Shows
<1>9. PICK r \in Refs[x.identity] : ~HasVersion(st, r.subject, r.version, FALSE)
  BY DEF FrozenImport, Available
<1>10. r.subject \in Subject
  BY <1>8, ConstantsAssumption DEF Reference
<1>11. PICK j \in src.Subjects[r.subject] : j.version = r.version /\ j.seq < i.seq
  BY <1>1, <1>8, <1>9 DEF ReferencesFirst
<1>12. CASE j.permanent
  <2>1. ~HasVersion(src, r.subject, r.version, TRUE)
    BY <1>1, <1>10, <1>11, <1>12 DEF HasVersion, Versions, Visible, Valid
  <2>2. i.deleted
    <3> SUFFICES ASSUME ~i.deleted PROVE FALSE
      OBVIOUS
    <3>1. \E k \in src.Subjects[r.subject] : k.version = r.version /\ ~k.permanent
      BY <1>1, <1>8, <1>9 DEF WellFormed, ReferencesKept, IsActive
    <3> QED
      BY <2>1, <3>1 DEF HasVersion, Versions, Visible
  <2> DEFINE c == [version |-> i.version, id |-> i.id, identity |-> src.Schemas[i.id], deleted |-> i.deleted]
  <2>3. c \in Content(src, x.subject) /\ c.deleted /\ c.identity = x.identity
    BY <1>8, <2>2 DEF Content, Visible
  <2> HIDE DEF c
  <2> QED
    BY <1>8, <1>9, <2>1, <2>3 DEF Cause
<1>13. CASE ~j.permanent
  <2>1. PICK y \in inv.schemas : y.subject = r.subject /\ Shows(src, y, j)
    BY <1>10, <1>13, InventoryIsContent
  <2>2. y \notin rem
    <3> SUFFICES ASSUME y \in rem PROVE FALSE
      OBVIOUS
    <3>1. j.seq \in T
      BY <1>3, <2>1
    <3> QED
      BY <1>4, <1>5, <1>7, <1>11, <3>1
  <2>3. PICK k \in st.Subjects[y.subject] : k.id = y.id
    BY <2>2 DEF FrozenImport
  <2>4. PICK z \in inv.schemas : Matches(st, r.subject, k, z) /\ ~k.deleted /\ ~k.permanent
    BY <1>10, <2>1, <2>3 DEF FrozenImport, TargetOK
  <2>5. y.version = r.version
    BY <1>11, <2>1 DEF Shows
  <2>6. k.version # r.version
    BY <1>9, <2>1, <2>3, <2>4 DEF HasVersion, Versions, Visible
  <2>7. z.subject = y.subject /\ z.id = y.id /\ z.version # y.version
    BY <2>1, <2>3, <2>4, <2>5, <2>6 DEF Matches
  <2> QED
    BY <2>7, RepeatIsACause
<1> QED
  BY <1>12, <1>13

\* A version is in the target if its schema is not a repeat: a deletion that
\* is refused has a cause.
LEMMA RefusedDeletionHasACause ==
  ASSUME NEW src, SourceOK(src), NEW inv \in InventoryType, AllRead(src, inv),
         NEW st, NEW pend, NEW rem, TargetOK(inv, st, pend, rem),
         FrozenDelete(inv, st, pend), ImportMode(st),
         NEW x \in pend, ~DeleteVersionAllowed(st, DeleteCommand(x))
  PROVE  Cause(src)
<1> DEFINE c == DeleteCommand(x)
<1>1. x \in inv.schemas /\ x.subject \in Subject
  BY DEF TargetOK, InventoryType, ItemType
<1>2. c.op = NoOperation /\ c.subject = x.subject /\ c.version = x.version /\ c.permanent = FALSE
  BY DEF DeleteCommand
<1>3. ~HasVersion(st, x.subject, x.version, FALSE)
  <2> HIDE DEF c
  <2>1. EffectiveMode(st, x.subject) = "IMPORT"
    BY <1>1 DEF ImportMode, EffectiveMode
  <2>2. ~DeleteVersionAllowed(st, c)
    BY DEF c
  <2> QED
    BY <1>2, <2>1, <2>2 DEF DeleteVersionAllowed, IsRecorded
<1> HIDE DEF c
<1>4. PICK i \in st.Subjects[x.subject] : i.id = x.id
  BY <1>1 DEF FrozenDelete
<1>5. PICK y \in inv.schemas : Matches(st, x.subject, i, y) /\ (i.deleted <=> y.deleted /\ y \notin pend)
  BY <1>1 DEF FrozenDelete
<1>6. ~i.permanent
  BY <1>1 DEF TargetOK
<1>7. y.version # x.version
  <2> SUFFICES ASSUME y.version = x.version PROVE FALSE
    OBVIOUS
  <2>1. y = x
    BY <1>1, <1>5, InventoryIsUnique DEF Matches
  <2>2. ~i.deleted /\ i.version = x.version
    BY <1>5, <2>1 DEF Matches
  <2> QED
    BY <1>3, <1>6, <2>2 DEF HasVersion, Versions, Visible
<1> QED
  BY <1>1, <1>4, <1>5, <1>7, RepeatIsACause DEF Matches

\* The deletion of a version leaves the others as they are.
LEMMA DeleteKeepsFrozen ==
  ASSUME NEW src, SourceOK(src), NEW inv \in InventoryType, AllRead(src, inv),
         NEW st, NEW pend, NEW rem, TargetOK(inv, st, pend, rem),
         FrozenDelete(inv, st, pend), ImportMode(st),
         NEW x \in pend, DeleteVersionAllowed(st, DeleteCommand(x)),
         NEW nst, nst = Apply(st, DeleteVersionEnvelope(st, DeleteCommand(x)))
  PROVE  FrozenDelete(inv, nst, pend \ {x}) /\ ImportMode(nst)
<1>1. x \in inv.schemas /\ x.subject \in Subject
  BY DEF TargetOK, InventoryType, ItemType
<1>2. /\ nst.Schemas = st.Schemas
      /\ nst.GlobalMode = st.GlobalMode /\ nst.SubjectModes = st.SubjectModes
      /\ \A s \in Subject : \A j \in nst.Subjects[s] : \E i \in st.Subjects[s] :
            /\ j.version = i.version /\ j.id = i.id /\ ~j.permanent
            /\ j.deleted <=> i.deleted \/ (s = x.subject /\ i.version = x.version)
      /\ \A s \in Subject : \A i \in st.Subjects[s] : \E j \in nst.Subjects[s] :
            j.version = i.version /\ j.id = i.id
  BY DeleteEffect
<1>3. ImportMode(nst)
  BY <1>2 DEF ImportMode
<1>4. ASSUME NEW s \in Subject, NEW j \in nst.Subjects[s]
      PROVE  \E y \in inv.schemas :
                Matches(nst, s, j, y) /\ (j.deleted <=> y.deleted /\ y \notin pend \ {x})
  <2>1. PICK i \in st.Subjects[s] :
            /\ j.version = i.version /\ j.id = i.id
            /\ j.deleted <=> i.deleted \/ (s = x.subject /\ i.version = x.version)
    BY <1>2
  <2>2. PICK y \in inv.schemas : Matches(st, s, i, y) /\ (i.deleted <=> y.deleted /\ y \notin pend)
    BY DEF FrozenDelete
  <2>3. Matches(nst, s, j, y)
    BY <1>2, <2>1, <2>2 DEF Matches
  <2>4. s = x.subject /\ i.version = x.version <=> y = x
    BY <1>1, <2>2, InventoryIsUnique DEF Matches
  <2>5. x.deleted
    BY DEF FrozenDelete
  <2> QED
    BY <2>1, <2>2, <2>3, <2>4, <2>5
<1>5. ASSUME NEW y \in inv.schemas
      PROVE  \E j \in nst.Subjects[y.subject] : j.id = y.id
  <2>1. y.subject \in Subject
    BY DEF InventoryType, ItemType
  <2>2. PICK i \in st.Subjects[y.subject] : i.id = y.id
    BY DEF FrozenDelete
  <2> QED
    BY <1>2, <2>1, <2>2
<1> QED
  BY <1>3, <1>4, <1>5 DEF FrozenDelete

-----------------------------------------------------------------------------
(* The steps of the export.                                                *)

\* The order of the listing has one first subject.
LEMMA FirstIsUnique ==
  ASSUME NEW S \in SUBSET Subject, NEW s \in FirstSubject(S), NEW t \in FirstSubject(S)
  PROVE  s = t
<1>1. s \in Subject /\ t \in Subject /\ Rank[s] <= Rank[t] /\ Rank[t] <= Rank[s]
  BY DEF FirstSubject
<1>2. Rank[s] \in Nat /\ Rank[t] \in Nat
  BY <1>1, ExportAssumption
<1>3. Rank[s] = Rank[t]
  BY <1>1, <1>2
<1> QED
  BY <1>1, <1>3, ExportAssumption

\* The tool gives up.
LEMMA FailKeeps ==
  ASSUME ExportInv, Fail, frozen => Cause(source)
  PROVE  ExportInv'
<1>1. Typed'
  BY DEF ExportInv, Typed, Fail, reading, Inventory
<1>2. phase' = "failed" /\ UNCHANGED <<source, frozen, inventory>>
  BY DEF Fail
<1>3. FrozenReading(source, "failed", subjects', queue', active', unread', inventory)
  BY DEF FrozenReading, Inventory, Loop, Building
<1>4. FrozenBuilding("failed", inventory, target', pending', remaining', progress')
  BY DEF FrozenBuilding
<1>5. "failed" \notin Building
  BY DEF Building
<1> QED
  BY <1>1, <1>2, <1>3, <1>4, <1>5 DEF ExportInv

\* A step that reads the source.
LEMMA ReadingKeeps ==
  ASSUME ExportInv, phase = "start" \/ phase \in Inventory, phase' \in Inventory,
         UNCHANGED <<source, frozen, remaining>>,
         queue' \subseteq Subject, subjects' \subseteq Subject,
         inventory' \in InventoryType, AllHeld(source, inventory'),
         frozen => FrozenReading(source, phase', subjects', queue', active', unread', inventory')
  PROVE  ExportInv'
<1>1. Typed'
  BY DEF ExportInv, Typed
<1>2. phase' \notin Building /\ phase' # "failed"
  BY DEF Inventory, Building
<1>3. FrozenBuilding(phase', inventory', target', pending', remaining', progress')
  BY <1>2 DEF FrozenBuilding, Building
<1> QED
  BY <1>1, <1>2, <1>3 DEF ExportInv

\* A step that builds the state.
LEMMA BuildingKeeps ==
  ASSUME ExportInv, phase = "versions" \/ phase \in Building, phase' \in Building,
         UNCHANGED <<source, frozen, reading, inventory>>,
         TargetOK(inventory, target', pending', remaining'),
         frozen => FrozenBuilding(phase', inventory, target', pending', remaining', progress')
  PROVE  ExportInv'
<1>1. phase' \notin Inventory /\ phase' # "start" /\ phase' # "failed" /\ phase' \notin Loop
  BY DEF Inventory, Building, Loop
<1>2. /\ frozen' = frozen /\ queue' = queue /\ subjects' = subjects /\ inventory' = inventory
      /\ source' = source
  BY DEF reading
<1>3. Typed'
  BY <1>1, <1>2 DEF ExportInv, Typed
<1>4. frozen => AllRead(source, inventory)
  BY DEF ExportInv, FrozenReading
<1>5. frozen => FrozenReading(source, phase', subjects', queue', active', unread', inventory)
  BY <1>1, <1>4 DEF FrozenReading
<1> QED
  BY <1>1, <1>2, <1>3, <1>5 DEF ExportInv

\* What the invariant says of the frozen source, for the steps that build.
LEMMA BuildingFacts ==
  ASSUME ExportInv, phase \in Building
  PROVE  /\ SourceOK(source) /\ inventory \in InventoryType
         /\ TargetOK(inventory, target, pending, remaining)
         /\ frozen => AllRead(source, inventory)
         /\ frozen => FrozenBuilding(phase, inventory, target, pending, remaining, progress)
BY DEF ExportInv, Typed, FrozenReading

\* A change of the source, before the export or during it.
LEMMA ChangeKeeps == ASSUME ExportInv, Change PROVE ExportInv'
<1>1. SourceOK(source') /\ AllHeld(source', inventory)
  BY SourceChanges DEF ExportInv, Typed, Change
<1>2. UNCHANGED <<frozen, phase, subjects, queue, active, unread, inventory, target, pending, remaining, progress>>
  BY DEF Change, reading, building
<1>3. Typed'
  BY <1>2 DEF ExportInv, Typed
<1>4. phase \notin Building /\ phase # "failed"
  BY DEF Change, Inventory, Building
<1>5. frozen => phase = "start" /\ inventory = NewInventory
  BY DEF Change, ExportInv, FrozenReading
<1>6. frozen => FrozenReading(source', phase, subjects, queue, active, unread, inventory)
  BY <1>5 DEF FrozenReading, Inventory, Loop, Building
<1>7. FrozenBuilding(phase, inventory, target, pending, remaining, progress)
  BY <1>4 DEF FrozenBuilding, Building
<1> QED
  BY <1>1, <1>2, <1>3, <1>4, <1>6, <1>7 DEF ExportInv

\* A subject that is not listed shows nothing, and an item shows a version.
LEMMA ItemsAreVersions ==
  ASSUME NEW st, NEW s \in Subject
  PROVE  /\ s \notin Shown(st) => ItemsOf(st, s) = {}
         /\ {x.version : x \in ItemsOf(st, s)} = Versions(st, s, TRUE)
<1>1. ASSUME NEW x \in ItemsOf(st, s)
      PROVE  x.version \in Versions(st, s, TRUE)
  <2>1. PICK i \in Visible(st, s, TRUE) :
            x = [subject |-> s, version |-> i.version, id |-> i.id,
                 identity |-> st.Schemas[i.id], deleted |-> i.deleted]
    BY DEF ItemsOf, ItemFor
  <2>2. x.version = i.version
    BY <2>1
  <2> QED
    BY <2>2 DEF Versions
<1>2. ASSUME NEW v \in Versions(st, s, TRUE)
      PROVE  \E x \in ItemsOf(st, s) : x.version = v
  <2>1. PICK i \in Visible(st, s, TRUE) : v = i.version
    BY DEF Versions
  <2> DEFINE x == [subject |-> s, version |-> i.version, id |-> i.id,
                   identity |-> st.Schemas[i.id], deleted |-> i.deleted]
  <2>2. x \in ItemsOf(st, s) /\ x.version = v
    BY <2>1 DEF ItemsOf, ItemFor
  <2> QED
    BY <2>2
<1>3. {x.version : x \in ItemsOf(st, s)} = Versions(st, s, TRUE)
  BY <1>1, <1>2
<1> QED
  BY <1>1, <1>3 DEF Shown

\* The first listing.
LEMMA StartKeeps == ASSUME ExportInv, Start PROVE ExportInv'
<1>1. /\ phase = "start" /\ subjects' = Listing /\ queue' = Listing
      /\ inventory' = [inventory EXCEPT !.globalCompatibility = source.GlobalCompatibility,
                                        !.globalMode = source.GlobalMode]
      /\ phase' = IF Listing = {} THEN "listing" ELSE "active"
      /\ UNCHANGED <<source, frozen, remaining>>
  BY DEF Start, building
<1>2. inventory \in InventoryType /\ source \in Snapshot
  BY DEF ExportInv, Typed, SourceOK, WellFormed
<1>3. inventory' \in InventoryType
  BY <1>1, <1>2 DEF InventoryType, Snapshot
<1>4. /\ inventory'.schemas = inventory.schemas
      /\ GlobalsRead(source, inventory')
  BY <1>1, <1>2 DEF InventoryType, GlobalsRead
<1>5. Listing = Shown(source) /\ Listing \subseteq Subject
  BY DEF Listing, Shown
<1>6. AllHeld(source, inventory')
  BY <1>4 DEF ExportInv, AllHeld
<1>7. ASSUME frozen
      PROVE  FrozenReading(source, phase', subjects', queue', active', unread', inventory')
  <2>1. inventory'.schemas = {}
    BY <1>1, <1>4, <1>7 DEF ExportInv, FrozenReading, NewInventory
  <2>2. \A s \in Subject : Of(inventory', s) = {}
    BY <2>1 DEF Of
  <2>3. \A s \in Subject \ Shown(source) : SubjectRead(source, inventory', s)
    BY <2>2, ItemsAreVersions DEF SubjectRead
  <2>4. CASE Listing = {}
    BY <1>1, <1>4, <1>5, <2>3, <2>4 DEF FrozenReading, AllRead, Inventory, Loop, Building
  <2>5. CASE Listing # {}
    <3>1. \A s \in FirstSubject(queue') : FirstRead(source, "active", s, active', unread', inventory')
      BY <1>1, <1>5, <2>2 DEF FirstRead, FirstSubject
    <3>2. FrozenLoop(source, "active", queue', active', unread', inventory')
      BY <1>1, <1>5, <2>2, <2>3, <3>1 DEF FrozenLoop
    <3> QED
      BY <1>1, <1>4, <1>5, <2>5, <3>2 DEF FrozenReading, Inventory, Loop, Building
  <2> QED
    BY <2>4, <2>5
<1>8. phase' \in Inventory
  BY <1>1 DEF Inventory
<1> QED
  BY <1>1, <1>3, <1>5, <1>6, <1>7, <1>8, ReadingKeeps

\* Where the loop over the subjects of a frozen source is.
LEMMA LoopFacts ==
  ASSUME ExportInv, phase \in Loop
  PROVE  /\ phase \in Inventory
         /\ inventory \in InventoryType /\ queue \subseteq Subject /\ subjects \subseteq Subject
         /\ source \in Snapshot /\ Valid(source)
         /\ frozen => /\ subjects = Shown(source) /\ GlobalsRead(source, inventory)
                      /\ FrozenLoop(source, phase, queue, active, unread, inventory)
<1>1. phase \in Inventory
  BY DEF Loop, Inventory
<1> QED
  BY <1>1 DEF ExportInv, Typed, SourceOK, WellFormed, FrozenReading

\* The invariant of the loop is all there is to show for one of its steps.
LEMMA LoopKeeps ==
  ASSUME ExportInv, phase \in Loop, phase' \in Loop,
         UNCHANGED <<source, frozen, remaining, subjects>>,
         queue' \subseteq Subject, inventory' \in InventoryType, AllHeld(source, inventory'),
         frozen => /\ GlobalsRead(source, inventory')
                   /\ FrozenLoop(source, phase', queue', active', unread', inventory')
  PROVE  ExportInv'
<1>1. /\ phase \in Inventory /\ subjects \subseteq Subject
      /\ frozen => subjects = Shown(source)
  BY LoopFacts
<1>2. /\ phase' \in Inventory /\ phase' # "start" /\ phase' \notin {"listing", "versions"} \cup Building
  BY DEF Loop, Inventory, Building
<1>3. frozen => FrozenReading(source, phase', subjects', queue', active', unread', inventory')
  BY <1>1, <1>2 DEF FrozenReading
<1> QED
  BY <1>1, <1>2, <1>3, ReadingKeeps

\* The active versions of the next subject.
LEMMA ReadActiveKeeps == ASSUME ExportInv, ReadActive PROVE ExportInv'
<1>1. PICK s \in FirstSubject(queue) : active' = Versions(source, s, FALSE)
  BY DEF ReadActive
<1>2. /\ phase = "active" /\ phase' = "all"
      /\ UNCHANGED <<source, frozen, subjects, queue, unread, inventory, remaining>>
  BY DEF ReadActive, building
<1>3. phase \in Loop /\ phase' \in Loop
  BY <1>2 DEF Loop
<1>4. ASSUME frozen
      PROVE  GlobalsRead(source, inventory) /\ FrozenLoop(source, "all", queue, active', unread, inventory)
  <2>1. /\ GlobalsRead(source, inventory) /\ queue \subseteq Subject
        /\ FrozenLoop(source, "active", queue, active, unread, inventory)
    BY <1>2, <1>3, <1>4, LoopFacts
  <2>2. ASSUME NEW t \in FirstSubject(queue)
        PROVE  FirstRead(source, "all", t, active', unread, inventory)
    <3>1. t = s
      BY <1>1, <2>1, FirstIsUnique
    <3>2. FirstRead(source, "active", t, active, unread, inventory)
      BY <2>1 DEF FrozenLoop
    <3> QED
      BY <1>1, <3>1, <3>2 DEF FirstRead
  <2> QED
    BY <2>1, <2>2 DEF FrozenLoop
<1> QED
  BY <1>2, <1>3, <1>4, LoopKeeps, LoopFacts DEF ExportInv

\* All of its versions.
LEMMA ReadAllKeeps == ASSUME ExportInv, ReadAll PROVE ExportInv'
<1>1. PICK s \in FirstSubject(queue) :
        /\ phase = "all"
        /\ IF Versions(source, s, TRUE) = {} THEN Fail
           ELSE /\ unread' = Versions(source, s, TRUE)
                /\ phase' = "version"
                /\ UNCHANGED <<source, frozen, subjects, queue, active, inventory, building>>
  BY DEF ReadAll
<1>2. phase \in Loop /\ "version" \in Loop
  BY <1>1 DEF Loop
<1>3. s \in queue /\ s \in Subject
  BY <1>2, LoopFacts DEF FirstSubject
<1>4. CASE Versions(source, s, TRUE) = {}
  <2>1. ~frozen
    BY <1>2, <1>3, <1>4, LoopFacts DEF FrozenLoop, Shown
  <2> QED
    BY <1>1, <1>4, <2>1, FailKeeps
<1>5. CASE Versions(source, s, TRUE) # {}
  <2>1. /\ unread' = Versions(source, s, TRUE) /\ phase' = "version"
        /\ UNCHANGED <<source, frozen, subjects, queue, active, inventory, remaining>>
    BY <1>1, <1>5 DEF building
  <2>2. ASSUME frozen
        PROVE  GlobalsRead(source, inventory) /\ FrozenLoop(source, "version", queue, active, unread', inventory)
    <3>1. /\ GlobalsRead(source, inventory) /\ queue \subseteq Subject
          /\ FrozenLoop(source, "all", queue, active, unread, inventory)
      BY <1>1, <1>2, <2>2, LoopFacts
    <3>2. ASSUME NEW t \in FirstSubject(queue)
          PROVE  FirstRead(source, "version", t, active, unread', inventory)
      <4>1. t = s
        BY <3>1, FirstIsUnique
      <4>2. Of(inventory, s) = {} /\ active = Versions(source, s, FALSE)
        BY <3>1, <4>1 DEF FrozenLoop, FirstRead
      <4>3. {x \in ItemsOf(source, s) : x.version \notin unread'} = {}
        BY <1>3, <2>1, ItemsAreVersions
      <4> QED
        BY <2>1, <4>1, <4>2, <4>3 DEF FirstRead
    <3> QED
      BY <3>1, <3>2 DEF FrozenLoop
  <2> QED
    BY <1>2, <2>1, <2>2, LoopKeeps, LoopFacts DEF ExportInv
<1> QED
  BY <1>4, <1>5

\* A version of a frozen source is deleted if it is not listed as active.
LEMMA AnswerIsTrue ==
  ASSUME NEW st, st \in Snapshot, Valid(st), NEW s \in Subject, NEW i \in Visible(st, s, TRUE),
         NEW says \in BOOLEAN
  PROVE  (IF says THEN i.deleted ELSE i.version \notin Versions(st, s, FALSE)) = i.deleted
<1>1. i \in st.Subjects[s] /\ i.deleted \in BOOLEAN /\ ~i.permanent
  BY DEF Visible, Snapshot, SubjectVersion
<1>2. i.version \notin Versions(st, s, FALSE) <=> i.deleted
  BY <1>1 DEF Valid, Versions, Visible
<1> QED
  BY <1>1, <1>2

\* The item of a version is the only one with its number.
LEMMA ItemIsUnique ==
  ASSUME NEW st, Valid(st), NEW s \in Subject, NEW i \in Visible(st, s, TRUE)
  PROVE  /\ ItemFor(st, s, i) \in ItemsOf(st, s) /\ ItemFor(st, s, i).version = i.version
         /\ \A y \in ItemsOf(st, s) : y.version = i.version => y = ItemFor(st, s, i)
<1>1. ASSUME NEW y \in ItemsOf(st, s), y.version = i.version
      PROVE  y = ItemFor(st, s, i)
  <2>1. PICK j \in Visible(st, s, TRUE) : y = ItemFor(st, s, j)
    BY DEF ItemsOf
  <2>2. y.version = j.version
    BY <2>1 DEF ItemFor
  <2>3. j = i
    BY <1>1, <2>2 DEF Valid, Visible
  <2> QED
    BY <2>1, <2>3
<1>2. ItemFor(st, s, i) \in ItemsOf(st, s)
  BY DEF ItemsOf
<1>3. ItemFor(st, s, i).version = i.version
  BY DEF ItemFor
<1> QED
  BY <1>1, <1>2, <1>3

\* One version.
LEMMA ReadVersionKeeps == ASSUME ExportInv, ReadVersion PROVE ExportInv'
<1>1. PICK s \in FirstSubject(queue), v \in FirstVersion(unread) :
        /\ phase = "version"
        /\ IF ~HasVersion(source, s, v, TRUE) THEN Fail
           ELSE \E says \in BOOLEAN : \E i \in Visible(source, s, TRUE) :
                /\ i.version = v
                /\ inventory' = [inventory EXCEPT !.schemas =
                      @ \cup {Item(s, i, IF says THEN i.deleted ELSE v \notin active)}]
                /\ unread' = unread \ {v}
                /\ phase' = IF unread = {v} THEN "config" ELSE "version"
                /\ UNCHANGED <<source, frozen, subjects, queue, active, building>>
  BY DEF ReadVersion
<1>2. phase \in Loop /\ "version" \in Loop /\ "config" \in Loop
  BY <1>1 DEF Loop
<1>3. /\ s \in queue /\ s \in Subject /\ queue \subseteq Subject
      /\ source \in Snapshot /\ Valid(source) /\ inventory \in InventoryType
      /\ AllHeld(source, inventory)
  BY <1>2, LoopFacts DEF FirstSubject, ExportInv
<1>4. ASSUME frozen
      PROVE  /\ GlobalsRead(source, inventory)
             /\ FrozenLoop(source, "version", queue, active, unread, inventory)
             /\ unread \subseteq Versions(source, s, TRUE)
             /\ active = Versions(source, s, FALSE)
             /\ Of(inventory, s) = {x \in ItemsOf(source, s) : x.version \notin unread}
  <2>1. GlobalsRead(source, inventory) /\ FrozenLoop(source, "version", queue, active, unread, inventory)
    BY <1>1, <1>2, <1>4, LoopFacts
  <2> QED
    BY <2>1 DEF FrozenLoop, FirstRead
<1>5. CASE ~HasVersion(source, s, v, TRUE)
  <2>1. ~frozen
    BY <1>4, <1>5 DEF HasVersion, FirstVersion
  <2> QED
    BY <1>1, <1>5, <2>1, FailKeeps
<1>6. CASE HasVersion(source, s, v, TRUE)
  <2>1. PICK says \in BOOLEAN, i \in Visible(source, s, TRUE) :
                /\ i.version = v
                /\ inventory' = [inventory EXCEPT !.schemas =
                      @ \cup {Item(s, i, IF says THEN i.deleted ELSE v \notin active)}]
                /\ unread' = unread \ {v}
                /\ phase' = IF unread = {v} THEN "config" ELSE "version"
                /\ UNCHANGED <<source, frozen, subjects, queue, active, building>>
    BY <1>1, <1>6
  <2> DEFINE x == Item(s, i, IF says THEN i.deleted ELSE v \notin active)
  <2>2. x = [subject |-> s, version |-> i.version, id |-> i.id, identity |-> source.Schemas[i.id],
             deleted |-> IF says THEN i.deleted ELSE i.version \notin active]
    BY <2>1 DEF Item
  <2>3. i \in source.Subjects[s] /\ i \in SubjectVersion /\ source.Schemas[i.id] \in Identity
    BY <1>3 DEF Visible, Snapshot, SubjectVersion, Valid
  <2>4. x \in ItemType
    <3>1. (IF says THEN i.deleted ELSE i.version \notin active) \in BOOLEAN
      BY <2>3 DEF SubjectVersion
    <3> QED
      BY <1>3, <2>2, <2>3, <3>1 DEF ItemType, SubjectVersion
  <2>5. x.subject = s /\ Held(source, x)
    BY <2>2, <2>3 DEF Held
  <2>6. inventory' = [inventory EXCEPT !.schemas = @ \cup {x}]
    BY <2>1
  <2> HIDE DEF x
  <2>7. inventory' \in InventoryType /\ inventory'.schemas = inventory.schemas \cup {x}
    BY <1>3, <2>4, <2>6 DEF InventoryType
  <2>8. AllHeld(source, inventory')
    BY <1>3, <2>5, <2>7 DEF AllHeld
  <2>9. /\ inventory'.globalCompatibility = inventory.globalCompatibility
        /\ inventory'.globalMode = inventory.globalMode
        /\ inventory'.subjectCompatibility = inventory.subjectCompatibility
        /\ inventory'.subjectModes = inventory.subjectModes
    BY <1>3, <2>6 DEF InventoryType
  <2>10. phase' \in Loop /\ UNCHANGED <<source, frozen, subjects, queue, active, remaining>>
    BY <1>2, <2>1 DEF building
  <2>11. ASSUME frozen
         PROVE  /\ GlobalsRead(source, inventory')
                /\ FrozenLoop(source, phase', queue, active, unread', inventory')
    <3>1. /\ x \in ItemsOf(source, s) /\ x.version = v
          /\ \A y \in ItemsOf(source, s) : y.version = v => y = x
      <4>1. active = Versions(source, s, FALSE)
        BY <1>4, <2>11
      <4>2. (IF says THEN i.deleted ELSE i.version \notin active) = i.deleted
        <5>1. (IF says THEN i.deleted ELSE i.version \notin Versions(source, s, FALSE)) = i.deleted
          BY <1>3, AnswerIsTrue, Zenon
        <5> QED
          BY <4>1, <5>1
      <4>3. x = ItemFor(source, s, i)
        BY <2>2, <4>2 DEF ItemFor
      <4>4. /\ x \in ItemsOf(source, s) /\ x.version = i.version
            /\ \A y \in ItemsOf(source, s) : y.version = i.version => y = x
        <5>1. i \in Visible(source, s, TRUE)
          OBVIOUS
        <5>2. /\ ItemFor(source, s, i) \in ItemsOf(source, s)
              /\ ItemFor(source, s, i).version = i.version
              /\ \A y \in ItemsOf(source, s) : y.version = i.version => y = ItemFor(source, s, i)
          BY <1>3, <5>1, ItemIsUnique, ZenonT(60)
        <5> QED
          BY <4>3, <5>2
      <4> QED
        BY <2>1, <4>4
    <3>2. Of(inventory', s) = {y \in ItemsOf(source, s) : y.version \notin unread \ {v}}
      <4>1. Of(inventory', s) = Of(inventory, s) \cup {x}
        BY <2>5, <2>7 DEF Of
      <4> QED
        BY <1>4, <2>11, <3>1, <4>1
    <3>3. \A t \in Subject : t # s => Of(inventory', t) = Of(inventory, t)
      BY <2>5, <2>7 DEF Of
    <3>4. GlobalsRead(source, inventory')
      BY <1>4, <2>9, <2>11 DEF GlobalsRead
    <3>5. \A t \in Subject \ queue : SubjectRead(source, inventory', t)
      <4>1. \A t \in Subject \ queue : SubjectRead(source, inventory, t) /\ t # s
        BY <1>3, <1>4, <2>11 DEF FrozenLoop
      <4> QED
        BY <2>9, <3>3, <4>1 DEF SubjectRead
    <3>6. \A t \in queue : t \notin FirstSubject(queue) => Of(inventory', t) = {}
      <4>1. \A t \in queue : t \notin FirstSubject(queue) => Of(inventory, t) = {} /\ t # s
        BY <1>1, <1>4, <2>11 DEF FrozenLoop
      <4> QED
        BY <1>3, <3>3, <4>1
    <3>7. ASSUME NEW t \in FirstSubject(queue)
          PROVE  FirstRead(source, phase', t, active, unread', inventory')
      <4>1. t = s
        BY <1>1, <1>3, FirstIsUnique
      <4>2. CASE unread = {v}
        <5>1. phase' = "config"
          BY <2>1, <4>2
        <5>2. Of(inventory', s) = ItemsOf(source, s)
          BY <3>2, <4>2
        <5> QED
          BY <4>1, <5>1, <5>2 DEF FirstRead
      <4>3. CASE unread # {v}
        <5>1. phase' = "version"
          BY <2>1, <4>3
        <5>2. unread' = unread \ {v} /\ unread' \subseteq Versions(source, s, TRUE)
          BY <1>4, <2>1, <2>11
        <5> QED
          BY <1>4, <2>11, <3>2, <4>1, <5>1, <5>2 DEF FirstRead
      <4> QED
        BY <4>2, <4>3
    <3>8. queue \subseteq Shown(source)
      BY <1>4, <2>11 DEF FrozenLoop
    <3> QED
      BY <3>4, <3>5, <3>6, <3>7, <3>8 DEF FrozenLoop
  <2> QED
    BY <1>2, <1>3, <2>7, <2>8, <2>10, <2>11, LoopKeeps
<1> QED
  BY <1>5, <1>6

\* The level of the subject.
LEMMA ReadConfigKeeps == ASSUME ExportInv, ReadConfig PROVE ExportInv'
<1>1. PICK s \in FirstSubject(queue) :
        /\ phase = "config" /\ phase' = "mode"
        /\ inventory' = [inventory EXCEPT !.subjectCompatibility =
                            [@ EXCEPT ![s] = source.SubjectCompatibility[s]]]
        /\ UNCHANGED <<source, frozen, reading, building>>
  BY DEF ReadConfig
<1>2. UNCHANGED <<source, frozen, subjects, queue, active, unread, remaining>>
  BY <1>1 DEF reading, building
<1>3. phase \in Loop /\ phase' \in Loop
  BY <1>1 DEF Loop
<1>4. /\ s \in queue /\ s \in Subject /\ queue \subseteq Subject
      /\ source \in Snapshot /\ inventory \in InventoryType
  BY <1>3, LoopFacts DEF FirstSubject
<1>5. /\ inventory'.schemas = inventory.schemas
      /\ inventory'.globalCompatibility = inventory.globalCompatibility
      /\ inventory'.globalMode = inventory.globalMode
      /\ inventory'.subjectModes = inventory.subjectModes
      /\ inventory'.subjectCompatibility =
            [inventory.subjectCompatibility EXCEPT ![s] = source.SubjectCompatibility[s]]
      /\ inventory.subjectCompatibility \in [Subject -> Levels \cup {None}]
  BY <1>1, <1>4 DEF InventoryType
<1>6. inventory' \in InventoryType
  <2>1. inventory'.subjectCompatibility \in [Subject -> Levels \cup {None}]
    BY <1>4, <1>5 DEF Snapshot
  <2> QED
    BY <1>1, <1>4, <1>5, <2>1 DEF InventoryType
<1>7. AllHeld(source, inventory')
  BY <1>5 DEF AllHeld, ExportInv
<1>8. ASSUME frozen
      PROVE  /\ GlobalsRead(source, inventory')
             /\ FrozenLoop(source, "mode", queue, active, unread, inventory')
  <2>1. /\ GlobalsRead(source, inventory)
        /\ FrozenLoop(source, "config", queue, active, unread, inventory)
    BY <1>1, <1>3, <1>8, LoopFacts
  <2>2. \A t : Of(inventory', t) = Of(inventory, t)
    BY <1>5 DEF Of
  <2>3. GlobalsRead(source, inventory')
    BY <1>5, <2>1 DEF GlobalsRead
  <2>4. \A t \in Subject \ queue : SubjectRead(source, inventory', t)
    BY <1>4, <1>5, <2>1, <2>2 DEF FrozenLoop, SubjectRead
  <2>5. ASSUME NEW t \in FirstSubject(queue)
        PROVE  FirstRead(source, "mode", t, active, unread, inventory')
    <3>1. t = s
      BY <1>4, FirstIsUnique
    <3>2. FirstRead(source, "config", t, active, unread, inventory)
      BY <2>1 DEF FrozenLoop
    <3> QED
      BY <1>4, <1>5, <2>2, <3>1, <3>2 DEF FirstRead
  <2> QED
    BY <2>1, <2>2, <2>3, <2>4, <2>5 DEF FrozenLoop
<1> QED
  BY <1>1, <1>2, <1>3, <1>4, <1>6, <1>7, <1>8, LoopKeeps

\* Its mode, which ends the subject.
LEMMA ReadModeKeeps == ASSUME ExportInv, ReadMode PROVE ExportInv'
<1>1. PICK s \in FirstSubject(queue) :
        /\ phase = "mode"
        /\ inventory' = [inventory EXCEPT !.subjectModes = [@ EXCEPT ![s] = source.SubjectModes[s]]]
        /\ queue' = queue \ {s}
        /\ phase' = IF queue = {s} THEN "listing" ELSE "active"
        /\ UNCHANGED <<source, frozen, subjects, active, unread, building>>
  BY DEF ReadMode
<1>2. UNCHANGED <<source, frozen, subjects, active, unread, remaining>>
  BY <1>1 DEF building
<1>3. phase \in Loop
  BY <1>1 DEF Loop
<1>4. /\ s \in queue /\ s \in Subject /\ queue \subseteq Subject /\ subjects \subseteq Subject
      /\ source \in Snapshot /\ inventory \in InventoryType /\ phase \in Inventory
  BY <1>3, LoopFacts DEF FirstSubject
<1>5. /\ inventory'.schemas = inventory.schemas
      /\ inventory'.globalCompatibility = inventory.globalCompatibility
      /\ inventory'.globalMode = inventory.globalMode
      /\ inventory'.subjectCompatibility = inventory.subjectCompatibility
      /\ inventory'.subjectModes = [inventory.subjectModes EXCEPT ![s] = source.SubjectModes[s]]
      /\ inventory.subjectModes \in [Subject -> Modes \cup {None}]
  BY <1>1, <1>4 DEF InventoryType
<1>6. inventory' \in InventoryType
  <2>1. inventory'.subjectModes \in [Subject -> Modes \cup {None}]
    BY <1>4, <1>5 DEF Snapshot
  <2> QED
    BY <1>1, <1>4, <1>5, <2>1 DEF InventoryType
<1>7. AllHeld(source, inventory')
  BY <1>5 DEF AllHeld, ExportInv
<1>8. ASSUME frozen
      PROVE  FrozenReading(source, phase', subjects, queue', active, unread, inventory')
  <2>1. /\ GlobalsRead(source, inventory) /\ subjects = Shown(source)
        /\ FrozenLoop(source, "mode", queue, active, unread, inventory)
    BY <1>1, <1>3, <1>8, LoopFacts
  <2>2. \A t : Of(inventory', t) = Of(inventory, t)
    BY <1>5 DEF Of
  <2>3. GlobalsRead(source, inventory')
    BY <1>5, <2>1 DEF GlobalsRead
  <2>4. SubjectRead(source, inventory', s)
    <3>1. FirstRead(source, "mode", s, active, unread, inventory)
      BY <2>1 DEF FrozenLoop
    <3> QED
      BY <1>4, <1>5, <2>2, <3>1 DEF FirstRead, SubjectRead
  <2>5. \A t \in Subject \ queue : SubjectRead(source, inventory', t)
    BY <1>4, <1>5, <2>1, <2>2 DEF FrozenLoop, SubjectRead
  <2>6. \A t \in Subject \ queue' : SubjectRead(source, inventory', t)
    BY <1>1, <2>4, <2>5
  <2>7. CASE queue = {s}
    <3>1. phase' = "listing" /\ queue' = {}
      BY <1>1, <2>7
    <3>2. AllRead(source, inventory')
      BY <2>3, <2>6, <3>1 DEF AllRead
    <3> QED
      BY <2>1, <3>1, <3>2 DEF FrozenReading, Loop, Inventory
  <2>8. CASE queue # {s}
    <3>1. phase' = "active"
      BY <1>1, <2>8
    <3>2. \A t \in queue' : Of(inventory', t) = {}
      <4>1. \A t \in queue' : t \in queue /\ t \notin FirstSubject(queue)
        BY <1>1, <1>4, FirstIsUnique
      <4> QED
        BY <2>1, <2>2, <4>1 DEF FrozenLoop
    <3>3. \A t \in FirstSubject(queue') : FirstRead(source, "active", t, active, unread, inventory')
      BY <3>2 DEF FirstSubject, FirstRead
    <3>4. FrozenLoop(source, "active", queue', active, unread, inventory')
      BY <1>1, <2>1, <2>6, <3>2, <3>3 DEF FrozenLoop
    <3> QED
      BY <2>1, <2>3, <3>1, <3>4 DEF FrozenReading, Loop, Inventory, Building
  <2> QED
    BY <2>7, <2>8
<1>9. phase' \in Inventory /\ queue' \subseteq Subject
  BY <1>1, <1>4 DEF Inventory
<1> QED
  BY <1>2, <1>4, <1>6, <1>7, <1>8, <1>9, ReadingKeeps

\* The second listing of subjects.
LEMMA ListAgainKeeps == ASSUME ExportInv, ListAgain PROVE ExportInv'
<1>1. phase = "listing" /\ phase \in Inventory
  BY DEF ListAgain, Inventory
<1>2. /\ inventory \in InventoryType /\ subjects \subseteq Subject /\ AllHeld(source, inventory)
      /\ frozen => subjects = Shown(source) /\ AllRead(source, inventory)
  BY <1>1 DEF ExportInv, Typed, FrozenReading
<1>3. CASE Listing # subjects
  <2>1. ~frozen
    BY <1>2, <1>3 DEF Listing, Shown
  <2> QED
    BY <1>3, <2>1, FailKeeps DEF ListAgain
<1>4. CASE Listing = subjects
  <2>1. /\ queue' = subjects /\ phase' = "versions"
        /\ UNCHANGED <<source, frozen, subjects, active, unread, inventory, remaining>>
    BY <1>4 DEF ListAgain, building
  <2>2. frozen => FrozenReading(source, phase', subjects', queue', active', unread', inventory')
    BY <1>2, <2>1 DEF FrozenReading, Loop, Inventory
  <2>3. phase' \in Inventory
    BY <2>1 DEF Inventory
  <2> QED
    BY <1>1, <1>2, <2>1, <2>2, <2>3, ReadingKeeps
<1> QED
  BY <1>3, <1>4

\* The second listing of the versions of a subject.
LEMMA ListVersionsAgainKeeps == ASSUME ExportInv, ListVersionsAgain PROVE ExportInv'
<1>1. PICK s \in FirstSubject(queue) :
        /\ phase = "versions"
        /\ IF {x.version : x \in {y \in inventory.schemas : y.subject = s}} # Versions(source, s, TRUE)
           THEN Fail
           ELSE /\ queue' = queue \ {s}
                /\ UNCHANGED <<source, frozen, phase, subjects, active, unread, inventory, building>>
  BY DEF ListVersionsAgain
<1>2. phase \in Inventory
  BY <1>1 DEF Inventory
<1>3. /\ inventory \in InventoryType /\ subjects \subseteq Subject /\ AllHeld(source, inventory)
      /\ queue \subseteq Subject /\ s \in Subject
      /\ frozen => subjects = Shown(source) /\ AllRead(source, inventory)
  BY <1>1, <1>2 DEF ExportInv, Typed, FrozenReading, FirstSubject
<1>4. CASE {x.version : x \in {y \in inventory.schemas : y.subject = s}} # Versions(source, s, TRUE)
  <2>1. ASSUME frozen PROVE FALSE
    <3>1. {y \in inventory.schemas : y.subject = s} = ItemsOf(source, s)
      BY <1>3, <2>1 DEF AllRead, SubjectRead, Of
    <3> QED
      BY <1>3, <1>4, <3>1, ItemsAreVersions
  <2> QED
    BY <1>1, <1>4, <2>1, FailKeeps
<1>5. CASE {x.version : x \in {y \in inventory.schemas : y.subject = s}} = Versions(source, s, TRUE)
  <2>1. /\ queue' = queue \ {s}
        /\ UNCHANGED <<source, frozen, phase, subjects, active, unread, inventory, remaining>>
    BY <1>1, <1>5 DEF building
  <2>2. frozen => FrozenReading(source, phase', subjects', queue', active', unread', inventory')
    BY <1>1, <1>3, <2>1 DEF FrozenReading, Loop, Inventory
  <2>3. queue' \subseteq Subject
    BY <1>3, <2>1
  <2> QED
    BY <1>2, <1>3, <2>1, <2>2, <2>3, ReadingKeeps
<1> QED
  BY <1>4, <1>5

\* The fresh machine.
LEMMA StartBuildKeeps == ASSUME ExportInv, StartBuild PROVE ExportInv'
<1>1. /\ phase = "versions" /\ phase' = "import" /\ pending' = inventory.schemas
      /\ target' = Apply(NewState, SetModeEnvelope(NewState, ModeCommand(Global, "IMPORT")))
      /\ UNCHANGED <<source, frozen, reading, inventory, remaining>>
  BY DEF StartBuild
<1>2. remaining' = {}
  BY <1>1 DEF ExportInv, Typed, Inventory
<1>3. /\ WellFormed(target') /\ ImportMode(target')
      /\ target'.Subjects = [s \in Subject |-> {}] /\ target'.Schemas = [id \in Int64 |-> None]
  BY <1>1, FreshTarget
<1>4. TargetOK(inventory, target', pending', remaining')
  BY <1>1, <1>2, <1>3 DEF TargetOK, ReferencesFirst
<1>5. FrozenBuilding(phase', inventory, target', pending', remaining', progress')
  BY <1>1, <1>2, <1>3 DEF FrozenBuilding, FrozenImport
<1>6. phase' \in Building
  BY <1>1 DEF Building
<1> QED
  BY <1>1, <1>4, <1>5, <1>6, BuildingKeeps

\* An item that waits for its references.
LEMMA PostponeKeeps == ASSUME ExportInv, Postpone PROVE ExportInv'
<1>1. PICK x \in FirstItem(pending) :
        /\ phase = "import" /\ ~ReferencesAvailable(x)
        /\ remaining' = remaining \cup {x} /\ pending' = pending \ {x}
        /\ UNCHANGED <<source, frozen, phase, reading, inventory, target, progress>>
  BY DEF Postpone
<1>2. phase \in Building /\ x \in pending
  BY <1>1 DEF Building, FirstItem
<1>3. TargetOK(inventory, target, pending', remaining')
  BY <1>1, <1>2, BuildingFacts DEF TargetOK
<1>4. ASSUME frozen
      PROVE  FrozenBuilding("import", inventory, target, pending', remaining', progress)
  <2>1. FrozenImport(inventory, target, pending, remaining, progress)
    BY <1>1, <1>2, <1>4, BuildingFacts DEF FrozenBuilding
  <2>2. pending' \cup remaining' = pending \cup remaining /\ pending' \cap remaining' = {}
    BY <1>1, <1>2, <2>1 DEF FrozenImport
  <2>3. ~Available(target, x)
    BY <1>1 DEF ReferencesAvailable, Available
  <2>4. FrozenImport(inventory, target, pending', remaining', progress)
    BY <1>1, <2>1, <2>2, <2>3 DEF FrozenImport
  <2> QED
    BY <2>4 DEF FrozenBuilding
<1> QED
  BY <1>1, <1>2, <1>3, <1>4, BuildingKeeps

\* An item that is imported, found to be a duplicate, or refused.
LEMMA ImportKeeps == ASSUME ExportInv, Import PROVE ExportInv'
<1>1. PICK x \in FirstItem(pending) :
        /\ phase = "import"
        /\ ReferencesAvailable(x)
        /\ IF Accepted(x)
           THEN /\ target' = IF IsDuplicate(target, x.subject, x.identity) THEN target
                             ELSE Apply(target, RegisterEnvelope(target, ImportCommand(x)))
                /\ pending' = pending \ {x}
                /\ progress' = TRUE
                /\ UNCHANGED <<source, frozen, phase, reading, inventory, remaining>>
           ELSE Fail
  BY DEF Import
<1>2. phase \in Building /\ x \in pending /\ Available(target, x)
  BY <1>1 DEF Building, FirstItem, ReferencesAvailable, Available
<1>3. /\ SourceOK(source) /\ inventory \in InventoryType
      /\ TargetOK(inventory, target, pending, remaining)
      /\ frozen => AllRead(source, inventory)
      /\ frozen => FrozenImport(inventory, target, pending, remaining, progress)
  BY <1>1, <1>2, BuildingFacts DEF FrozenBuilding
<1>4. x \in inventory.schemas /\ x.id \in Int
  BY <1>2, <1>3, ConstantsAssumption DEF TargetOK, InventoryType, ItemType, Int64
<1>5. CASE ~Accepted(x)
  <2>1. ASSUME frozen, x.id >= 1 PROVE FALSE
    <3>1. Parses(target, x.identity)
      BY <1>2, <1>3, <2>1, ImportParses
    <3>2. x.version >= 1
      BY <1>3, <1>4, <2>1, InventoryIsUnique
    <3>3. ~IsDuplicate(target, x.subject, x.identity) =>
             /\ RegisterAllowed(target, ImportCommand(x))
             /\ Applies(target, RegisterEnvelope(target, ImportCommand(x)))
      BY <1>2, <1>3, <2>1, ImportIsAccepted
    <3> QED
      BY <1>5, <2>1, <3>1, <3>2, <3>3 DEF Accepted
  <2>2. frozen => x.id < 1
    BY <1>4, <2>1
  <2>3. frozen => Cause(source)
    BY <1>3, <1>4, <2>2, BadIDIsACause
  <2> QED
    BY <1>1, <1>5, <2>3, FailKeeps
<1>6. CASE Accepted(x) /\ IsDuplicate(target, x.subject, x.identity)
  <2>1. /\ target' = target /\ pending' = pending \ {x} /\ progress' = TRUE
        /\ UNCHANGED <<source, frozen, phase, reading, inventory, remaining>>
    BY <1>1, <1>6
  <2>2. TargetOK(inventory, target', pending', remaining')
    BY <1>3, <2>1 DEF TargetOK
  <2>3. frozen => FrozenImport(inventory, target', pending', remaining', progress')
    BY <1>2, <1>3, <1>6, <2>1, DuplicateKeepsFrozen
  <2>4. frozen => FrozenBuilding(phase', inventory, target', pending', remaining', progress')
    BY <1>1, <2>1, <2>3 DEF FrozenBuilding
  <2> QED
    BY <1>2, <2>1, <2>2, <2>4, BuildingKeeps
<1>7. CASE Accepted(x) /\ ~IsDuplicate(target, x.subject, x.identity)
  <2>1. /\ target' = Apply(target, RegisterEnvelope(target, ImportCommand(x)))
        /\ pending' = pending \ {x} /\ progress' = TRUE
        /\ UNCHANGED <<source, frozen, phase, reading, inventory, remaining>>
    BY <1>1, <1>7
  <2>2. /\ x.id >= 1 /\ x.version >= 1
        /\ RegisterAllowed(target, ImportCommand(x))
        /\ Applies(target, RegisterEnvelope(target, ImportCommand(x)))
    BY <1>7 DEF Accepted
  <2>3. TargetOK(inventory, target', pending', remaining')
    BY <1>2, <1>3, <2>1, <2>2, ImportKeepsTarget
  <2>4. frozen => FrozenImport(inventory, target', pending', remaining', progress')
    BY <1>2, <1>3, <2>1, <2>2, ImportKeepsFrozen
  <2>5. frozen => FrozenBuilding(phase', inventory, target', pending', remaining', progress')
    BY <1>1, <2>1, <2>4 DEF FrozenBuilding
  <2> QED
    BY <1>2, <2>1, <2>3, <2>5, BuildingKeeps
<1> QED
  BY <1>5, <1>6, <1>7

\* The end of a pass that postponed items.
LEMMA EndPassKeeps == ASSUME ExportInv, EndPass PROVE ExportInv'
<1>1. phase = "import" /\ pending = {} /\ remaining # {} /\ phase \in Building
  BY DEF EndPass, Building
<1>2. /\ SourceOK(source) /\ inventory \in InventoryType
      /\ TargetOK(inventory, target, {}, remaining)
      /\ frozen => AllRead(source, inventory)
      /\ frozen => FrozenImport(inventory, target, {}, remaining, progress)
  BY <1>1, BuildingFacts DEF FrozenBuilding
<1>3. CASE ~progress
  <2>1. frozen => FrozenImport(inventory, target, {}, remaining, FALSE)
    BY <1>2, <1>3 DEF FrozenImport
  <2>2. frozen => Cause(source)
    BY <1>1, <1>2, <2>1, StuckPassHasACause
  <2> QED
    BY <1>3, <2>2, FailKeeps DEF EndPass
<1>4. CASE progress
  <2>1. /\ pending' = remaining /\ remaining' = {} /\ progress' = FALSE
        /\ UNCHANGED <<source, frozen, phase, reading, inventory, target>>
    BY <1>4 DEF EndPass
  <2>2. TargetOK(inventory, target', pending', remaining')
    BY <1>2, <2>1 DEF TargetOK
  <2>3. frozen => FrozenImport(inventory, target, remaining, {}, FALSE)
    BY <1>2 DEF FrozenImport
  <2>4. frozen => FrozenBuilding(phase', inventory, target', pending', remaining', progress')
    BY <1>1, <2>1, <2>3 DEF FrozenBuilding
  <2> QED
    BY <1>1, <2>1, <2>2, <2>4, BuildingKeeps
<1> QED
  BY <1>3, <1>4

\* The end of the last pass.
LEMMA EndImportKeeps == ASSUME ExportInv, EndImport PROVE ExportInv'
<1>1. /\ phase = "import" /\ pending = {} /\ remaining = {} /\ phase' = "delete"
      /\ pending' = {x \in inventory.schemas : x.deleted}
      /\ UNCHANGED <<source, frozen, reading, inventory, target, remaining, progress>>
  BY DEF EndImport
<1>2. phase \in Building /\ phase' \in Building
  BY <1>1 DEF Building
<1>3. TargetOK(inventory, target', pending', remaining')
  BY <1>1, <1>2, BuildingFacts DEF TargetOK
<1>4. ASSUME frozen
      PROVE  FrozenDelete(inventory, target, pending') /\ ImportMode(target)
  <2>1. FrozenImport(inventory, target, {}, {}, progress)
    BY <1>1, <1>2, <1>4, BuildingFacts DEF FrozenBuilding
  <2> QED
    BY <1>1, <2>1 DEF FrozenImport, FrozenDelete
<1>5. frozen => FrozenBuilding(phase', inventory, target', pending', remaining', progress')
  BY <1>1, <1>4 DEF FrozenBuilding
<1> QED
  BY <1>1, <1>2, <1>3, <1>5, BuildingKeeps

\* The replay of a soft deletion.
LEMMA DeleteKeeps == ASSUME ExportInv, Delete PROVE ExportInv'
<1>1. PICK x \in FirstItem(pending) :
        /\ phase = "delete"
        /\ IF ~DeleteVersionAllowed(target, DeleteCommand(x)) THEN Fail
           ELSE /\ target' = Apply(target, DeleteVersionEnvelope(target, DeleteCommand(x)))
                /\ pending' = pending \ {x}
                /\ UNCHANGED <<source, frozen, phase, reading, inventory, remaining, progress>>
  BY DEF Delete
<1>2. phase \in Building /\ x \in pending
  BY <1>1 DEF Building, FirstItem
<1>3. /\ SourceOK(source) /\ inventory \in InventoryType
      /\ TargetOK(inventory, target, pending, remaining)
      /\ frozen => AllRead(source, inventory)
      /\ frozen => FrozenDelete(inventory, target, pending) /\ ImportMode(target)
  BY <1>1, <1>2, BuildingFacts DEF FrozenBuilding
<1>4. CASE ~DeleteVersionAllowed(target, DeleteCommand(x))
  <2>1. frozen => Cause(source)
    BY <1>2, <1>3, <1>4, RefusedDeletionHasACause
  <2> QED
    BY <1>1, <1>4, <2>1, FailKeeps
<1>5. CASE DeleteVersionAllowed(target, DeleteCommand(x))
  <2>1. /\ target' = Apply(target, DeleteVersionEnvelope(target, DeleteCommand(x)))
        /\ pending' = pending \ {x}
        /\ UNCHANGED <<source, frozen, phase, reading, inventory, remaining, progress>>
    BY <1>1, <1>5
  <2>2. TargetOK(inventory, target', pending', remaining')
    BY <1>2, <1>3, <1>5, <2>1, DeleteKeepsTarget
  <2>3. frozen => FrozenDelete(inventory, target', pending') /\ ImportMode(target')
    BY <1>2, <1>3, <1>5, <2>1, DeleteKeepsFrozen
  <2>4. frozen => FrozenBuilding(phase', inventory, target', pending', remaining', progress')
    BY <1>1, <2>1, <2>3 DEF FrozenBuilding
  <2> QED
    BY <1>2, <2>1, <2>2, <2>4, BuildingKeeps
<1> QED
  BY <1>4, <1>5

\* Levels and modes.
LEMMA ConfigureKeeps == ASSUME ExportInv, Configure PROVE ExportInv'
<1> DEFINE n == 2 + Cardinality({s \in Subject : inventory.subjectCompatibility[s] # None})
                  + Cardinality({s \in Subject : inventory.subjectModes[s] # None})
<1>1. /\ phase = "delete" /\ pending = {} /\ phase' = "done"
      /\ target' = [target EXCEPT
              !.Sequence = @ + 2 + Cardinality({s \in Subject : inventory.subjectCompatibility[s] # None})
                             + Cardinality({s \in Subject : inventory.subjectModes[s] # None}),
              !.GlobalCompatibility = inventory.globalCompatibility,
              !.SubjectCompatibility = inventory.subjectCompatibility,
              !.SubjectModes = inventory.subjectModes,
              !.GlobalMode = inventory.globalMode]
      /\ UNCHANGED <<source, frozen, reading, inventory, pending, remaining, progress>>
  BY DEF Configure
<1>2. phase \in Building /\ phase' \in Building
  BY <1>1 DEF Building
<1>3. /\ inventory \in InventoryType /\ TargetOK(inventory, target, pending, remaining)
      /\ frozen => FrozenDelete(inventory, target, {})
  BY <1>1, <1>2, BuildingFacts DEF FrozenBuilding
<1>4. /\ Cardinality({s \in Subject : inventory.subjectCompatibility[s] # None}) \in Nat
      /\ Cardinality({s \in Subject : inventory.subjectModes[s] # None}) \in Nat
  BY ExportAssumption, FS_Subset, FS_CardinalityType
<1>5. n \in Nat /\ target.Sequence \in Nat
  BY <1>3, <1>4 DEF TargetOK, WellFormed, Snapshot
<1>6. target.Sequence + 2 + Cardinality({s \in Subject : inventory.subjectCompatibility[s] # None})
         + Cardinality({s \in Subject : inventory.subjectModes[s] # None}) = target.Sequence + n
  BY <1>4, <1>5
<1> HIDE DEF n
<1>7. target' = [target EXCEPT !.Sequence = @ + n,
                               !.GlobalCompatibility = inventory.globalCompatibility,
                               !.SubjectCompatibility = inventory.subjectCompatibility,
                               !.SubjectModes = inventory.subjectModes,
                               !.GlobalMode = inventory.globalMode]
  BY <1>1, <1>6
<1>8. TargetOK(inventory, target', pending, remaining) /\ Configured(inventory, target')
  BY <1>3, <1>5, <1>7, ConfigureKeepsTarget
<1>9. target'.Subjects = target.Subjects /\ target'.Schemas = target.Schemas
  BY <1>3, <1>7 DEF TargetOK, WellFormed, Snapshot
<1>10. frozen => FrozenDelete(inventory, target', {})
  BY <1>3, <1>9 DEF FrozenDelete, Matches
<1>11. frozen => FrozenBuilding(phase', inventory, target', pending', remaining', progress')
  BY <1>1, <1>8, <1>10 DEF FrozenBuilding
<1> QED
  BY <1>1, <1>2, <1>8, <1>11, BuildingKeeps

-----------------------------------------------------------------------------
(* The theorems.                                                           *)

\* Nothing is read yet.
LEMMA InitHolds == Init => ExportInv
<1> SUFFICES ASSUME Init PROVE ExportInv
  OBVIOUS
<1>1. NewInventory \in InventoryType
  BY DEF NewInventory, InventoryType, Levels, Modes
<1>2. Typed
  BY <1>1 DEF Init, Typed
<1>3. SourceOK(NewState)
  BY NewStateWellFormed DEF SourceOK, ReferencesFirst, NewState
<1>4. AllHeld(source, inventory)
  BY DEF Init, AllHeld, NewInventory
<1>5. phase \notin Building /\ phase \notin Inventory /\ phase \notin Loop
  BY DEF Init, Building, Inventory, Loop
<1>6. FrozenReading(source, phase, subjects, queue, active, unread, inventory)
  BY <1>5 DEF Init, FrozenReading
<1>7. FrozenBuilding(phase, inventory, target, pending, remaining, progress)
  BY DEF Init, FrozenBuilding
<1> QED
  BY <1>2, <1>3, <1>4, <1>5, <1>6, <1>7 DEF Init, ExportInv

\* Every step keeps the invariant.
LEMMA StepHolds == ExportInv /\ [Next]_vars => ExportInv'
<1> SUFFICES ASSUME ExportInv, [Next]_vars
             PROVE  ExportInv'
  OBVIOUS
<1>1. CASE Change
  BY <1>1, ChangeKeeps
<1>2. CASE Read
  BY <1>2, StartKeeps, ReadActiveKeeps, ReadAllKeeps, ReadVersionKeeps, ReadConfigKeeps,
     ReadModeKeeps, ListAgainKeeps, ListVersionsAgainKeeps DEF Read
<1>3. CASE Build
  BY <1>3, StartBuildKeeps, PostponeKeeps, ImportKeeps, EndPassKeeps, EndImportKeeps, DeleteKeeps,
     ConfigureKeeps DEF Build
<1>4. CASE UNCHANGED vars
  <2>1. UNCHANGED <<source, frozen, phase, subjects, queue, active, unread, inventory, target,
                    pending, remaining, progress>>
    BY <1>4 DEF vars, reading, building
  <2> QED
    BY <2>1 DEF ExportInv, Typed
<1> QED
  BY <1>1, <1>2, <1>3, <1>4 DEF Next

\* The invariant of the export.
LEMMA InvariantHolds == Spec => []ExportInv
BY InitHolds, StepHolds, PTL DEF Spec

\* What the export writes is a registry a machine can be restored from: all
\* that Machine keeps true holds of it, for any source, frozen or not, and so
\* does what is assumed of the backups of a source.
THEOREM ExportIsABackup == Spec => [](phase = "done" => WellFormed(target) /\ ReferencesFirst(target))
<1>1. ExportInv => (phase = "done" => WellFormed(target) /\ ReferencesFirst(target))
  BY DEF ExportInv, Building, TargetOK
<1> QED
  BY <1>1, InvariantHolds, PTL

\* A version of the exported registry is a version of the source, with its
\* number, its ID and its schema, even if the source changes meanwhile.
THEOREM IdentifiersStay == Spec => []IdentifiersAreKept
<1>1. ExportInv => IdentifiersAreKept
  <2> SUFFICES ASSUME ExportInv, phase = "done", NEW s \in Subject, NEW x \in Content(target, s)
               PROVE  \E i \in source.Subjects[s] :
                         i.version = x.version /\ i.id = x.id /\ source.Schemas[i.id] = x.identity
    BY DEF IdentifiersAreKept
  <2>1. PICK i \in target.Subjects[s] :
           x = [version |-> i.version, id |-> i.id, identity |-> target.Schemas[i.id],
                deleted |-> i.deleted]
    BY DEF Content, Visible
  <2>2. PICK y \in inventory.schemas : Matches(target, s, i, y)
    BY DEF ExportInv, Building, TargetOK
  <2>3. Held(source, y)
    BY DEF ExportInv, AllHeld
  <2> QED
    BY <2>1, <2>2, <2>3 DEF Matches, Held
<1> QED
  BY <1>1, InvariantHolds, PTL

\* The export of a frozen source has every schema of every subject, under a
\* version of the source, and the policies of every subject it shows.
THEOREM FrozenExportMissesOnlyRepeats == Spec => []OnlyRepeatsAreMissed
<1>1. ExportInv => OnlyRepeatsAreMissed
  <2> SUFFICES ASSUME ExportInv, phase = "done", frozen, NEW s \in Subject
               PROVE  /\ Content(target, s) \subseteq Content(source, s)
                      /\ \A x \in Content(source, s) \ Content(target, s) :
                            \E y \in Content(target, s) : y.id = x.id
                      /\ Content(source, s) # {} => SettingsKept(s)
    BY DEF OnlyRepeatsAreMissed
  <2>1. phase \in Building
    BY DEF Building
  <2>2. /\ SourceOK(source) /\ inventory \in InventoryType /\ AllRead(source, inventory)
        /\ TargetOK(inventory, target, pending, remaining)
        /\ FrozenDelete(inventory, target, {}) /\ Configured(inventory, target)
    BY <2>1, BuildingFacts DEF FrozenBuilding
  <2>3. ASSUME NEW x \in Content(target, s)
        PROVE  x \in Content(source, s)
    <3>1. PICK i \in target.Subjects[s] :
             /\ ~i.permanent
             /\ x = [version |-> i.version, id |-> i.id, identity |-> target.Schemas[i.id],
                     deleted |-> i.deleted]
      BY DEF Content, Visible
    <3>2. PICK y \in inventory.schemas : Matches(target, s, i, y) /\ (i.deleted <=> y.deleted)
      BY <2>2 DEF FrozenDelete
    <3>3. PICK j \in source.Subjects[y.subject] : Shows(source, y, j)
      BY <2>2, InventoryIsContent
    <3>4. i.deleted \in BOOLEAN /\ y.deleted \in BOOLEAN
      BY <2>2 DEF TargetOK, WellFormed, Snapshot, SubjectVersion, InventoryType, ItemType
    <3>5. i.deleted = j.deleted
      BY <3>2, <3>3, <3>4 DEF Shows
    <3>6. /\ j \in source.Subjects[s] /\ ~j.permanent
          /\ x = [version |-> j.version, id |-> j.id, identity |-> source.Schemas[j.id],
                  deleted |-> j.deleted]
      BY <3>1, <3>2, <3>3, <3>5 DEF Matches, Shows
    <3> QED
      BY <3>6 DEF Content, Visible
  <2>4. ASSUME NEW x \in Content(source, s)
        PROVE  \E y \in Content(target, s) : y.id = x.id
    <3>1. PICK i \in source.Subjects[s] : ~i.permanent /\ x.id = i.id
      BY DEF Content, Visible
    <3>2. PICK y \in inventory.schemas : y.subject = s /\ Shows(source, y, i)
      BY <2>2, <3>1, InventoryIsContent
    <3>3. PICK j \in target.Subjects[s] : j.id = y.id
      BY <2>2, <3>2 DEF FrozenDelete
    <3>4. ~j.permanent
      BY <2>2 DEF TargetOK
    <3> DEFINE z == [version |-> j.version, id |-> j.id, identity |-> target.Schemas[j.id],
                     deleted |-> j.deleted]
    <3>5. z \in Content(target, s) /\ z.id = x.id
      BY <3>1, <3>2, <3>3, <3>4 DEF Content, Visible, Shows
    <3> HIDE DEF z
    <3> QED
      BY <3>5
  <2>5. ASSUME Content(source, s) # {}
        PROVE  SettingsKept(s)
    <3>1. s \in Shown(source)
      BY <2>5 DEF Content, Shown, Versions
    <3>2. /\ target.SubjectCompatibility[s] = source.SubjectCompatibility[s]
          /\ target.SubjectModes[s] = source.SubjectModes[s]
          /\ target.GlobalCompatibility = source.GlobalCompatibility
          /\ target.GlobalMode = source.GlobalMode
      BY <2>2, <3>1 DEF AllRead, SubjectRead, GlobalsRead, Configured
    <3> QED
      BY <3>2 DEF SettingsKept, EffectiveMode, EffectiveCompatibility
  <2> QED
    BY <2>3, <2>4, <2>5
<1> QED
  BY <1>1, InvariantHolds, PTL

\* The export of a frozen source fails only for a soft-deleted version whose
\* reference is gone, a schema a subject holds twice, or an ID that is not
\* positive: no order of subjects, versions and references stops it.
THEOREM FailuresAreExplained == Spec => []FailureHasACause
<1>1. ExportInv => FailureHasACause
  BY DEF ExportInv, FailureHasACause, Cause
<1> QED
  BY <1>1, InvariantHolds, PTL

-----------------------------------------------------------------------------
(* The loops of buildState end.                                            *)

\* The schemas buildState has not imported.
Left == pending \cup remaining

Below(S, T) == S \subseteq T /\ S # T

\* A step of the import ends the loop, imports a schema, or starts the next pass
\* after one that imported a schema, or takes a schema of the pass; a step of the
\* replay of deletions ends the loop or takes one of them.
LoopsDescend ==
    /\ phase = "import" =>
          \/ phase' \in {"delete", "failed"}
          \/ /\ phase' = "import"
             /\ \/ Below(Left', Left)
                \/ Left' = Left /\ progress /\ ~progress'
                \/ Left' = Left /\ progress' = progress /\ Below(pending', pending)
    /\ phase = "delete" =>
          \/ phase' \in {"done", "failed"}
          \/ phase' = "delete" /\ Below(pending', pending)

\* The loops are over finite sets, and one that is not done has a next schema.
LoopsGoOn ==
    phase \in {"import", "delete"} => IsFiniteSet(Left) /\ (pending = {} \/ FirstItem(pending) # {})

\* The inventory grows by one schema at a time, and a pass postpones what it
\* has taken.
PassInv ==
    /\ IsFiniteSet(inventory.schemas)
    /\ phase = "import" => pending \cap remaining = {}

\* Steps that leave the schemas of the inventory alone.
LEMMA InventoryStays ==
  ASSUME ExportInv, [Next]_vars, inventory'.schemas # inventory.schemas
  PROVE  ReadVersion
<1>1. inventory \in InventoryType
  BY DEF ExportInv, Typed
<1>2. Start \/ ReadConfig \/ ReadMode => inventory'.schemas = inventory.schemas
  BY <1>1 DEF Start, ReadConfig, ReadMode, InventoryType
<1>3. ReadActive \/ ReadAll \/ ListAgain \/ ListVersionsAgain => inventory' = inventory
  BY DEF ReadActive, ReadAll, ListAgain, ListVersionsAgain, Fail
<1>4. Build \/ Change => inventory' = inventory
  BY DEF Build, StartBuild, Postpone, Import, EndPass, EndImport, Delete, Configure, Change, Fail
<1> QED
  BY <1>2, <1>3, <1>4 DEF Next, Read, vars

\* The passes keep their invariant.
LEMMA PassStep == ExportInv /\ PassInv /\ [Next]_vars => PassInv'
<1> SUFFICES ASSUME ExportInv, PassInv, [Next]_vars PROVE PassInv'
  OBVIOUS
<1>1. IsFiniteSet(inventory'.schemas)
  <2>1. CASE inventory'.schemas = inventory.schemas
    BY <2>1 DEF PassInv
  <2>2. CASE inventory'.schemas # inventory.schemas
    <3>1. ReadVersion
      BY <2>2, InventoryStays
    <3>2. inventory \in InventoryType
      BY DEF ExportInv, Typed
    <3>3. PICK x : inventory' = [inventory EXCEPT !.schemas = inventory.schemas \cup {x}]
      BY <2>2, <3>1 DEF ReadVersion, Fail
    <3>4. inventory'.schemas = inventory.schemas \cup {x}
      BY <3>2, <3>3 DEF InventoryType
    <3> QED
      BY <3>4, FS_AddElement DEF PassInv
  <2> QED
    BY <2>1, <2>2
<1>2. ASSUME phase' = "import" PROVE pending' \cap remaining' = {}
  <2>1. CASE StartBuild
    BY <2>1 DEF StartBuild, ExportInv, Typed, Inventory
  <2>2. CASE Postpone
    BY <2>2 DEF Postpone, PassInv
  <2>3. CASE Import
    BY <1>2, <2>3 DEF Import, Fail, PassInv
  <2>4. CASE EndPass
    BY <1>2, <2>4 DEF EndPass, Fail
  <2>5. EndImport \/ Delete \/ Configure => phase' # "import"
    BY DEF EndImport, Delete, Configure, Fail
  <2>6. Change => phase' # "import"
    BY DEF Change, Inventory
  <2>7. Read => phase' # "import"
    BY DEF Read, Start, ReadActive, ReadAll, ReadVersion, ReadConfig, ReadMode, ListAgain, ListVersionsAgain, Fail
  <2>8. CASE UNCHANGED vars
    BY <1>2, <2>8 DEF vars, building, PassInv
  <2> QED
    BY <1>2, <2>1, <2>2, <2>3, <2>4, <2>5, <2>6, <2>7, <2>8 DEF Next, Build
<1> QED
  BY <1>1, <1>2 DEF PassInv

\* A set of schemas has a first one in the order of the loops.
LEMMA FirstItemExists ==
  ASSUME NEW S \in SUBSET ItemType, S # {}
  PROVE  FirstItem(S) # {}
<1> DEFINE ranks == {Rank[x.subject] : x \in S}
<1>1. \A x \in S : x.subject \in Subject /\ Rank[x.subject] \in Nat /\ x.version \in Int64
  BY ExportAssumption DEF ItemType
<1>2. ranks \in SUBSET Nat /\ ranks # {}
  BY <1>1
<1>3. PICK n \in ranks : \A m \in ranks : n <= m
  BY <1>2, LeastElement
<1>4. PICK z \in S : Rank[z.subject] = n
  BY <1>3
<1> DEFINE O == {x \in S : x.subject = z.subject}
           offsets == {x.version + MaxInt + 1 : x \in O}
<1>5. MaxInt \in Nat
  BY ConstantsAssumption
<1>6. \A x \in S : x.version \in Int /\ x.version + MaxInt + 1 \in Nat
  BY <1>1, <1>5 DEF Int64
<1>7. offsets \in SUBSET Nat /\ offsets # {}
  BY <1>4, <1>6
<1>8. PICK k \in offsets : \A l \in offsets : k <= l
  BY <1>7, LeastElement
<1>9. PICK x \in O : k = x.version + MaxInt + 1
  BY <1>8
<1>10. ASSUME NEW y \in S
       PROVE  Rank[x.subject] < Rank[y.subject] \/ (x.subject = y.subject /\ x.version <= y.version)
  <2>1. x.subject = z.subject /\ x \in S
    BY <1>9
  <2>2. Rank[x.subject] <= Rank[y.subject]
    BY <1>3, <1>4, <2>1
  <2>3. CASE y.subject = x.subject
    <3>1. y.version + MaxInt + 1 \in offsets
      BY <2>1, <2>3
    <3>2. x.version + MaxInt + 1 <= y.version + MaxInt + 1
      BY <1>8, <1>9, <3>1
    <3> HIDE DEF O, offsets
    <3> QED
      BY <1>5, <1>6, <2>1, <2>3, <3>2
  <2>4. CASE y.subject # x.subject
    <3>1. Rank[x.subject] # Rank[y.subject]
      BY <1>1, <2>1, <2>4, ExportAssumption
    <3>2. Rank[x.subject] \in Nat /\ Rank[y.subject] \in Nat
      BY <1>1, <2>1
    <3> QED
      BY <2>2, <3>1, <3>2
  <2> QED
    BY <2>3, <2>4
<1> QED
  BY <1>9, <1>10 DEF FirstItem

\* Every step of a loop of buildState descends.
LEMMA StepDescends == ExportInv /\ PassInv /\ [Next]_vars => [LoopsDescend]_vars
<1> SUFFICES ASSUME ExportInv, PassInv, Next PROVE LoopsDescend
  BY DEF vars
<1>1. phase \in {"import", "delete"} => ~Change /\ ~Read
  BY DEF Change, Read, Start, ReadActive, ReadAll, ReadVersion, ReadConfig, ReadMode, ListAgain, ListVersionsAgain, Inventory
<1>2. CASE StartBuild
  BY <1>2 DEF StartBuild, LoopsDescend
<1>3. CASE Postpone
  <2>1. PICK x \in pending : remaining' = remaining \cup {x} /\ pending' = pending \ {x}
    BY <1>3 DEF Postpone, FirstItem
  <2>2. phase = "import" /\ phase' = "import" /\ progress' = progress
    BY <1>3 DEF Postpone
  <2>3. Left' = Left /\ Below(pending', pending)
    BY <2>1 DEF Left, Below
  <2> QED
    BY <2>2, <2>3 DEF LoopsDescend
<1>4. CASE Import
  <2>1. phase = "import" /\ pending \cap remaining = {}
    BY <1>4 DEF Import, PassInv
  <2>2. CASE phase' = "failed"
    BY <2>1, <2>2 DEF LoopsDescend
  <2>3. CASE phase' # "failed"
    <3>1. /\ \E x \in pending : pending' = pending \ {x}
          /\ phase' = phase /\ remaining' = remaining
      BY <1>4, <2>3 DEF Import, Fail, FirstItem
    <3>2. Below(Left', Left)
      BY <2>1, <3>1 DEF Left, Below
    <3> QED
      BY <2>1, <3>1, <3>2 DEF LoopsDescend
  <2> QED
    BY <2>2, <2>3
<1>5. CASE EndPass
  <2>1. phase = "import" /\ pending = {}
    BY <1>5 DEF EndPass
  <2>2. CASE ~progress
    BY <1>5, <2>1, <2>2 DEF EndPass, Fail, LoopsDescend
  <2>3. CASE progress
    <3>1. phase' = "import" /\ pending' = remaining /\ remaining' = {} /\ progress' = FALSE
      BY <1>5, <2>3 DEF EndPass
    <3>2. Left' = Left
      BY <2>1, <3>1 DEF Left
    <3> QED
      BY <2>1, <2>3, <3>1, <3>2 DEF LoopsDescend
  <2> QED
    BY <2>2, <2>3
<1>6. CASE EndImport
  BY <1>6 DEF EndImport, LoopsDescend
<1>7. CASE Delete
  <2>1. phase = "delete"
    BY <1>7 DEF Delete
  <2>2. phase' = "failed" \/ (phase' = "delete" /\ \E x \in pending : pending' = pending \ {x})
    BY <1>7 DEF Delete, Fail, FirstItem
  <2> QED
    BY <2>1, <2>2 DEF LoopsDescend, Below
<1>8. CASE Configure
  BY <1>8 DEF Configure, LoopsDescend
<1>9. CASE phase \notin {"import", "delete"}
  BY <1>9 DEF LoopsDescend
<1> QED
  BY <1>1, <1>2, <1>3, <1>4, <1>5, <1>6, <1>7, <1>8, <1>9 DEF Next, Build

\* buildState comes to its end whatever the source is and however its schemas
\* reference one another: the sets its loops go through are finite, a loop that
\* is not done has a next schema to take, and every step imports a schema, is
\* the last of a pass that did, or takes a schema of the pass, so that no
\* sequence of passes goes on for ever.
THEOREM PassesEnd == Spec => []LoopsGoOn /\ [][LoopsDescend]_vars
<1>1. Init => PassInv
  BY FS_EmptySet DEF Init, PassInv, NewInventory
<1>2. ExportInv /\ PassInv => LoopsGoOn
  <2> SUFFICES ASSUME ExportInv, PassInv, phase \in {"import", "delete"}
               PROVE  IsFiniteSet(Left) /\ (pending = {} \/ FirstItem(pending) # {})
    BY DEF LoopsGoOn
  <2>1. /\ pending \subseteq inventory.schemas /\ remaining \subseteq inventory.schemas
        /\ inventory.schemas \subseteq ItemType
    BY DEF ExportInv, Typed, Building, TargetOK, InventoryType
  <2>2. IsFiniteSet(Left)
    BY <2>1, FS_Subset DEF Left, PassInv
  <2> QED
    BY <2>1, <2>2, FirstItemExists
<1> QED
  BY <1>1, <1>2, PassStep, StepDescends, InvariantHolds, PTL DEF Spec
=============================================================================
