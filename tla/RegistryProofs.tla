---------------------------- MODULE RegistryProofs ----------------------------
(***************************************************************************)
(* Proofs about Registry: every reachable state is well formed, for every  *)
(* set of subjects, schemas, references, operations and integer width; and *)
(* about Evolution: what the comparison Register asks for promises to the  *)
(* readers of a subject, for all documents, values and files.              *)
(***************************************************************************)
EXTENDS Registry, SubjectVersions, RegistryStateProofs, SequenceTheorems

\* A step applies a transition some command plans, or restores a backup into
\* the empty registry.
LEMMA StepShape ==
  Next => \/ \E e \in Plans(state) : CommitApply(e)
          \/ state = NewState /\ state' \in Backups
BY DEF Next, Plans, Register, DeleteVersion, DeleteSubject, SetCompatibility,
   DeleteCompatibility, SetMode, DeleteMode, RestoreBackup

\* Every step of the registry keeps the state well formed.
LEMMA StepWellFormed == WellFormed(state) /\ [Next]_state => WellFormed(state)'
<1> SUFFICES ASSUME WellFormed(state), [Next]_state
             PROVE  WellFormed(state')
  BY DEF WellFormed
<1>1. ASSUME NEW e \in Plans(state), CommitApply(e)
      PROVE  WellFormed(state')
  BY <1>1, PlansAreSafe DEF CommitApply
<1>2. CASE state' \in Backups
  BY <1>2, BackupsAssumption
<1> QED
  BY <1>1, <1>2, StepShape

\* Every reachable state of the registry is well formed, whatever commands
\* Machine accepts, in whatever order, with whatever explicit IDs.
THEOREM AlwaysWellFormed == Spec => []WellFormed(state)
<1>1. Init => WellFormed(state)
  BY NewStateWellFormed DEF Init
<1> QED
  BY <1>1, StepWellFormed, PTL DEF Spec

\* The snapshot Machine publishes always has its declared type.
THEOREM TypeCorrect == Spec => []TypeOK
<1>1. WellFormed(state) => TypeOK
  BY DEF WellFormed, TypeOK
<1> QED
  BY <1>1, AlwaysWellFormed, PTL

\* The ID and identity maps of applyPayload are inverse to each other, and the
\* ID planRegister allocates next is above every ID in use.
THEOREM IDsAreConsistent == Spec => []IDsAreUnique
<1>1. WellFormed(state) => IDsAreUnique
  BY DEF WellFormed, IDsAreUnique
<1> QED
  BY <1>1, AlwaysWellFormed, PTL

\* No order of registrations, soft and permanent deletions leaves a schema
\* active twice in one subject.
THEOREM NoActiveDuplicates == Spec => []OneActiveVersionPerSchema
<1>1. WellFormed(state) => OneActiveVersionPerSchema
  BY DEF WellFormed, OneActiveVersionPerSchema
<1> QED
  BY <1>1, AlwaysWellFormed, PTL

\* No order of registrations, soft and permanent deletions destroys a version
\* that an active schema references.
THEOREM ReferencesAreSafe == Spec => []ReferencesSurvive
<1>1. WellFormed(state) => ReferencesSurvive
  BY DEF WellFormed, ReferencesSurvive
<1> QED
  BY <1>1, AlwaysWellFormed, PTL

\* LatestForID has one answer, whatever order Go iterates the subjects in.
THEOREM LatestIsUnique == Spec => []LatestForIDIsUnique
<1>1. WellFormed(state) => LatestForIDIsUnique
  <2> SUFFICES ASSUME WellFormed(state), NEW id \in Int64, NEW scope \in Scope,
                      NEW p \in LatestForID(state, id, scope), NEW q \in LatestForID(state, id, scope)
               PROVE  p = q
    BY DEF LatestForIDIsUnique
  <2>1a. PICK s \in Subject : scope \in {Global, s} /\ \E i \in state.Subjects[s] : p = [subject |-> s, item |-> i]
    BY DEF LatestForID
  <2>1. PICK i \in state.Subjects[s] : p = [subject |-> s, item |-> i]
    BY <2>1a
  <2>2a. PICK t \in Subject : scope \in {Global, t} /\ \E j \in state.Subjects[t] : q = [subject |-> t, item |-> j]
    BY DEF LatestForID
  <2>2. PICK j \in state.Subjects[t] : q = [subject |-> t, item |-> j]
    BY <2>2a
  <2>3. i.seq <= j.seq /\ j.seq <= i.seq
    <3>1. /\ p.item = i /\ i.id = id /\ IsActive(i)
          /\ q.item = j /\ j.id = id /\ IsActive(j)
      BY <2>1, <2>2 DEF LatestForID
    <3>2. i.seq <= q.item.seq
      BY <2>1a, <3>1 DEF LatestForID
    <3>3. j.seq <= p.item.seq
      BY <2>2a, <3>1 DEF LatestForID
    <3> QED
      BY <3>1, <3>2, <3>3
  <2>4. i.seq \in Nat /\ j.seq \in Nat
    BY DEF WellFormed, Snapshot, SubjectVersion
  <2>5. s = t /\ i.version = j.version
    BY <2>3, <2>4 DEF WellFormed, Sequenced
  <2>6. i = j
    BY <2>5 DEF WellFormed, Valid
  <2> QED
    BY <2>1, <2>2, <2>5, <2>6
<1> QED
  BY <1>1, AlwaysWellFormed, PTL

-----------------------------------------------------------------------------
(* What a step never does.                                                 *)

\* What a schema ID decodes to never changes.
THEOREM SchemasNeverChange == Spec => SchemasAreImmutable
<1> DEFINE Kept == \A id \in Int64 : state.Schemas[id] # None => state'.Schemas[id] = state.Schemas[id]
<1>1. WellFormed(state) /\ [Next]_state => [Kept]_state
  <2> SUFFICES ASSUME WellFormed(state), Next
               PROVE  Kept
    OBVIOUS
  <2>1. CASE state = NewState
    BY <2>1 DEF NewState
  <2>2. ASSUME NEW e \in Plans(state), CommitApply(e)
        PROVE  Kept
    BY <2>2, SchemasKept DEF CommitApply
  <2> QED
    BY <2>1, <2>2, StepShape
<1> QED
  BY <1>1, AlwaysWellFormed, PTL DEF Spec, SchemasAreImmutable

\* The result recorded for an operation is final: no later command, under any
\* kind, replaces it.
THEOREM ResultsNeverChange == Spec => ResultsAreFinal
<1> DEFINE Kept == \A o \in OperationID :
                      state.Operations[o] # None => state'.Operations[o] = state.Operations[o]
<1>1. WellFormed(state) /\ [Next]_state => [Kept]_state
  <2> SUFFICES ASSUME WellFormed(state), Next
               PROVE  Kept
    OBVIOUS
  <2>1. CASE state = NewState
    BY <2>1 DEF NewState
  <2>2. ASSUME NEW e \in Plans(state), CommitApply(e)
        PROVE  Kept
    BY <2>2, PlansAreSafe, ResultsKept DEF CommitApply, WellFormed
  <2> QED
    BY <2>1, <2>2, StepShape
<1> QED
  BY <1>1, AlwaysWellFormed, PTL DEF Spec, ResultsAreFinal

\* A version number, once committed, keeps its schema and only moves towards
\* deletion.
THEOREM VersionsNeverReturn == Spec => VersionsAreForEver
<1> DEFINE Kept == \A s \in Subject : \A i \in state.Subjects[s] : \E j \in state'.Subjects[s] :
                      /\ j.version = i.version /\ j.id = i.id /\ j.seq = i.seq
                      /\ i.deleted => j.deleted
                      /\ i.permanent => j.permanent
<1>1. WellFormed(state) /\ [Next]_state => [Kept]_state
  <2> SUFFICES ASSUME WellFormed(state), Next
               PROVE  Kept
    OBVIOUS
  <2>1. CASE state = NewState
    BY <2>1 DEF NewState
  <2>2. ASSUME NEW e \in Plans(state), CommitApply(e), NEW s \in Subject, NEW i \in state.Subjects[s]
        PROVE  \E j \in state'.Subjects[s] :
                      /\ j.version = i.version /\ j.id = i.id /\ j.seq = i.seq
                      /\ i.deleted => j.deleted
                      /\ i.permanent => j.permanent
    BY <2>2, VersionsKept DEF CommitApply
  <2> QED
    BY <2>1, <2>2, StepShape
<1> QED
  BY <1>1, AlwaysWellFormed, PTL DEF Spec, VersionsAreForEver

\* NextVersion is above every version the subject ever had, unless the largest
\* one wraps around.
LEMMA NextVersionIsAbove ==
  ASSUME NEW st, WellFormed(st), NEW s \in Subject, NextVersion(st, s) >= 1,
         NEW i \in st.Subjects[s]
  PROVE  NextVersion(st, s) > i.version
<1> DEFINE numbers == {0} \cup {j.version : j \in st.Subjects[s]}
           m == CHOOSE m \in numbers : \A n \in numbers : n <= m
<1>1. MaxInt \in Int
  BY ConstantsAssumption
<1>2. \A j \in st.Subjects[s] : j.version \in 1 .. MaxInt
  BY DEF WellFormed, Valid
<1>3. numbers \in SUBSET Int /\ numbers # {} /\ \A n \in numbers : n <= MaxInt
  BY <1>2, ConstantsAssumption
<1>4. NextVersion(st, s) = Increment(m)
  BY DEF NextVersion
<1>5. i.version \in numbers
  OBVIOUS
<1>6. m \in numbers /\ \A n \in numbers : n <= m
  <2> HIDE DEF numbers
  <2>1. \E x \in numbers : \A n \in numbers : n <= x
    BY <1>1, <1>3, GreatestElement, Zenon
  <2> QED
    BY <2>1
<1> HIDE DEF numbers, m
<1>7. m \in Int /\ m <= MaxInt /\ i.version \in Int /\ i.version <= m
  BY <1>3, <1>5, <1>6
<1> QED
  BY <1>1, <1>4, <1>7, ConstantsAssumption DEF Increment

\* Outside IMPORT a new version is above every version the subject ever had.
THEOREM VersionsOnlyIncrease == Spec => VersionsIncrease
<1> DEFINE Above == \A s \in Subject : EffectiveMode(state, s) # "IMPORT" =>
                      \A j \in state'.Subjects[s] : \A i \in state.Subjects[s] :
                         j.seq > state.Sequence => j.version > i.version
<1>1. WellFormed(state) /\ [Next]_state => [Above]_state
  <2> SUFFICES ASSUME WellFormed(state), Next, NEW s \in Subject, EffectiveMode(state, s) # "IMPORT",
                      NEW j \in state'.Subjects[s], NEW i \in state.Subjects[s], j.seq > state.Sequence
               PROVE  j.version > i.version
    OBVIOUS
  <2>1. CASE state = NewState
    BY <2>1 DEF NewState
  <2>2. ASSUME NEW e \in Plans(state), CommitApply(e)
        PROVE  j.version > i.version
    <3>1. state'.Subjects = SubjectsAfter(state, e) /\ Valid(state')
      BY <2>2 DEF CommitApply, Apply, Applies
    <3>2. state.Sequence \in Nat /\ state.Subjects \in [Subject -> SUBSET SubjectVersion]
      BY DEF WellFormed, Snapshot
    <3>3. \A k \in state.Subjects[s] : ~ (k.seq > state.Sequence)
      <4>1. \A k \in state.Subjects[s] : k.seq \in Nat /\ k.seq <= state.Sequence
        BY <3>2 DEF WellFormed, Sequenced, SubjectVersion
      <4> QED
        BY <4>1, <3>2
    <3>4. e.Kind = "schema_registered" /\ e.Payload.subject = s /\ j = NewVersion(e)
      <4>1. \A k \in state.Subjects[s] : MarkDeleted(k, e.Payload).seq = k.seq
        BY DEF MarkDeleted
      <4>2. CASE e.Kind = "schema_registered"
        BY <3>1, <3>2, <3>3, <4>2 DEF SubjectsAfter
      <4>3. CASE e.Kind # "schema_registered"
        BY <3>1, <3>2, <3>3, <4>1, <4>3 DEF SubjectsAfter
      <4> QED
        BY <4>2, <4>3
    <3>5. PICK c \in RegisterCommand : RegisterAllowed(state, c) /\ e = RegisterEnvelope(state, c)
      BY <2>2, <3>4, PlanOfKind
    <3>6. c.subject = s /\ j.version = RegisterVersion(state, c)
      BY <3>4, <3>5 DEF RegisterEnvelope, Envelope, NewVersion
    <3>7. c.version = 0
      BY <3>5, <3>6 DEF RegisterAllowed
    <3>8. j.version = NextVersion(state, s)
      BY <3>6, <3>7 DEF RegisterVersion
    <3>9. j.version >= 1
      BY <3>1 DEF Valid
    <3> QED
      BY <3>8, <3>9, NextVersionIsAbove
  <2> QED
    BY <2>1, <2>2, StepShape
<1> QED
  BY <1>1, AlwaysWellFormed, PTL DEF Spec, VersionsIncrease

-----------------------------------------------------------------------------
(* Evolution.  The argument has three parts: the comparison of two         *)
(* documents or fields is right about the values they describe, whatever   *)
(* their depth; the versions Register compares with lead from a version    *)
(* back to every active one; and what holds of each step holds of the way. *)
E == INSTANCE Evolution

\* What Prefix returns.
LEMMA PrefixIs ==
  ASSUME NEW S, NEW s \in Seq(S), NEW i \in 0 .. Len(s)
  PROVE  /\ Prefix(s, i) \in Seq(S)
         /\ Len(Prefix(s, i)) = i
         /\ \A j \in 1 .. i : Prefix(s, i)[j] = s[j]
BY SubSeqProperties DEF Prefix

\* The longest and the shortest prefix.
LEMMA PrefixEnds ==
  ASSUME NEW S, NEW s \in Seq(S)
  PROVE  Prefix(s, Len(s)) = s /\ Prefix(s, 0) = <<>>
<1>1. Prefix(s, 0) = <<>>
  <2>1. Prefix(s, 0) \in Seq(S) /\ Len(Prefix(s, 0)) = 0
    BY PrefixIs, LenProperties
  <2> QED
    BY <2>1, EmptySeq
<1>2. Prefix(s, Len(s)) \in Seq(S) /\ Len(Prefix(s, Len(s))) = Len(s)
      /\ \A j \in 1 .. Len(s) : Prefix(s, Len(s))[j] = s[j]
  BY PrefixIs, LenProperties
<1>3. Prefix(s, Len(s)) = s
  BY <1>2, SeqEqual
<1> QED
  BY <1>1, <1>3

\* A prefix of a prefix is a prefix.
LEMMA PrefixOfPrefix ==
  ASSUME NEW S, NEW s \in Seq(S), NEW i \in 0 .. Len(s), NEW j \in 0 .. i
  PROVE  Prefix(Prefix(s, i), j) = Prefix(s, j)
<1> DEFINE t == Prefix(s, i)
<1>1. t \in Seq(S) /\ Len(t) = i /\ \A k \in 1 .. i : t[k] = s[k]
  BY PrefixIs
<1>2. j \in 0 .. Len(s) /\ j \in 0 .. Len(t)
  BY <1>1, LenProperties
<1> HIDE DEF t
<1>3. Prefix(t, j) \in Seq(S) /\ Len(Prefix(t, j)) = j /\ \A k \in 1 .. j : Prefix(t, j)[k] = t[k]
  BY <1>1, <1>2, PrefixIs
<1>4. Prefix(s, j) \in Seq(S) /\ Len(Prefix(s, j)) = j /\ \A k \in 1 .. j : Prefix(s, j)[k] = s[k]
  BY <1>2, PrefixIs
<1>5. \A k \in 1 .. j : Prefix(t, j)[k] = Prefix(s, j)[k]
  BY <1>1, <1>3, <1>4
<1>6. Prefix(t, j) = Prefix(s, j)
  BY <1>3, <1>4, <1>5, SeqEqual
<1> QED
  BY <1>6 DEF t

\* A prefix is the next shorter one and the step after it.
LEMMA PrefixStep ==
  ASSUME NEW S, NEW s \in Seq(S), NEW i \in 1 .. Len(s)
  PROVE  Prefix(s, i) = Append(Prefix(s, i - 1), s[i])
<1> DEFINE a == Prefix(s, i)
           b == Prefix(s, i - 1)
<1>1. i \in 0 .. Len(s) /\ i - 1 \in 0 .. Len(s) /\ s[i] \in S
  BY LenProperties, ElementOfSeq
<1>2. a \in Seq(S) /\ Len(a) = i /\ \A k \in 1 .. i : a[k] = s[k]
  BY <1>1, PrefixIs
<1>3. b \in Seq(S) /\ Len(b) = i - 1 /\ \A k \in 1 .. i - 1 : b[k] = s[k]
  BY <1>1, PrefixIs
<1> HIDE DEF a, b
<1>4. Append(b, s[i]) \in Seq(S) /\ Len(Append(b, s[i])) = i
  BY <1>1, <1>3, AppendProperties
<1>5. \A k \in 1 .. i : Append(b, s[i])[k] = s[k]
  BY <1>1, <1>3, AppendProperties
<1>6. a = Append(b, s[i])
  BY <1>2, <1>4, <1>5, SeqEqual
<1> QED
  BY <1>6 DEF a, b

\* A step at the end changes no shorter prefix.
LEMMA PrefixOfAppend ==
  ASSUME NEW S, NEW s \in Seq(S), NEW x \in S, NEW i \in 0 .. Len(s)
  PROVE  Prefix(Append(s, x), i) = Prefix(s, i)
<1> DEFINE t == Append(s, x)
<1>1. t \in Seq(S) /\ Len(t) = Len(s) + 1 /\ \A k \in 1 .. Len(s) : t[k] = s[k]
  BY AppendProperties
<1>2. i \in 0 .. Len(t)
  BY <1>1, LenProperties
<1> HIDE DEF t
<1>3. Prefix(t, i) \in Seq(S) /\ Len(Prefix(t, i)) = i /\ \A k \in 1 .. i : Prefix(t, i)[k] = t[k]
  BY <1>1, <1>2, PrefixIs
<1>4. Prefix(s, i) \in Seq(S) /\ Len(Prefix(s, i)) = i /\ \A k \in 1 .. i : Prefix(s, i)[k] = s[k]
  BY PrefixIs
<1>5. \A k \in 1 .. i : Prefix(t, i)[k] = Prefix(s, i)[k]
  <2>1. 1 .. i \subseteq 1 .. Len(s)
    BY LenProperties
  <2> QED
    BY <1>1, <1>3, <1>4, <2>1
<1>6. Prefix(t, i) = Prefix(s, i)
  BY <1>3, <1>4, <1>5, SeqEqual
<1> QED
  BY <1>6 DEF t

\* Every beginning of a path of a document is one of its paths, and what goes on
\* is an object of keywords.
LEMMA PathsOfDocument ==
  ASSUME NEW d, IsDocument(d), NEW p \in DOMAIN d, NEW i \in 0 .. Len(p)
  PROVE  /\ p \in Seq(Name \cup {Other})
         /\ Prefix(p, i) \in DOMAIN d
         /\ i < Len(p) => d[Prefix(p, i)].kind = "object"
<1>1. p \in Seq(Name \cup {Other}) /\ Len(p) \in Nat
  BY LenProperties DEF IsDocument
<1>2. CASE i = Len(p)
  BY <1>1, <1>2, PrefixEnds
<1>3. CASE i # Len(p)
  <2>1. i \in 0 .. Len(p) - 1
    BY <1>1, <1>3
  <2> QED
    BY <1>1, <2>1 DEF IsDocument
<1> QED
  BY <1>2, <1>3

\* A path of names below which the document says false about additional
\* properties is followed, in a value the document validates, by its properties
\* only.
LEMMA ClosedObject ==
  ASSUME NEW d, IsDocument(d), NEW v, IsValue(v), Validates(d, v),
         NEW p \in DOMAIN v, NEW i \in 1 .. Len(p),
         Prefix(p, i - 1) \in DOMAIN d, ~Open(d, Prefix(p, i - 1)),
         \A k \in 0 .. i - 1 : d[Prefix(p, k)].ref = {}
  PROVE  Prefix(p, i) \in DOMAIN d \/ p[i] \in d[Prefix(p, i - 1)].patterns
<1> DEFINE u == Prefix(p, i - 1)
           q == Append(u, Other)
           a == Prefix(p, i)
           N == Name \cup {Other}
<1> SUFFICES ASSUME a \notin DOMAIN d, p[i] \notin d[u].patterns PROVE FALSE
  OBVIOUS
<1>1. p \in Seq(Name) /\ p \in Seq(N) /\ Len(p) \in Nat
  BY LenProperties, SeqMonotonic DEF IsValue
<1>2. i - 1 \in 0 .. Len(p) /\ i \in 0 .. Len(p) /\ i \in Nat
  BY <1>1
<1>3. a \in DOMAIN v
  BY <1>2 DEF IsValue
<1>4. a \in Seq(N) /\ Len(a) = i /\ \A k \in 1 .. i : a[k] = p[k]
  BY <1>1, <1>2, PrefixIs
<1>5. u \in Seq(N) /\ Len(u) = i - 1 /\ \A k \in 1 .. i - 1 : u[k] = p[k]
  BY <1>1, <1>2, PrefixIs
<1>6. q \in DOMAIN d /\ d[q].kind = "false"
  BY DEF Open
<1>7. a = Append(u, p[i])
  BY <1>1, PrefixStep
<1> HIDE DEF u, a
<1>8. Len(q) = i /\ q[i] = Other /\ \A k \in 1 .. i - 1 : q[k] = p[k]
  BY <1>2, <1>5, AppendProperties
<1>9. ASSUME NEW k \in 1 .. i
      PROVE  /\ d[Prefix(q, k - 1)].ref = {}
             /\ IF Append(Prefix(q, k - 1), a[k]) \in DOMAIN d THEN q[k] = a[k]
                ELSE q[k] = Other /\ a[k] \notin d[Prefix(q, k - 1)].patterns
  <2>1. k - 1 \in 0 .. Len(u) /\ k - 1 \in 0 .. i - 1 /\ k \in 1 .. Len(p) /\ a[k] = p[k]
    BY <1>1, <1>2, <1>4, <1>5
  <2>2. Prefix(q, k - 1) = Prefix(p, k - 1)
    <3>1. Prefix(q, k - 1) = Prefix(u, k - 1)
      BY <1>5, <2>1, PrefixOfAppend
    <3>2. Prefix(u, k - 1) = Prefix(p, k - 1)
      BY <1>1, <1>2, <2>1, PrefixOfPrefix DEF u
    <3> QED
      BY <3>1, <3>2
  <2>3. Append(Prefix(q, k - 1), a[k]) = Prefix(p, k)
    BY <1>1, <2>1, <2>2, PrefixStep
  <2>6. d[Prefix(q, k - 1)].ref = {}
    BY <2>1, <2>2
  <2>4. CASE k = i
    BY <1>8, <2>1, <2>2, <2>3, <2>4, <2>6 DEF a, u
  <2>5. CASE k # i
    <3>1. k \in 1 .. i - 1 /\ k \in 0 .. i - 1 /\ k \in 0 .. Len(u)
      BY <1>2, <1>5, <2>5
    <3>2. Prefix(p, k) = Prefix(u, k)
      BY <1>1, <1>2, <3>1, PrefixOfPrefix DEF u
    <3>3. u \in DOMAIN d
      BY DEF u
    <3>4. Prefix(u, k) \in DOMAIN d
      BY <3>1, <3>3, PathsOfDocument
    <3> QED
      BY <1>8, <2>1, <2>3, <2>6, <3>1, <3>2, <3>4
  <2> QED
    BY <2>4, <2>5
<1>10. Governs(d, q, a)
  BY <1>4, <1>8, <1>9 DEF Governs
<1>11. Accepts(d, q, v, a)
  BY <1>3, <1>6, <1>10 DEF Validates
<1> QED
  BY <1>6, <1>11 DEF Accepts

\* A path of names of a document is the schema for the values on that path.
LEMMA NamedPathGoverns ==
  ASSUME NEW d, IsDocument(d), NEW p \in DOMAIN d, \A k \in 0 .. Len(p) - 1 : d[Prefix(p, k)].ref = {}
  PROVE  Governs(d, p, p)
<1>1. ASSUME NEW i \in 1 .. Len(p)
      PROVE  d[Prefix(p, i - 1)].ref = {} /\ Append(Prefix(p, i - 1), p[i]) \in DOMAIN d
  <2>1. p \in Seq(Name \cup {Other}) /\ Len(p) \in Nat
    BY LenProperties DEF IsDocument
  <2>2. Append(Prefix(p, i - 1), p[i]) = Prefix(p, i)
    BY <2>1, PrefixStep
  <2>3. Prefix(p, i) \in DOMAIN d
    BY <2>1, PathsOfDocument
  <2>4. i - 1 \in 0 .. Len(p) - 1
    BY <2>1
  <2> QED
    BY <2>2, <2>3, <2>4
<1> QED
  BY <1>1 DEF Governs

\* Where both documents have a schema at a path of names, the reader's accepts
\* what the writer's does.
LEMMA SharedSchemaAccepts ==
  ASSUME NEW r, IsDocument(r), NEW w, IsDocument(w), NEW v,
         CompareDocuments(r, w), ~Unread(r, w),
         NEW p \in Shared(r, w), Accepts(w, p, v, p)
  PROVE  Accepts(r, p, v, p)
<1>1. CompareSchemas(r, w, p)
  BY DEF CompareDocuments
<1>2. p \in DOMAIN r /\ p \in DOMAIN w
  BY DEF Shared
<1>3. CASE r[p].kind # "object" \/ w[p].kind # "object"
  <2>1. r[p].kind = w[p].kind
    BY <1>1, <1>3 DEF CompareSchemas
  <2> QED
    BY <1>3, <2>1 DEF Accepts
<1>4. CASE r[p].kind = "object" /\ w[p].kind = "object"
  <2>0. r[p].ref = w[p].ref
    BY <1>4 DEF Unread
  <2>1. TypeSuperset(r[p].type, w[p].type) /\ r[p].required \subseteq w[p].required
    BY <1>1, <1>4 DEF CompareSchemas
  <2>2. r[p].type # {} => w[p].type # {}
    BY <1>4 DEF Unread
  <2>3. r[p].rest \subseteq w[p].rest
    BY <1>4 DEF Unread
  <2>4. CASE w[p].ref = {}
    <3>1. /\ w[p].type # {} => v[p].type \in w[p].type
          /\ w[p].rest \subseteq v[p].meets
          /\ v[p].type = "object" => w[p].required \subseteq Members(v, p)
      BY <1>4, <2>4 DEF Accepts
    <3>2. r[p].type # {} => v[p].type \in r[p].type
      BY <2>1, <2>2, <3>1 DEF TypeSuperset
    <3>3. r[p].rest \subseteq v[p].meets
      BY <2>3, <3>1
    <3>4. v[p].type = "object" => r[p].required \subseteq Members(v, p)
      BY <2>1, <3>1
    <3> QED
      BY <1>4, <2>0, <2>4, <3>2, <3>3, <3>4 DEF Accepts
  <2>5. CASE w[p].ref # {}
    BY <1>4, <2>0, <2>5 DEF Accepts
  <2> QED
    BY <2>4, <2>5
<1> QED
  BY <1>3, <1>4

\* Where the reader's path to the schema of a value leaves the schemas both
\* documents have, the reader accepts the value or the writer does not.
LEMMA LastSharedSchema ==
  ASSUME NEW r, IsDocument(r), NEW w, IsDocument(w), NEW v, IsValue(v),
         CompareDocuments(r, w), ~Unread(r, w), Validates(w, v),
         NEW p \in DOMAIN v, NEW q \in DOMAIN r, Governs(r, q, p),
         NEW i \in 1 .. Len(q),
         Prefix(q, i - 1) \in Shared(r, w), Prefix(q, i) \notin Shared(r, w)
  PROVE  Accepts(r, q, v, p)
<1> DEFINE u == Prefix(q, i - 1)
           N == Name \cup {Other}
<1>1. p \in Seq(Name) /\ p \in Seq(N) /\ q \in Seq(N) /\ Len(q) = Len(p) /\ Len(p) \in Nat
  BY LenProperties, SeqMonotonic DEF IsValue, IsDocument, Governs
<1>2. /\ i - 1 \in 0 .. Len(q) /\ i \in 0 .. Len(q) /\ i - 1 < Len(q) /\ i \in Nat
      /\ i \in 1 .. Len(p)
  BY <1>1
<1>3. /\ u \in DOMAIN r /\ u \in DOMAIN w /\ u \in Seq(Name) /\ Len(u) = i - 1
      /\ \A k \in 1 .. i - 1 : u[k] = q[k]
  <2>1. u \in DOMAIN r /\ u \in DOMAIN w /\ u \in Seq(Name)
    BY DEF Shared
  <2>2. Len(u) = i - 1 /\ \A k \in 1 .. i - 1 : u[k] = q[k]
    BY <1>1, <1>2, PrefixIs
  <2> QED
    BY <2>1, <2>2
<1>4. r[u].kind = "object" /\ Prefix(q, i) \in DOMAIN r
  BY <1>2, PathsOfDocument
<1>5. CompareSchemas(r, w, u)
  BY DEF CompareDocuments
<1>6. w[u].kind = "object"
  BY <1>4, <1>5 DEF CompareSchemas
<1>7. Prefix(q, i) = Append(u, q[i])
  BY <1>1, PrefixStep
<1>8. u = Prefix(p, i - 1)
  <2>1. ASSUME NEW k \in 1 .. i - 1 PROVE u[k] = p[k]
    <3>1. k \in 1 .. Len(p) /\ u[k] = q[k] /\ u[k] \in Name
      BY <1>1, <1>2, <1>3, ElementOfSeq
    <3>2. q[k] = p[k] \/ q[k] = Other
      BY <3>1 DEF Governs
    <3> QED
      BY <3>1, <3>2, NameAssumption
  <2>2. Prefix(p, i - 1) \in Seq(Name) /\ Len(Prefix(p, i - 1)) = i - 1
        /\ \A k \in 1 .. i - 1 : Prefix(p, i - 1)[k] = p[k]
    <3>1. i - 1 \in 0 .. Len(p)
      BY <1>1, <1>2
    <3> QED
      BY <1>1, <3>1, PrefixIs
  <2> HIDE DEF u
  <2> QED
    BY <1>3, <2>1, <2>2, SeqEqual
<1>9. Prefix(p, i) = Append(u, p[i]) /\ p[i] \in Name
  BY <1>1, <1>2, <1>8, PrefixStep, ElementOfSeq
<1>14. ASSUME NEW k \in 0 .. i - 1 PROVE w[Prefix(p, k)].ref = {}
  <2>1. k + 1 \in 1 .. Len(p) /\ (k + 1) - 1 = k /\ k < Len(q) /\ k \in 0 .. Len(q) /\ k \in 0 .. Len(p) /\ k \in 0 .. Len(u)
    BY <1>1, <1>2, <1>3
  <2>2. r[Prefix(q, k)].ref = {}
    BY <2>1 DEF Governs
  <2>3. Prefix(q, k) = Prefix(u, k) /\ Prefix(p, k) = Prefix(u, k)
    <3>1. Prefix(u, k) = Prefix(q, k)
      BY <1>1, <1>2, PrefixOfPrefix
    <3>2. Prefix(u, k) = Prefix(p, k)
      <4>1. i - 1 \in 0 .. Len(p)
        BY <1>1, <1>2
      <4> QED
        BY <1>1, <1>8, <4>1, PrefixOfPrefix
    <3> QED
      BY <3>1, <3>2
  <2>4. Prefix(u, k) \in Shared(r, w)
    <3>1. Prefix(u, k) \in DOMAIN r /\ Prefix(u, k) \in DOMAIN w
      BY <1>3, <2>1, PathsOfDocument
    <3>2. Prefix(u, k) \in Seq(Name)
      BY <1>3, <2>1, PrefixIs
    <3> QED
      BY <3>1, <3>2 DEF Shared
  <2>5. r[Prefix(u, k)].kind = "object"
    BY <2>1, <2>3, PathsOfDocument
  <2>6. w[Prefix(u, k)].kind = "object"
    BY <2>4, <2>5 DEF CompareDocuments, CompareSchemas
  <2> QED
    BY <2>2, <2>3, <2>4, <2>5, <2>6 DEF Unread
<1>10. ~Open(w, u) => Append(u, p[i]) \in DOMAIN w \/ p[i] \in w[u].patterns
  BY <1>2, <1>3, <1>8, <1>9, <1>14, ClosedObject
<1>11. IF Append(u, p[i]) \in DOMAIN r THEN q[i] = p[i] ELSE q[i] = Other /\ p[i] \notin r[u].patterns
  BY <1>2 DEF Governs
<1>15. p[i] \in w[u].patterns /\ p[i] \notin Properties(w, u) =>
          p[i] \notin Properties(r, u) /\ (Open(r, u) \/ p[i] \in r[u].patterns)
  BY <1>4, <1>6 DEF Unread
<1> HIDE DEF u
<1>12. CASE Append(u, p[i]) \in DOMAIN r
  <2>1. Append(u, p[i]) \notin DOMAIN w
    <3>1. Append(u, p[i]) \in Seq(Name)
      BY <1>3, <1>9, AppendProperties
    <3> QED
      BY <1>7, <1>11, <1>12, <3>1 DEF Shared
  <2>2. p[i] \in Properties(r, u) \ Properties(w, u)
    BY <1>9, <1>12, <2>1 DEF Properties
  <2>3. ~Open(w, u)
    BY <1>4, <1>5, <1>6, <2>2 DEF CompareSchemas
  <2> QED
    BY <1>10, <1>15, <2>1, <2>2, <2>3
<1>13. CASE Append(u, p[i]) \notin DOMAIN r
  <2> DEFINE o == Append(u, Other)
  <2>1. o = Prefix(q, i) /\ o \in DOMAIN r
    BY <1>4, <1>7, <1>11, <1>13
  <2>2. r[o].kind # "object"
    BY <1>4, <1>6, <2>1 DEF Unread, u
  <2>3. i = Len(q) /\ q = o
    <3>1. i = Len(q)
      BY <1>1, <1>2, <2>1, <2>2, PathsOfDocument
    <3> QED
      BY <1>1, <2>1, <3>1, PrefixEnds
  <2>4. CASE r[o].kind = "true"
    BY <2>3, <2>4 DEF Accepts
  <2>5. CASE r[o].kind = "false"
    <3>1. ~Open(r, u)
      BY <2>1, <2>5 DEF Open
    <3>2. Properties(w, u) \ Properties(r, u) = {} /\ ~Open(w, u)
      BY <1>4, <1>5, <1>6, <3>1 DEF CompareSchemas
    <3>3. p[i] \in Properties(w, u) \ Properties(r, u)
      BY <1>9, <1>10, <1>11, <1>13, <1>15, <3>1, <3>2 DEF Properties
    <3> QED
      BY <3>2, <3>3
  <2> QED
    BY <2>1, <2>2, <2>4, <2>5 DEF IsDocument
<1> QED
  BY <1>12, <1>13

\* compareDocuments is right about documents: unless the reader has a
\* restriction it does not look at, a value the writer validates is validated
\* by the reader, whatever the depth of the two.
LEMMA ComparedDocumentsAgree ==
  ASSUME NEW r, IsDocument(r), NEW w, IsDocument(w), NEW v, IsValue(v),
         CompareDocuments(r, w), ~Unread(r, w), Validates(w, v)
  PROVE  Validates(r, v)
<1> SUFFICES ASSUME NEW p \in DOMAIN v, NEW q \in DOMAIN r, Governs(r, q, p)
             PROVE  Accepts(r, q, v, p)
  BY DEF Validates
<1> DEFINE N == Name \cup {Other}
           Gone == {i \in 0 .. Len(q) : Prefix(q, i) \notin Shared(r, w)}
<1>1. p \in Seq(Name) /\ p \in Seq(N) /\ q \in Seq(N) /\ Len(q) = Len(p) /\ Len(q) \in Nat
  BY LenProperties, SeqMonotonic DEF IsValue, IsDocument, Governs
<1>2. CASE Gone = {}
  <2>1. q \in Shared(r, w)
    <3>1. Len(q) \in 0 .. Len(q)
      BY <1>1
    <3> QED
      BY <1>1, <1>2, <3>1, PrefixEnds
  <2>2. q \in DOMAIN w /\ q \in Seq(Name)
    BY <2>1 DEF Shared
  <2>3. ASSUME NEW k \in 1 .. Len(q) PROVE q[k] = p[k]
    <3>1. k \in 1 .. Len(p) /\ q[k] \in Name
      BY <1>1, <2>2, ElementOfSeq
    <3> QED
      BY <3>1, NameAssumption DEF Governs
  <2>4. q = p
    BY <1>1, <2>3, SeqEqual
  <2>5. Accepts(w, p, v, p)
    <3>1. Governs(w, p, p)
      <4>1. ASSUME NEW k \in 0 .. Len(p) - 1 PROVE w[Prefix(p, k)].ref = {}
        <5>1. k + 1 \in 1 .. Len(p) /\ (k + 1) - 1 = k /\ k < Len(q) /\ k \in 0 .. Len(q)
          BY <1>1
        <5>2. r[Prefix(q, k)].ref = {}
          BY <5>1 DEF Governs
        <5>3. Prefix(q, k) \in Shared(r, w)
          BY <1>2, <5>1
        <5>4. r[Prefix(q, k)].kind = "object"
          BY <5>1, PathsOfDocument
        <5>5. w[Prefix(q, k)].kind = "object"
          BY <5>3, <5>4 DEF CompareDocuments, CompareSchemas
        <5> QED
          BY <2>4, <5>2, <5>3, <5>4, <5>5 DEF Unread
      <4> QED
        BY <2>2, <2>4, <4>1, NamedPathGoverns
    <3> QED
      BY <2>2, <2>4, <3>1 DEF Validates
  <2> QED
    BY <2>1, <2>4, <2>5, SharedSchemaAccepts
<1>3. CASE Gone # {}
  <2>1. Gone \in SUBSET Nat
    BY <1>1
  <2>2. PICK i \in Gone : \A k \in Gone : i <= k
    BY <1>3, <2>1, LeastElement
  <2>3. Prefix(q, 0) \in Shared(r, w)
    BY <1>1, PrefixEnds, EmptySeq DEF IsDocument, Shared
  <2>4. i \in 1 .. Len(q) /\ i - 1 \in 0 .. Len(q)
    BY <1>1, <2>2, <2>3
  <2>5. Prefix(q, i - 1) \in Shared(r, w)
    BY <1>1, <2>2, <2>4
  <2>6. Prefix(q, i) \notin Shared(r, w)
    BY <2>2
  <2> QED
    BY <2>4, <2>5, <2>6, LastSharedSchema
<1> QED
  BY <1>2, <1>3

-----------------------------------------------------------------------------
\* The first entry of a class tells the group of kinds it stands for.
LEMMA ClassOfKind ==
  ASSUME NEW f, f.kind \in Kind
  PROVE  /\ WireClass(f)[1] = "map" <=> f.kind = "map"
         /\ WireClass(f)[1] = "varint" <=> f.kind \in Varint
         /\ WireClass(f)[1] = "zigzag" <=> f.kind \in Zigzag
         /\ WireClass(f)[1] = "fixed32-int" <=> f.kind \in Fixed32
         /\ WireClass(f)[1] = "fixed64-int" <=> f.kind \in Fixed64
         /\ WireClass(f)[1] = "length-scalar" <=> f.kind \in LengthScalar
         /\ WireClass(f)[1] = "message" <=> f.kind \in Composite
         /\ WireClass(f)[1] = "float" <=> f.kind = "float"
         /\ WireClass(f)[1] = "double" <=> f.kind = "double"
         /\ f.kind = "map" => WireClass(f)[2] = f.key
         /\ f.kind \in Composite => WireClass(f)[2] = f.type
BY SMTT(20) DEF WireClass, Kind, Varint, Zigzag, Fixed32, Fixed64, LengthScalar, Composite

\* How a field of each kind is encoded.
LEMMA EncodingOfKind ==
  ASSUME NEW f, f.kind \in Kind
  PROVE  /\ f.kind = "map" => Encoding(f) = <<"len", "entries", f.key, f.value>>
         /\ f.kind \in Varint => Encoding(f) = <<"varint", "plain">>
         /\ f.kind \in Zigzag => Encoding(f) = <<"varint", "zigzag">>
         /\ f.kind \in Fixed32 => Encoding(f) = <<"i32", "integer">>
         /\ f.kind \in Fixed64 => Encoding(f) = <<"i64", "integer">>
         /\ f.kind \in LengthScalar => Encoding(f) = <<"len", "bytes">>
         /\ f.kind = "message" => Encoding(f) = <<"len", "message", f.type>>
         /\ f.kind = "group" => Encoding(f) = <<"group", "message", f.type>>
         /\ f.kind = "float" => Encoding(f) = <<"i32", "float">>
         /\ f.kind = "double" => Encoding(f) = <<"i64", "float">>
BY SMTT(20) DEF Encoding, Kind, Varint, Zigzag, Fixed32, Fixed64, LengthScalar, Composite

\* compareFiles is right about a field: unless the two differ in something
\* wireClass leaves out, the reader reads what the writer writes.
LEMMA SameClassReads ==
  ASSUME NEW f, f.kind \in Kind, NEW g, g.kind \in Kind,
         WireClass(f) = WireClass(g), ~Overlooked(f, g)
  PROVE  ReadsField(f, g)
<1> DEFINE F == f.kind
           G == g.kind
<1>1. g.packed => f.packed
  BY DEF Overlooked
<1>2. /\ F = "map" <=> G = "map"
      /\ F \in Varint <=> G \in Varint
      /\ F \in Zigzag <=> G \in Zigzag
      /\ F \in Fixed32 <=> G \in Fixed32
      /\ F \in Fixed64 <=> G \in Fixed64
      /\ F \in LengthScalar <=> G \in LengthScalar
      /\ F \in Composite <=> G \in Composite
      /\ F = "float" <=> G = "float"
      /\ F = "double" <=> G = "double"
  BY ClassOfKind
<1>3. F = "map" => f.key = g.key /\ f.value = g.value
  <2>1. F = "map" => f.key = g.key
    BY <1>2, ClassOfKind
  <2> QED
    BY <1>2, <2>1 DEF Overlooked
<1>4. F \in Composite => f.type = g.type /\ F = G
  <2>1. F \in Composite => f.type = g.type
    BY <1>2, ClassOfKind
  <2> QED
    BY <1>2, <2>1 DEF Overlooked, Composite
<1>5. Encoding(f) = Encoding(g)
  <2>1. CASE F \in Composite
    <3>1. F = "message" \/ F = "group"
      BY <2>1 DEF Composite
    <3> QED
      BY <1>4, <2>1, <3>1, EncodingOfKind
  <2>2. CASE F = "map"
    BY <1>2, <1>3, <2>2, EncodingOfKind
  <2>3. CASE F \notin Composite /\ F # "map"
    <3>1. \/ F \in Varint \/ F \in Zigzag \/ F \in Fixed32 \/ F \in Fixed64
          \/ F \in LengthScalar \/ F = "float" \/ F = "double"
      BY <2>3 DEF Kind
    <3> QED
      BY <1>2, <3>1, EncodingOfKind
  <2> QED
    BY <2>1, <2>2, <2>3
<1>6. G = "bytes" => F = "bytes"
  <2>1. G = "bytes" => F \in LengthScalar /\ F # "string"
    BY <1>2 DEF Overlooked, LengthScalar
  <2> QED
    BY <2>1 DEF LengthScalar
<1> QED
  BY <1>1, <1>5, <1>6 DEF ReadsField

-----------------------------------------------------------------------------
\* A relation that leads from every place of low + 1 .. high to an earlier one,
\* and that carries on to low, leads from high to low.
LEMMA Chain ==
  ASSUME NEW low \in Nat, NEW high \in Nat, low < high, NEW R,
         \A h \in low + 1 .. high : \E v \in low .. h - 1 : <<h, v>> \in R,
         \A a, b \in low .. high : <<a, b>> \in R /\ <<b, low>> \in R => <<a, low>> \in R
  PROVE  <<high, low>> \in R
<1> DEFINE Bad == {h \in low + 1 .. high : <<h, low>> \notin R}
<1> SUFFICES ASSUME Bad # {} PROVE FALSE
  OBVIOUS
<1>1. Bad \in SUBSET Nat
  OBVIOUS
<1>2. PICK h \in Bad : \A k \in Bad : h <= k
  BY <1>1, LeastElement
<1>3. PICK v \in low .. h - 1 : <<h, v>> \in R
  BY <1>2
<1>4. v # low /\ v \in low + 1 .. high /\ v < h /\ v \in low .. high /\ h \in low .. high
  BY <1>2, <1>3
<1>5. <<v, low>> \in R
  BY <1>2, <1>4
<1> QED
  BY <1>2, <1>3, <1>4, <1>5

\* The later version was compared with the earlier one or with one between.
Related(low, high) ==
    \E v \in low .. high - 1 :
        (level \in TransitiveLevels => v = low) /\ Compatible(history[high], history[v])

\* What holds in every state: the types, and that a version was found
\* compatible with every earlier version that is still active, or with a
\* version after that one.
EInv ==
    /\ format \in {"JSON", "PROTOBUF"}
    /\ history \in Seq(Schemas)
    /\ \A low \in Active, high \in DOMAIN history : low < high => Related(low, high)

\* Evolution speaks of the versions as this module does.
LEMMA SameComparison ==
  /\ E!Active = Active /\ E!Schemas = Schemas /\ E!TransitiveLevels = TransitiveLevels
  /\ \A x, y : E!Compatible(x, y) <=> Compatible(x, y)
<1>1. \A x, y : E!CompareDocuments(x, y) <=> CompareDocuments(x, y)
  BY DEF CompareDocuments, CompareSchemas, Shared, Properties, TypeSuperset, Open,
     E!CompareDocuments, E!CompareSchemas, E!Shared, E!Properties, E!TypeSuperset, E!Open
<1>2. \A f : E!WireClass(f) = WireClass(f)
  BY DEF WireClass, Varint, Zigzag, Fixed32, Fixed64, LengthScalar, Composite,
     E!WireClass, E!Varint, E!Zigzag, E!Fixed32, E!Fixed64, E!LengthScalar, E!Composite
<1>3. \A x, y : E!CompareFiles(x, y) <=> CompareFiles(x, y)
  BY <1>2 DEF CompareFiles, Common, E!CompareFiles, E!Common
<1>4. \A x, y : E!Compare(x, y) <=> Compare(x, y)
  BY <1>1, <1>3 DEF Compare, E!Compare
<1>5. \A x, y : E!Compatible(x, y) <=> Compatible(x, y)
  BY <1>4 DEF Compatible, BackwardLevels, ForwardLevels,
     E!Compatible, E!BackwardLevels, E!ForwardLevels
<1> QED
  BY <1>5 DEF Active, Schemas, TransitiveLevels, E!Active, E!Schemas, E!TransitiveLevels

\* A subject without versions satisfies it.
LEMMA InitEInv == E!Init => EInv
BY EmptySeq DEF E!Init, EInv, Active

\* The version a candidate is compared with exists.
LEMMA LatestActive ==
  ASSUME history \in Seq(Schemas), NEW low \in Active
  PROVE  \E v \in Active : low <= v /\ \A w \in Active : w <= v
<1> DEFINE n == Len(history)
           Back == {n - v : v \in Active}
<1>1. n \in Nat /\ Active \subseteq 1 .. n
  BY LenProperties DEF Active
<1>2. Back \in SUBSET Nat /\ Back # {}
  BY <1>1
<1>3. PICK x \in Back : \A y \in Back : x <= y
  BY <1>2, LeastElement
<1>4. PICK v \in Active : x = n - v
  BY <1>3
<1>5. ASSUME NEW w \in Active PROVE w <= v
  <2>1. n - v <= n - w
    BY <1>3, <1>4
  <2> QED
    BY <1>1, <2>1
<1> QED
  BY <1>4, <1>5

\* Whatever is registered and deleted, the comparisons lead from a version back
\* to every active one.
LEMMA StepEInv == EInv /\ [E!Next]_(E!vars) => EInv'
<1> SUFFICES ASSUME EInv, [E!Next]_(E!vars) PROVE EInv'
  OBVIOUS
<1>1. /\ history \in Seq(Schemas) /\ Len(history) \in Nat /\ DOMAIN history = 1 .. Len(history)
      /\ format \in {"JSON", "PROTOBUF"}
  BY LenProperties DEF EInv
<1>2. ASSUME NEW low \in Active, NEW high \in DOMAIN history, low < high
      PROVE  \E v \in low .. high - 1 :
                (level \in TransitiveLevels => v = low) /\ Compatible(history[high], history[v])
  BY <1>2 DEF EInv, Related
<1>3. ASSUME NEW x \in Schemas, E!Register(x) PROVE EInv'
  <2>1. /\ format' = format /\ level' = level /\ deleted' = deleted
        /\ history' = Append(history, x)
    BY <1>3 DEF E!Register
  <2>2. Schemas' = Schemas
    BY <2>1 DEF Schemas
  <2>3. /\ history' \in Seq(Schemas) /\ Len(history') = Len(history) + 1
        /\ \A i \in 1 .. Len(history) : history'[i] = history[i]
        /\ history'[Len(history) + 1] = x
    BY <1>1, <2>1, AppendProperties
  <2>4. DOMAIN history' = 1 .. Len(history) + 1
    BY <2>3, LenProperties
  <2>5. ASSUME NEW low \in Active', NEW high \in DOMAIN history', low < high
        PROVE  Related(low, high)'
    <3>1. low \in 1 .. Len(history) /\ low \in Active
      BY <1>1, <2>1, <2>4, <2>5 DEF Active
    <3>2. SUFFICES \E v \in low .. high - 1 :
             (level \in TransitiveLevels => v = low) /\ Compatible(history'[high], history'[v])
      BY <2>1 DEF Related, Compatible, Compare
    <3>3. CASE high \in 1 .. Len(history)
      <4>1. PICK v \in low .. high - 1 :
               (level \in TransitiveLevels => v = low) /\ Compatible(history[high], history[v])
        BY <1>1, <1>2, <2>5, <3>1, <3>3
      <4>2. history'[v] = history[v] /\ history'[high] = history[high]
        BY <2>3, <3>1, <3>3, <4>1
      <4> QED
        BY <4>1, <4>2
    <3>4. CASE high = Len(history) + 1
      <4>1. PICK v \in E!Compared : low <= v /\ (level \in TransitiveLevels => v = low)
        BY <1>1, <3>1, LatestActive, SameComparison DEF E!Compared
      <4>2. v \in 1 .. Len(history) /\ Compatible(x, history[v])
        BY <1>1, <1>3, <4>1, SameComparison DEF E!Register, E!Compared, Active
      <4>3. v \in low .. high - 1 /\ history'[v] = history[v] /\ history'[high] = x
        BY <1>1, <2>3, <3>1, <3>4, <4>1, <4>2
      <4> QED
        BY <4>1, <4>2, <4>3
    <3> QED
      BY <1>1, <2>4, <3>3, <3>4
  <2> QED
    BY <1>1, <2>1, <2>2, <2>3, <2>5 DEF EInv
<1>4. ASSUME NEW d \in Active, E!DeleteVersion(d) PROVE EInv'
  <2>1. format' = format /\ level' = level /\ history' = history /\ Active' \subseteq Active
    BY <1>4 DEF E!DeleteVersion, Active
  <2>2. Schemas' = Schemas
    BY <2>1 DEF Schemas
  <2>3. ASSUME NEW low \in Active', NEW high \in DOMAIN history', low < high
        PROVE  Related(low, high)'
    BY <1>2, <2>1, <2>3 DEF Related, Compatible, Compare
  <2> QED
    BY <1>1, <2>1, <2>2, <2>3 DEF EInv
<1>5. CASE UNCHANGED E!vars
  BY <1>5 DEF E!vars, EInv, Related, Active, Schemas, Compatible, Compare
<1> QED
  BY <1>3, <1>4, <1>5, SameComparison DEF E!Next

\* The pairs of S whose reverse is in G.
LEMMA ReversedPairs ==
  ASSUME NEW S, NEW G
  PROVE  \A x, y \in S : <<x, y>> \in {e \in S \X S : <<e[2], e[1]>> \in G} <=> <<y, x>> \in G
OBVIOUS

\* A pair of active versions the level speaks about is in every transitive
\* relation that holds of the pairs that were compared on the way.
LEMMA PromisedIsRelated ==
  ASSUME EInv, NEW p \in Promised, NEW G,
         \A q \in Between(p) :
            q \in (DOMAIN history) \X (DOMAIN history) /\ Compare(history[q[1]], history[q[2]]) => q \in G,
         \A a, b, c \in DOMAIN history : <<a, b>> \in G /\ <<b, c>> \in G => <<a, c>> \in G
  PROVE  p \in G
<1>1. /\ history \in Seq(Schemas) /\ Len(history) \in Nat /\ DOMAIN history = 1 .. Len(history)
      /\ Active \subseteq 1 .. Len(history)
  BY LenProperties DEF EInv, Active
<1>2. PICK a \in Active, b \in Active : p = <<a, b>>
  BY DEF Promised
<1>3. a \in 1 .. Len(history) /\ b \in 1 .. Len(history)
  BY <1>1, <1>2
<1>4. p[1] = a /\ p[2] = b
  BY <1>2
<1>5. ASSUME NEW low \in Active, NEW high \in 1 .. Len(history), low < high
      PROVE  \E v \in low .. high - 1 :
                (level \in TransitiveLevels => v = low) /\ Compatible(history[high], history[v])
  BY <1>1, <1>5 DEF EInv, Related
<1>6. ASSUME level \in BackwardLevels, a > b PROVE p \in G
  <2>1. CASE level \in TransitiveLevels
    <3>1. Between(p) = {p}
      BY <2>1 DEF Between
    <3>2. Compatible(history[a], history[b])
      BY <1>3, <1>5, <1>6, <2>1
    <3> QED
      BY <1>1, <1>2, <1>3, <1>4, <1>6, <3>1, <3>2 DEF Compatible
  <2>2. CASE level \notin TransitiveLevels
    <3>1. ASSUME NEW h \in b + 1 .. a PROVE \E v \in b .. h - 1 : <<h, v>> \in G
      <4>1. h \in 1 .. Len(history) /\ b < h
        BY <1>1, <1>3, <1>6
      <4>2. PICK v \in b .. h - 1 : Compatible(history[h], history[v])
        BY <1>5, <4>1
      <4>3. v \in 1 .. Len(history) /\ v \in b .. a /\ h \in b .. a /\ v < h
        BY <1>1, <1>3, <4>1, <4>2
      <4>4. <<h, v>> \in Between(p)
        BY <1>1, <1>3, <1>4, <1>6, <2>2, <4>3 DEF Between
      <4> QED
        BY <1>1, <1>6, <4>1, <4>2, <4>3, <4>4 DEF Compatible
    <3>2. \A x, y \in b .. a : <<x, y>> \in G /\ <<y, b>> \in G => <<x, b>> \in G
      <4>1. \A x \in b .. a : x \in DOMAIN history
        BY <1>1, <1>3
      <4>2. b \in DOMAIN history
        BY <1>1, <1>3
      <4> QED
        BY <4>1, <4>2, Zenon
    <3> QED
      BY <1>1, <1>2, <1>3, <1>6, <3>1, <3>2, Chain
  <2> QED
    BY <2>1, <2>2
<1>7. ASSUME level \in ForwardLevels, a < b PROVE p \in G
  <2>1. CASE level \in TransitiveLevels
    <3>1. Between(p) = {p}
      BY <2>1 DEF Between
    <3>2. Compatible(history[b], history[a])
      BY <1>3, <1>5, <1>7, <2>1
    <3> QED
      BY <1>1, <1>2, <1>3, <1>4, <1>7, <3>1, <3>2 DEF Compatible
  <2>2. CASE level \notin TransitiveLevels
    <3> DEFINE R == {e \in (a .. b) \X (a .. b) : <<e[2], e[1]>> \in G}
    <3>1. ASSUME NEW h \in a + 1 .. b PROVE \E v \in a .. h - 1 : <<h, v>> \in R
      <4>1. h \in 1 .. Len(history) /\ a < h
        BY <1>1, <1>3, <1>7
      <4>2. PICK v \in a .. h - 1 : Compatible(history[h], history[v])
        BY <1>5, <4>1
      <4>3. v \in 1 .. Len(history) /\ v \in a .. b /\ h \in a .. b /\ v < h
        BY <1>1, <1>3, <4>1, <4>2
      <4>4. <<v, h>> \in Between(p)
        BY <1>1, <1>3, <1>4, <1>7, <2>2, <4>3 DEF Between
      <4>5. <<v, h>> \in G
        BY <1>1, <1>7, <4>1, <4>2, <4>3, <4>4 DEF Compatible
      <4> QED
        BY <4>2, <4>3, <4>5
    <3>2. \A x, y \in a .. b : <<x, y>> \in R /\ <<y, a>> \in R => <<x, a>> \in R
      <4>1. \A x \in a .. b : x \in DOMAIN history
        BY <1>1, <1>3
      <4>2. a \in DOMAIN history /\ a \in a .. b
        BY <1>1, <1>3, <1>7
      <4>3. \A x, y \in a .. b : <<x, y>> \in R <=> <<y, x>> \in G
        BY ReversedPairs, Zenon
      <4> QED
        BY <4>1, <4>2, <4>3, Zenon
    <3> HIDE DEF R
    <3>3. <<b, a>> \in R
      BY <1>1, <1>3, <1>7, <3>1, <3>2, Chain
    <3> QED
      BY <1>2, <3>3 DEF R
  <2> QED
    BY <2>1, <2>2
<1> QED
  BY <1>3, <1>4, <1>6, <1>7 DEF Promised

\* A consumer keeps up with every version the level relates it to, whatever the
\* documents and values, the order of registrations and the deletions between.
LEMMA ReadersFromEInv ==
  ASSUME EInv PROVE ReadersKeepUp
<1> SUFFICES ASSUME format = "JSON", NEW p \in Promised,
                    \A q \in Between(p) : ~Unread(history[q[1]], history[q[2]])
             PROVE  Covers(Values, history[p[1]], history[p[2]])
  BY DEF ReadersKeepUp
<1> DEFINE D == DOMAIN history
           G == {q \in D \X D : Covers(Values, history[q[1]], history[q[2]])}
<1>1. \A i \in D : IsDocument(history[i])
  <2>1. history \in Seq(Documents)
    BY DEF EInv, Schemas
  <2> QED
    BY <2>1, LenProperties, ElementOfSeq, SchemasAssumption
<1>2. ASSUME NEW q \in Between(p), q \in D \X D, Compare(history[q[1]], history[q[2]])
      PROVE  q \in G
  <2> DEFINE r == history[q[1]]
             w == history[q[2]]
  <2>1. IsDocument(r) /\ IsDocument(w) /\ CompareDocuments(r, w) /\ ~Unread(r, w)
    BY <1>1, <1>2 DEF Compare
  <2>2. \A v \in Values : IsValue(v)
    BY SchemasAssumption
  <2> HIDE DEF r, w
  <2>3. \A v \in Values : Validates(w, v) => Validates(r, v)
    BY <2>1, <2>2, ComparedDocumentsAgree
  <2> QED
    BY <1>2, <2>3 DEF r, w, Covers
<1>3. \A a, b, c \in D : <<a, b>> \in G /\ <<b, c>> \in G => <<a, c>> \in G
  <2>1. \A a, b \in D : <<a, b>> \in G <=> Covers(Values, history[a], history[b])
    OBVIOUS
  <2>2. \A x, y, z : Covers(Values, x, y) /\ Covers(Values, y, z) => Covers(Values, x, z)
    BY DEF Covers
  <2> QED
    BY <2>1, <2>2
<1> HIDE DEF G
<1>4. p \in G
  BY <1>2, <1>3, PromisedIsRelated
<1> QED
  BY <1>4 DEF G

\* A field number is read as it was written across all the versions the level
\* relates, unless one of them has no such field or wireClass overlooks the change.
LEMMA NumbersFromEInv ==
  ASSUME EInv PROVE NumbersKeepTheirEncoding
<1> SUFFICES ASSUME format = "PROTOBUF", NEW p \in Promised, NEW m, NEW n,
                    \A q \in Between(p) :
                       /\ m \in Common(history[q[1]], history[q[2]])
                       /\ n \in Common(history[q[1]][m], history[q[2]][m])
                       /\ ~Overlooked(history[q[1]][m][n], history[q[2]][m][n])
             PROVE  ~Misreads(history[p[1]], history[p[2]], m, n)
  BY Zenon DEF NumbersKeepTheirEncoding
<1> DEFINE D == DOMAIN history
           G == {q \in D \X D : ReadsField(history[q[1]][m][n], history[q[2]][m][n])}
<1>1. \A i \in D : history[i] \in Files
  <2>1. history \in Seq(Files)
    BY DEF EInv, Schemas
  <2> QED
    BY <2>1, LenProperties, ElementOfSeq
<1>2. ASSUME NEW q \in Between(p), q \in D \X D, Compare(history[q[1]], history[q[2]])
      PROVE  q \in G
  <2> DEFINE r == history[q[1]]
             w == history[q[2]]
  <2>1. r \in Files /\ w \in Files /\ CompareFiles(r, w)
    BY <1>1, <1>2 DEF Compare
  <2>2. m \in DOMAIN r /\ m \in DOMAIN w /\ n \in DOMAIN r[m] /\ n \in DOMAIN w[m]
        /\ ~Overlooked(r[m][n], w[m][n])
    BY <1>2 DEF Common
  <2> HIDE DEF r, w
  <2>3. WireClass(r[m][n]) = WireClass(w[m][n])
    BY <2>1, <2>2 DEF CompareFiles, Common
  <2>4. r[m][n].kind \in Kind /\ w[m][n].kind \in Kind
    BY <2>1, <2>2, SchemasAssumption
  <2>5. ReadsField(r[m][n], w[m][n])
    BY <2>2, <2>3, <2>4, SameClassReads
  <2> QED
    BY <1>2, <2>5 DEF r, w
<1>3. \A a, b, c \in D : <<a, b>> \in G /\ <<b, c>> \in G => <<a, c>> \in G
  BY DEF ReadsField
<1> HIDE DEF G
<1>4. p \in G
  BY <1>2, <1>3, PromisedIsRelated
<1> QED
  BY <1>4 DEF G, Misreads

\* A consumer with one version of a JSON Schema reads everything a producer wrote
\* with another that the level relates it to, unless the reader on some step
\* between has a restriction compareDocuments does not look at: for all documents
\* of any depth, all values, all levels and any number of versions.
THEOREM ReadersAlwaysKeepUp == E!Spec => []ReadersKeepUp
<1>1. EInv => ReadersKeepUp
  BY ReadersFromEInv
<1> QED
  BY <1>1, InitEInv, StepEInv, PTL DEF E!Spec

\* A field number is read as it was written across the versions the level
\* relates, unless it is missing in one of them or the fields differ in what
\* wireClass leaves out: for all files, levels and any number of versions.
THEOREM NumbersAlwaysKeepTheirEncoding == E!Spec => []NumbersKeepTheirEncoding
<1>1. EInv => NumbersKeepTheirEncoding
  BY NumbersFromEInv
<1> QED
  BY <1>1, InitEInv, StepEInv, PTL DEF E!Spec
=============================================================================
