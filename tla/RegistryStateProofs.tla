-------------------------- MODULE RegistryStateProofs --------------------------
(***************************************************************************)
(* Facts about the operators of RegistryState, shared by the proofs about  *)
(* the modules that hold registry state: a transition that some command    *)
(* plans and that applies takes a well-formed state to a well-formed one.  *)
(***************************************************************************)
EXTENDS RegistryState, WellFoundedInduction, TLAPS

\* A set of natural numbers has a least element.
LEMMA LeastElement ==
  ASSUME NEW S \in SUBSET Nat, S # {}
  PROVE  \E x \in S : \A y \in S : x <= y
<1>1. \E x \in S : \A y \in S : ~(<<y, x>> \in OpToRel(<, Nat))
  BY NatLessThanWellFounded, WFMin, Zenon
<1>2. \A x, y \in Nat : ~(<<y, x>> \in OpToRel(<, Nat)) => x <= y
  BY DEF OpToRel
<1> QED
  BY <1>1, <1>2

\* A bounded set of integers has a greatest one.
LEMMA GreatestElement ==
  ASSUME NEW b \in Int, NEW S \in SUBSET Int, S # {}, \A x \in S : x <= b
  PROVE  \E x \in S : \A y \in S : y <= x
<1> DEFINE T == {b - x : x \in S}
<1>1. T \in SUBSET Nat
  <2>1. \A x \in S : b - x \in Nat
    OBVIOUS
  <2> QED
    BY <2>1
<1>2. T # {}
  OBVIOUS
<1>3. PICK t \in T : \A y \in T : t <= y
  BY <1>1, <1>2, LeastElement
<1>4. PICK x \in S : t = b - x
  OBVIOUS
<1>5. \A y \in S : b - x <= b - y
  BY <1>3, <1>4
<1> QED
  BY <1>5

\* The empty registry NewState returns is well formed.
LEMMA NewStateWellFormed == WellFormed(NewState)
<1>1. NewState \in Snapshot
  BY ConstantsAssumption DEF NewState, Snapshot, Int64, Levels, Modes
<1>2. Valid(NewState) /\ IDsMatch(NewState) /\ CounterIsFresh(NewState)
  BY ConstantsAssumption DEF NewState, Valid, IDsMatch, CounterIsFresh
<1>3. OneActive(NewState) /\ ReferencesKept(NewState) /\ DeletedFirst(NewState) /\ Sequenced(NewState)
  BY DEF NewState, OneActive, ReferencesKept, DeletedFirst, Sequenced
<1> QED
  BY <1>1, <1>2, <1>3 DEF WellFormed

\* A registration that planRegister accepts and Apply validates keeps the
\* state well formed.
LEMMA RegisterWellFormed ==
  ASSUME NEW st, WellFormed(st),
         NEW c, c.op \in Operation, c.subject \in Subject, c.identity \in Identity, c.id \in Int64,
         RegisterAllowed(st, c), Applies(st, RegisterEnvelope(st, c))
  PROVE  /\ WellFormed(Apply(st, RegisterEnvelope(st, c)))
         /\ RegisterEnvelope(st, c).Result \in Result
<1> DEFINE e    == RegisterEnvelope(st, c)
           nst  == Apply(st, e)
           id   == RegisterID(st, c)
           v    == RegisterVersion(st, c)
           x    == c.identity
           s    == c.subject
           n    == st.Sequence + 1
           item == NewVersion(e)
<1>1. /\ s \in Subject /\ x \in Identity
      /\ c.op \in Operation /\ c.id \in Int64
  OBVIOUS
<1>2. st \in Snapshot /\ Valid(st)
  BY DEF WellFormed
<1>3. id \in Int64
  BY <1>1, <1>2 DEF RegisterID, Snapshot
<1>4. /\ e.Sequence = n /\ e.OperationID = c.op /\ e.Kind = "schema_registered"
      /\ e.Payload.subject = s /\ e.Payload.identity = x
      /\ e.Payload.id = id /\ e.Payload.version = v
      /\ e.Result = [SchemaID |-> id, Version |-> v, Versions |-> {}]
  BY DEF RegisterEnvelope, Envelope, ResultOf
<1>5. item = [version |-> v, id |-> id, seq |-> n, deleted |-> FALSE, permanent |-> FALSE]
  BY <1>4 DEF NewVersion
<1>6. /\ nst.Sequence = n
      /\ nst.NextSchemaID = IF id >= st.NextSchemaID THEN Increment(id) ELSE st.NextSchemaID
      /\ nst.Schemas = [st.Schemas EXCEPT ![id] = x]
      /\ nst.IdentityToID = [st.IdentityToID EXCEPT ![x] = id]
      /\ nst.Subjects = [st.Subjects EXCEPT ![s] = @ \cup {item}]
      /\ nst.GlobalCompatibility = st.GlobalCompatibility
      /\ nst.SubjectCompatibility = st.SubjectCompatibility
      /\ nst.GlobalMode = st.GlobalMode
      /\ nst.SubjectModes = st.SubjectModes
      /\ nst.Operations = OperationsAfter(st, e)
  BY <1>4 DEF Apply, NextSchemaIDAfter, SchemasAfter, IdentityToIDAfter, SubjectsAfter,
     GlobalCompatibilityAfter, SubjectCompatibilityAfter, GlobalModeAfter, SubjectModesAfter,
     SetsGlobal, SetsSubject
<1>7. Valid(nst)
  BY DEF Applies
<1>8. v \in 1 .. MaxInt
  <2>1. item \in nst.Subjects[s]
    BY <1>1, <1>2, <1>6 DEF Snapshot
  <2> QED
    BY <2>1, <1>1, <1>5, <1>7 DEF Valid
<1>9. item \in SubjectVersion
  BY <1>2, <1>3, <1>5, <1>8, ConstantsAssumption DEF SubjectVersion, Int64, Snapshot
<1>9a. e.Result \in Result
  BY <1>3, <1>4, <1>8, ConstantsAssumption DEF Result, Int64
<1>10. nst \in Snapshot
  <2>1. OperationsAfter(st, e) \in [OperationID -> Result \cup {None}]
    BY <1>9a, <1>1, <1>2, <1>4 DEF OperationsAfter, Snapshot, Operation
  <2>2. nst.NextSchemaID \in Int64
    BY <1>7, ConstantsAssumption DEF Valid, Int64
  <2>3. nst.Subjects \in [Subject -> SUBSET SubjectVersion]
    BY <1>1, <1>2, <1>6, <1>9 DEF Snapshot
  <2>4. /\ nst.Schemas \in [Int64 -> Identity \cup {None}]
        /\ nst.IdentityToID \in [Identity -> Int64 \cup {None}]
    BY <1>1, <1>2, <1>3, <1>6 DEF Snapshot
  <2> QED
    BY <1>2, <1>6, <2>1, <2>2, <2>3, <2>4 DEF Snapshot, Apply
<1>11. IDsMatch(nst)
  BY <1>1, <1>2, <1>3, <1>6, ConstantsAssumption, NoneAssumption
     DEF WellFormed, IDsMatch, Snapshot, RegisterAllowed, RegisterID
<1>12. CounterIsFresh(nst)
  BY <1>1, <1>2, <1>3, <1>6, <1>7, ConstantsAssumption, SMTT(30)
     DEF WellFormed, CounterIsFresh, Snapshot, Valid, Increment, Int64
<1> HIDE DEF nst, e, id, v, item
<1>13. OneActive(nst)
  <2>1. \A j \in st.Subjects[s] : IsActive(j) => j.id # id
    <3> SUFFICES ASSUME NEW j \in st.Subjects[s], IsActive(j), j.id = id
                 PROVE  FALSE
      OBVIOUS
    <3>1. st.Schemas[id] # None
      BY <1>1, <1>2 DEF Valid
    <3>2. st.Schemas[id] = x
      BY <3>1 DEF RegisterAllowed, id
    <3>3. st.IdentityToID[x] = id
      BY <3>1, <3>2, <1>3 DEF WellFormed, IDsMatch
    <3> QED
      BY <3>3 DEF RegisterAllowed, IsDuplicate
  <2> SUFFICES ASSUME NEW t \in Subject, NEW i \in nst.Subjects[t], NEW j \in nst.Subjects[t],
                      IsActive(i), IsActive(j), i.id = j.id
               PROVE  i = j
    BY DEF OneActive
  <2>2. CASE i \in st.Subjects[t] /\ j \in st.Subjects[t]
    BY <2>2 DEF WellFormed, OneActive
  <2>3. CASE ~(i \in st.Subjects[t] /\ j \in st.Subjects[t])
    <3>1. /\ t = s
          /\ i \in st.Subjects[s] \cup {item}
          /\ j \in st.Subjects[s] \cup {item}
      BY <2>3, <1>1, <1>2, <1>6 DEF Snapshot
    <3>2. item.id = id
      BY <1>5
    <3> QED
      BY <3>1, <3>2, <2>1, <2>3
  <2> QED
    BY <2>2, <2>3
<1>14. ReferencesKept(nst)
  <2>1. \A t \in Subject : st.Subjects[t] \subseteq nst.Subjects[t]
    BY <1>1, <1>2, <1>6 DEF Snapshot
  <2> SUFFICES ASSUME NEW t \in Subject, NEW i \in nst.Subjects[t], IsActive(i),
                      NEW r \in Refs[nst.Schemas[i.id]]
               PROVE  \E j \in nst.Subjects[r.subject] : j.version = r.version /\ ~j.permanent
    BY DEF ReferencesKept
  <2>2. CASE i \in st.Subjects[t]
    <3>1. i.id \in Int64 /\ st.Schemas[i.id] # None
      BY <2>2, <1>2 DEF Valid, Snapshot, SubjectVersion
    <3>2. nst.Schemas[i.id] = st.Schemas[i.id]
      BY <3>1, <1>2, <1>3, <1>6 DEF RegisterAllowed, Snapshot, id
    <3>3. st.Schemas[i.id] \in Identity
      BY <3>1, <1>2 DEF Snapshot
    <3>4. r.subject \in Subject
      BY <3>2, <3>3, ConstantsAssumption DEF Reference
    <3>5. \E j \in st.Subjects[r.subject] : j.version = r.version /\ ~j.permanent
      BY <2>2, <3>2 DEF WellFormed, ReferencesKept
    <3> QED
      BY <3>4, <3>5, <2>1
  <2>3. CASE i \notin st.Subjects[t]
    <3>1. i.id = id
      BY <2>3, <1>1, <1>2, <1>5, <1>6 DEF Snapshot
    <3>2. nst.Schemas[i.id] = x
      BY <3>1, <1>2, <1>3, <1>6 DEF Snapshot
    <3>3. r \in Refs[x] /\ r.subject \in Subject
      BY <3>2, <1>1, ConstantsAssumption DEF Reference
    <3>4. HasVersion(st, r.subject, r.version, FALSE)
      BY <3>3 DEF RegisterAllowed
    <3> QED
      BY <3>3, <3>4, <2>1 DEF HasVersion, Versions, Visible
  <2> QED
    BY <2>2, <2>3
<1>15. DeletedFirst(nst)
  BY <1>1, <1>2, <1>5, <1>6 DEF WellFormed, DeletedFirst, Snapshot
<1>16. Sequenced(nst)
  BY <1>1, <1>2, <1>5, <1>6 DEF WellFormed, Sequenced, Snapshot, SubjectVersion
<1> QED
  BY <1>7, <1>9a, <1>10, <1>11, <1>12, <1>13, <1>14, <1>15, <1>16 DEF WellFormed, nst, e

\* Recording an operation's result keeps the operation index typed.
LEMMA OperationsTyped ==
  ASSUME NEW st \in Snapshot, NEW e, e.OperationID \in Operation, e.Result \in Result
  PROVE  OperationsAfter(st, e) \in [OperationID -> Result \cup {None}]
BY DEF OperationsAfter, Snapshot, Operation

\* A deletion whose permanent form passed MayDestroy keeps the state well
\* formed.
LEMMA DeletionWellFormed ==
  ASSUME NEW st, WellFormed(st), NEW e,
         e.Kind \in Deletions, e.OperationID \in Operation, e.Result \in Result,
         e.Payload.subject \in Subject, e.Payload.permanent \in BOOLEAN,
         e.Payload.permanent =>
            \A v \in e.Payload.versions : MayDestroy(st, e.Payload.subject, v),
         Applies(st, e)
  PROVE  WellFormed(Apply(st, e))
<1> DEFINE p   == e.Payload
           s   == e.Payload.subject
           nst == Apply(st, e)
<1>1. st \in Snapshot /\ Valid(st) /\ IDsMatch(st) /\ OneActive(st) /\ ReferencesKept(st)
      /\ DeletedFirst(st) /\ Sequenced(st) /\ CounterIsFresh(st)
  BY DEF WellFormed
<1>2. Valid(nst) /\ e.Sequence = st.Sequence + 1
  BY DEF Applies
<1>3. /\ nst.Sequence = st.Sequence + 1
      /\ nst.NextSchemaID = st.NextSchemaID
      /\ nst.Schemas = st.Schemas
      /\ nst.IdentityToID = st.IdentityToID
      /\ nst.Subjects = [st.Subjects EXCEPT ![s] = {MarkDeleted(i, p) : i \in @}]
      /\ nst.GlobalCompatibility = st.GlobalCompatibility
      /\ nst.SubjectCompatibility = st.SubjectCompatibility
      /\ nst.GlobalMode = st.GlobalMode
      /\ nst.SubjectModes = st.SubjectModes
      /\ nst.Operations = OperationsAfter(st, e)
  BY <1>2 DEF Deletions, Apply, NextSchemaIDAfter, SchemasAfter, IdentityToIDAfter, SubjectsAfter,
     GlobalCompatibilityAfter, SubjectCompatibilityAfter, GlobalModeAfter, SubjectModesAfter,
     SetsGlobal, SetsSubject
<1> HIDE DEF nst
\* Each version of the new state comes from one of the old state.
<1>4. ASSUME NEW t \in Subject, NEW j \in nst.Subjects[t]
      PROVE  \E i \in st.Subjects[t] :
                /\ j.version = i.version /\ j.id = i.id /\ j.seq = i.seq
                /\ \/ j = i
                   \/ t = s /\ i.version \in p.versions /\ ~i.permanent
                      /\ j.deleted /\ j.permanent = p.permanent
  <2>1. CASE t # s
    BY <2>1, <1>1, <1>3 DEF Snapshot
  <2>2. CASE t = s
    <3>1. PICK i \in st.Subjects[s] : j = MarkDeleted(i, p)
      BY <2>2, <1>1, <1>3 DEF Snapshot
    <3> QED
      BY <2>2, <3>1 DEF MarkDeleted
  <2> QED
    BY <2>1, <2>2
\* Each version of the old state goes to one of the new state.
<1>5. ASSUME NEW t \in Subject, NEW i \in st.Subjects[t]
      PROVE  \E j \in nst.Subjects[t] :
                /\ j.version = i.version
                /\ j = i \/ (t = s /\ i.version \in p.versions /\ j.permanent = p.permanent)
  <2>1. CASE t # s
    BY <2>1, <1>1, <1>3 DEF Snapshot
  <2>2. CASE t = s
    <3>1. MarkDeleted(i, p) \in nst.Subjects[s]
      BY <2>2, <1>1, <1>3 DEF Snapshot
    <3> QED
      BY <2>2, <3>1 DEF MarkDeleted
  <2> QED
    BY <2>1, <2>2
\* What is active after the deletion was active before, unchanged.
<1>5a. ASSUME NEW t \in Subject, NEW j \in nst.Subjects[t], IsActive(j)
       PROVE  j \in st.Subjects[t]
  <2>1. PICK i \in st.Subjects[t] : j = i \/ j.deleted
    BY <1>4
  <2> QED
    BY <2>1, <1>5a DEF IsActive
<1>6. nst \in Snapshot
  <2>1. ASSUME NEW i \in st.Subjects[s]
        PROVE  MarkDeleted(i, p) \in SubjectVersion
    BY <1>1 DEF MarkDeleted, SubjectVersion, Snapshot
  <2>2. nst.Subjects \in [Subject -> SUBSET SubjectVersion]
    BY <2>1, <1>1, <1>3 DEF Snapshot
  <2>3. nst.Operations \in [OperationID -> Result \cup {None}]
    BY <1>1, <1>3, OperationsTyped
  <2>4. nst.Sequence \in Nat
    BY <1>1, <1>3 DEF Snapshot
  <2> QED
    BY <1>1, <1>3, <2>2, <2>3, <2>4 DEF Snapshot, Apply, nst
<1>7. IDsMatch(nst) /\ CounterIsFresh(nst)
  BY <1>1, <1>3 DEF IDsMatch, CounterIsFresh
<1>8. OneActive(nst)
  <2> SUFFICES ASSUME NEW t \in Subject, NEW i \in nst.Subjects[t], NEW j \in nst.Subjects[t],
                      IsActive(i), IsActive(j), i.id = j.id
               PROVE  i = j
    BY DEF OneActive
  <2>1. i \in st.Subjects[t] /\ j \in st.Subjects[t]
    BY <1>5a
  <2> QED
    BY <2>1, <1>1 DEF OneActive
<1>9. ReferencesKept(nst)
  <2> SUFFICES ASSUME NEW t \in Subject, NEW i \in nst.Subjects[t], IsActive(i),
                      NEW r \in Refs[st.Schemas[i.id]]
               PROVE  \E j \in nst.Subjects[r.subject] : j.version = r.version /\ ~j.permanent
    BY <1>3 DEF ReferencesKept
  <2>1. i \in st.Subjects[t]
    BY <1>5a
  <2>2. /\ i.id \in Int64 /\ st.Schemas[i.id] # None
        /\ st.Schemas[i.id] \in Identity
    BY <2>1, <1>1 DEF Valid, Snapshot, SubjectVersion
  <2>3. /\ r.subject \in Subject
        /\ r = [subject |-> r.subject, version |-> r.version]
    BY <2>2, ConstantsAssumption DEF Reference
  <2>4. PICK k \in st.Subjects[r.subject] : k.version = r.version /\ ~k.permanent
    BY <2>1, <1>1 DEF ReferencesKept
  <2>5. PICK j \in nst.Subjects[r.subject] :
            /\ j.version = k.version
            /\ j = k \/ (r.subject = s /\ k.version \in p.versions /\ j.permanent = p.permanent)
    BY <2>3, <1>5
  <2>6. IsReferenced(st, r.subject, r.version)
    BY <2>1, <2>2, <2>3 DEF IsReferenced
  <2>7. ~j.permanent
    BY <2>4, <2>5, <2>6 DEF MayDestroy
  <2> QED
    BY <2>4, <2>5, <2>7
<1>10. DeletedFirst(nst)
  BY <1>1, <1>4 DEF DeletedFirst
<1>11. Sequenced(nst)
  <2>1. \A t \in Subject : \A i \in nst.Subjects[t] : i.seq <= nst.Sequence
    <3> SUFFICES ASSUME NEW t \in Subject, NEW j \in nst.Subjects[t]
                 PROVE  j.seq <= nst.Sequence
      OBVIOUS
    <3>1. PICK i \in st.Subjects[t] : j.seq = i.seq
      BY <1>4
    <3> QED
      BY <3>1, <1>1, <1>3 DEF Sequenced, Snapshot, SubjectVersion
  <2>2. \A t, u \in Subject : \A i \in nst.Subjects[t], j \in nst.Subjects[u] :
           i.seq = j.seq => t = u /\ i.version = j.version
    <3> SUFFICES ASSUME NEW t \in Subject, NEW u \in Subject, NEW i \in nst.Subjects[t],
                        NEW j \in nst.Subjects[u], i.seq = j.seq
                 PROVE  t = u /\ i.version = j.version
      OBVIOUS
    <3>1. PICK k \in st.Subjects[t] : k.seq = i.seq /\ k.version = i.version
      BY <1>4
    <3>2. PICK l \in st.Subjects[u] : l.seq = j.seq /\ l.version = j.version
      BY <1>4
    <3> QED
      BY <3>1, <3>2, <1>1 DEF Sequenced
  <2> QED
    BY <2>1, <2>2 DEF Sequenced
<1> QED
  BY <1>2, <1>6, <1>7, <1>8, <1>9, <1>10, <1>11 DEF WellFormed, nst

\* Configuration and mode transitions keep the state well formed.
LEMMA SettingWellFormed ==
  ASSUME NEW st, WellFormed(st), NEW e,
         e.OperationID \in Operation, e.Result \in Result, e.Payload.scope \in Scope,
         \/ e.Kind = "compatibility_set" /\ e.Payload.value \in Levels
         \/ e.Kind = "mode_set" /\ e.Payload.value \in Modes
         \/ /\ e.Kind \in {"compatibility_deleted", "mode_deleted"}
            /\ e.Payload.scope \in Subject /\ e.Payload.value = None,
         Applies(st, e)
  PROVE  WellFormed(Apply(st, e))
<1> DEFINE nst == Apply(st, e)
<1>1. st \in Snapshot /\ Valid(nst) /\ e.Sequence = st.Sequence + 1
  BY DEF WellFormed, Applies
<1>2. /\ nst.Sequence = st.Sequence + 1
      /\ nst.NextSchemaID = st.NextSchemaID
      /\ nst.Schemas = st.Schemas
      /\ nst.IdentityToID = st.IdentityToID
      /\ nst.Subjects = st.Subjects
  BY <1>1 DEF Deletions, Apply, NextSchemaIDAfter, SchemasAfter, IdentityToIDAfter, SubjectsAfter
<1>3. /\ nst.GlobalCompatibility \in Levels /\ nst.GlobalMode \in Modes
      /\ nst.SubjectCompatibility \in [Subject -> Levels \cup {None}]
      /\ nst.SubjectModes \in [Subject -> Modes \cup {None}]
  BY <1>1, ConstantsAssumption
     DEF Apply, GlobalCompatibilityAfter, SubjectCompatibilityAfter, GlobalModeAfter,
         SubjectModesAfter, SetsGlobal, SetsSubject, Snapshot, Scope
<1>4. nst.Operations \in [OperationID -> Result \cup {None}]
  BY <1>1, OperationsTyped DEF Apply
<1>5. nst \in Snapshot
  BY <1>1, <1>2, <1>3, <1>4 DEF Snapshot, Apply
<1> HIDE DEF nst
<1>6. IDsMatch(nst) /\ CounterIsFresh(nst) /\ OneActive(nst) /\ ReferencesKept(nst) /\ DeletedFirst(nst)
  BY <1>2 DEF WellFormed, IDsMatch, CounterIsFresh, OneActive, ReferencesKept, DeletedFirst
<1>7. Sequenced(nst)
  <2>1. \A s \in Subject : \A i \in nst.Subjects[s] : i.seq <= nst.Sequence
    BY <1>1, <1>2 DEF WellFormed, Sequenced, Snapshot, SubjectVersion
  <2> QED
    BY <2>1, <1>2 DEF WellFormed, Sequenced
<1> QED
  BY <1>1, <1>5, <1>6, <1>7 DEF WellFormed, nst
-----------------------------------------------------------------------------
(* The transitions commands plan.                                          *)

\* What every planned transition satisfies before it is applied.
Planned(st, e) ==
    /\ e.Sequence = st.Sequence + 1
    /\ e.OperationID \in Operation
    /\ ~IsRecorded(st, e.OperationID)
    /\ e.Kind = "schema_registered" => e.Payload.id \in Int64 /\ e.Payload.subject \in Subject
    /\ e.Kind \in Deletions => e.Payload.subject \in Subject

\* The transition of a registration is planned, and keeps the state well formed.
LEMMA RegisterPlan ==
  ASSUME NEW st, WellFormed(st), NEW c \in RegisterCommand, RegisterAllowed(st, c)
  PROVE  /\ Planned(st, RegisterEnvelope(st, c))
         /\ Applies(st, RegisterEnvelope(st, c)) =>
               WellFormed(Apply(st, RegisterEnvelope(st, c))) /\ RegisterEnvelope(st, c).Result \in Result
<1> DEFINE e == RegisterEnvelope(st, c)
<1>1. RegisterID(st, c) \in Int64
  BY ConstantsAssumption DEF RegisterID, RegisterCommand, WellFormed, Snapshot
<1>2. /\ e.Sequence = st.Sequence + 1 /\ e.OperationID = c.op /\ e.Kind = "schema_registered"
      /\ e.Payload.id = RegisterID(st, c) /\ e.Payload.subject = c.subject
  BY DEF RegisterEnvelope, Envelope
<1>3. c.op \in Operation /\ c.subject \in Subject /\ ~IsRecorded(st, c.op)
  BY DEF RegisterCommand, RegisterAllowed
<1>4. e.Kind \notin Deletions
  BY <1>2 DEF Deletions
<1>5. Planned(st, e)
  <2> HIDE DEF e
  <2> QED
    BY <1>1, <1>2, <1>3, <1>4 DEF Planned
<1>6. c.identity \in Identity /\ c.id \in Int64
  BY ConstantsAssumption DEF RegisterCommand
<1> QED
  BY <1>3, <1>5, <1>6, RegisterWellFormed

\* So is the transition of a version deletion.
LEMMA DeleteVersionPlan ==
  ASSUME NEW st, WellFormed(st), NEW c \in DeleteVersionCommand, DeleteVersionAllowed(st, c)
  PROVE  /\ Planned(st, DeleteVersionEnvelope(st, c))
         /\ Applies(st, DeleteVersionEnvelope(st, c)) =>
               WellFormed(Apply(st, DeleteVersionEnvelope(st, c))) /\ DeleteVersionEnvelope(st, c).Result \in Result
<1> DEFINE e == DeleteVersionEnvelope(st, c)
<1>1. c.op \in Operation /\ c.subject \in Subject /\ c.version \in 1 .. MaxInt /\ c.permanent \in BOOLEAN
  BY DEF DeleteVersionCommand
<1>2. /\ e.Sequence = st.Sequence + 1 /\ e.Kind = "version_deleted" /\ e.OperationID = c.op
      /\ e.Result = [SchemaID |-> 0, Version |-> c.version, Versions |-> {}]
      /\ e.Payload.subject = c.subject /\ e.Payload.permanent = c.permanent
      /\ e.Payload.versions = {c.version}
  BY DEF DeleteVersionEnvelope, Envelope, ResultOf
<1>3. e.Result \in Result
  BY <1>1, <1>2, ConstantsAssumption DEF Result, Int64
<1>4. e.Payload.permanent => \A v \in e.Payload.versions : MayDestroy(st, e.Payload.subject, v)
  BY <1>2 DEF DeleteVersionAllowed
<1>5. ~IsRecorded(st, e.OperationID)
  BY <1>2 DEF DeleteVersionAllowed
<1>6. e.Kind \in Deletions /\ e.Kind # "schema_registered"
  BY <1>2 DEF Deletions
<1> HIDE DEF e
<1>7. Planned(st, e)
  BY <1>1, <1>2, <1>3, <1>5, <1>6 DEF Planned
<1>8. Applies(st, e) => WellFormed(Apply(st, e)) /\ e.Result \in Result
  BY <1>1, <1>2, <1>3, <1>4, <1>6, DeletionWellFormed
<1> QED
  BY <1>7, <1>8 DEF e

\* So is the transition of a subject deletion.
LEMMA DeleteSubjectPlan ==
  ASSUME NEW st, WellFormed(st), NEW c \in DeleteSubjectCommand, DeleteSubjectAllowed(st, c)
  PROVE  /\ Planned(st, DeleteSubjectEnvelope(st, c))
         /\ Applies(st, DeleteSubjectEnvelope(st, c)) =>
               WellFormed(Apply(st, DeleteSubjectEnvelope(st, c))) /\ DeleteSubjectEnvelope(st, c).Result \in Result
<1> DEFINE e  == DeleteSubjectEnvelope(st, c)
           vs == Versions(st, c.subject, c.permanent)
<1>1. c.op \in Operation /\ c.subject \in Subject /\ c.permanent \in BOOLEAN
  BY DEF DeleteSubjectCommand
<1>2. /\ e.Sequence = st.Sequence + 1 /\ e.Kind = "subject_deleted" /\ e.OperationID = c.op
      /\ e.Result = [SchemaID |-> 0, Version |-> 0, Versions |-> vs]
      /\ e.Payload.subject = c.subject /\ e.Payload.permanent = c.permanent
      /\ e.Payload.versions = vs
  BY DEF DeleteSubjectEnvelope, Envelope, ResultOf
<1>3. e.Result \in Result
  <2>1. vs \in SUBSET Int64
    BY <1>1 DEF WellFormed, Snapshot, Versions, Visible, SubjectVersion
  <2> QED
    BY <1>2, <2>1, ConstantsAssumption DEF Result, Int64
<1>4. e.Payload.permanent => \A v \in e.Payload.versions : MayDestroy(st, e.Payload.subject, v)
  <2> SUFFICES ASSUME c.permanent PROVE \A v \in vs : MayDestroy(st, c.subject, v)
    BY <1>2
  <2>1. vs = Versions(st, c.subject, TRUE)
    BY <1>1
  <2> QED
    BY <2>1 DEF DeleteSubjectAllowed
<1>5. ~IsRecorded(st, e.OperationID)
  BY <1>2 DEF DeleteSubjectAllowed
<1>6. e.Kind \in Deletions /\ e.Kind # "schema_registered"
  BY <1>2 DEF Deletions
<1> HIDE DEF e, vs
<1>7. Planned(st, e)
  BY <1>1, <1>2, <1>3, <1>5, <1>6 DEF Planned
<1>8. Applies(st, e) => WellFormed(Apply(st, e)) /\ e.Result \in Result
  BY <1>1, <1>2, <1>3, <1>4, <1>6, DeletionWellFormed
<1> QED
  BY <1>7, <1>8 DEF e

\* So are the transitions of simpleMutation.
LEMMA SettingPlan ==
  ASSUME NEW st, WellFormed(st), NEW e, NEW op \in Operation, ~IsRecorded(st, op),
         e.OperationID = op, e.Sequence = st.Sequence + 1, e.Result = EmptyResult,
         e.Payload.scope \in Scope,
         \/ e.Kind = "compatibility_set" /\ e.Payload.value \in Levels
         \/ e.Kind = "mode_set" /\ e.Payload.value \in Modes
         \/ /\ e.Kind \in {"compatibility_deleted", "mode_deleted"}
            /\ e.Payload.scope \in Subject /\ e.Payload.value = None
  PROVE  Planned(st, e) /\ (Applies(st, e) => WellFormed(Apply(st, e)) /\ e.Result \in Result)
<1>1. EmptyResult \in Result
  BY ConstantsAssumption DEF EmptyResult, ResultOf, Result, Int64
<1>2. e.Kind \notin Deletions /\ e.Kind # "schema_registered"
  BY DEF Deletions
<1> QED
  BY <1>1, <1>2, SettingWellFormed DEF Planned

\* Every transition a command plans keeps a well-formed state well formed.
LEMMA PlansAreSafe ==
  ASSUME NEW st, WellFormed(st), NEW e \in Plans(st)
  PROVE  Planned(st, e) /\ (Applies(st, e) => WellFormed(Apply(st, e)) /\ e.Result \in Result)
<1> DEFINE Safe(f) == Planned(st, f) /\ (Applies(st, f) => WellFormed(Apply(st, f)) /\ f.Result \in Result)
<1>1. ASSUME NEW c \in SetCompatibilityCommand, SimpleAllowed(st, c)
      PROVE  Safe(SetCompatibilityEnvelope(st, c))
  BY <1>1, SettingPlan, ConstantsAssumption
     DEF SimpleAllowed, SetCompatibilityCommand, SetCompatibilityEnvelope, Envelope
<1>2. ASSUME NEW c \in InheritCommand, SimpleAllowed(st, c)
      PROVE  Safe(DeleteCompatibilityEnvelope(st, c))
  BY <1>2, SettingPlan DEF SimpleAllowed, InheritCommand, DeleteCompatibilityEnvelope, Envelope, Scope
<1>3. ASSUME NEW c \in SetModeCommand, SimpleAllowed(st, c)
      PROVE  Safe(SetModeEnvelope(st, c))
  BY <1>3, SettingPlan, ConstantsAssumption
     DEF SimpleAllowed, SetModeCommand, SetModeEnvelope, Envelope
<1>4. ASSUME NEW c \in InheritCommand, SimpleAllowed(st, c)
      PROVE  Safe(DeleteModeEnvelope(st, c))
  BY <1>4, SettingPlan DEF SimpleAllowed, InheritCommand, DeleteModeEnvelope, Envelope, Scope
<1>5. \/ \E c \in RegisterCommand : RegisterAllowed(st, c) /\ e = RegisterEnvelope(st, c)
      \/ \E c \in DeleteVersionCommand : DeleteVersionAllowed(st, c) /\ e = DeleteVersionEnvelope(st, c)
      \/ \E c \in DeleteSubjectCommand : DeleteSubjectAllowed(st, c) /\ e = DeleteSubjectEnvelope(st, c)
      \/ \E c \in SetCompatibilityCommand : SimpleAllowed(st, c) /\ e = SetCompatibilityEnvelope(st, c)
      \/ \E c \in InheritCommand : SimpleAllowed(st, c) /\ e = DeleteCompatibilityEnvelope(st, c)
      \/ \E c \in SetModeCommand : SimpleAllowed(st, c) /\ e = SetModeEnvelope(st, c)
      \/ \E c \in InheritCommand : SimpleAllowed(st, c) /\ e = DeleteModeEnvelope(st, c)
  BY DEF Plans
<1> QED
  BY <1>1, <1>2, <1>3, <1>4, <1>5, RegisterPlan, DeleteVersionPlan, DeleteSubjectPlan

\* A planned transition keeps every recorded result and records its own.
LEMMA ResultsKept ==
  ASSUME NEW st \in Snapshot, NEW e, Planned(st, e)
  PROVE  /\ \A o \in OperationID : st.Operations[o] # None =>
               Apply(st, e).Operations[o] = st.Operations[o]
         /\ e.OperationID # NoOperation => Apply(st, e).Operations[e.OperationID] = e.Result
<1>1. st.Operations \in [OperationID -> Result \cup {None}]
  BY DEF Snapshot
<1> QED
  BY <1>1 DEF Planned, Apply, OperationsAfter, IsRecorded, Operation

\* A transition that applies changes no schema that has an ID.
LEMMA SchemasKept ==
  ASSUME NEW st, WellFormed(st), NEW e \in Plans(st), Applies(st, e)
  PROVE  \A id \in Int64 : st.Schemas[id] # None => Apply(st, e).Schemas[id] = st.Schemas[id]
BY PlansAreSafe DEF Planned, Applies, PayloadFits, Apply, SchemasAfter, WellFormed, Snapshot

\* It keeps the schema of every version, and versions only move towards deletion.
LEMMA VersionsKept ==
  ASSUME NEW st, WellFormed(st), NEW e \in Plans(st), Applies(st, e),
         NEW s \in Subject, NEW i \in st.Subjects[s]
  PROVE  \E j \in Apply(st, e).Subjects[s] :
            /\ j.version = i.version /\ j.id = i.id /\ j.seq = i.seq
            /\ i.deleted => j.deleted
            /\ i.permanent => j.permanent
<1>1. Apply(st, e).Subjects = SubjectsAfter(st, e)
  BY DEF Apply
<1>2. CASE e.Kind \in Deletions /\ e.Payload.subject = s
  <2>1. MarkDeleted(i, e.Payload) \in Apply(st, e).Subjects[s]
    BY <1>1, <1>2 DEF SubjectsAfter, Deletions, WellFormed, Snapshot
  <2> QED
    BY <2>1 DEF MarkDeleted
<1>3. CASE ~(e.Kind \in Deletions /\ e.Payload.subject = s)
  <2>1. i \in Apply(st, e).Subjects[s]
    BY <1>1, <1>3, PlansAreSafe DEF SubjectsAfter, Planned, WellFormed, Snapshot
  <2> QED
    BY <2>1
<1> QED
  BY <1>2, <1>3

\* The command a transition of a given kind was planned by.
LEMMA PlanOfKind ==
  ASSUME NEW st, NEW e \in Plans(st)
  PROVE  /\ e.Kind = "schema_registered" =>
               \E c \in RegisterCommand : RegisterAllowed(st, c) /\ e = RegisterEnvelope(st, c)
         /\ e.Kind \in Deletions =>
               \/ \E c \in DeleteVersionCommand : DeleteVersionAllowed(st, c) /\ e = DeleteVersionEnvelope(st, c)
               \/ \E c \in DeleteSubjectCommand : DeleteSubjectAllowed(st, c) /\ e = DeleteSubjectEnvelope(st, c)
BY DEF Plans, RegisterEnvelope, DeleteVersionEnvelope, DeleteSubjectEnvelope, SetCompatibilityEnvelope,
   DeleteCompatibilityEnvelope, SetModeEnvelope, DeleteModeEnvelope, Envelope, Deletions

\* A version that a transition destroys was referenced by no active schema.
LEMMA DestroyedUnreferenced ==
  ASSUME NEW st, WellFormed(st), NEW e \in Plans(st), Applies(st, e), NEW s \in Subject, NEW v,
         HasVersion(st, s, v, TRUE), ~HasVersion(Apply(st, e), s, v, TRUE)
  PROVE  ~IsReferenced(st, s, v)
<1>1. PICK i \in st.Subjects[s] : ~i.permanent /\ i.version = v
  BY DEF HasVersion, Versions, Visible
<1>2. PICK j \in Apply(st, e).Subjects[s] : j.version = v /\ j.permanent
  <2>1. \E j \in Apply(st, e).Subjects[s] : j.version = v
    BY <1>1, VersionsKept
  <2> QED
    BY <2>1 DEF HasVersion, Versions, Visible
<1>3. Apply(st, e).Subjects = SubjectsAfter(st, e) /\ st.Subjects \in [Subject -> SUBSET SubjectVersion]
  BY DEF Apply, WellFormed, Snapshot
<1>4. j \notin st.Subjects[s]
  BY <1>1, <1>2 DEF WellFormed, Valid
<1>5. e.Kind \in Deletions /\ e.Payload.subject = s
  <2>1. CASE e.Kind = "schema_registered"
    <3>1. j # NewVersion(e)
      BY <1>2 DEF NewVersion
    <3> QED
      BY <2>1, <3>1, <1>2, <1>3, <1>4, PlansAreSafe DEF SubjectsAfter, Planned
  <2>2. CASE e.Kind # "schema_registered"
    BY <2>2, <1>2, <1>3, <1>4, PlansAreSafe DEF SubjectsAfter, Planned
  <2> QED
    BY <2>1, <2>2
<1>6. PICK k \in st.Subjects[s] : j = MarkDeleted(k, e.Payload)
  BY <1>2, <1>3, <1>5 DEF SubjectsAfter, Deletions
<1>7. e.Payload.permanent /\ v \in e.Payload.versions
  BY <1>2, <1>4, <1>6 DEF MarkDeleted
<1>8. ASSUME NEW c \in DeleteVersionCommand, DeleteVersionAllowed(st, c), e = DeleteVersionEnvelope(st, c)
      PROVE  ~IsReferenced(st, s, v)
  BY <1>5, <1>7, <1>8 DEF DeleteVersionAllowed, DeleteVersionEnvelope, Envelope, MayDestroy
<1>9. ASSUME NEW c \in DeleteSubjectCommand, DeleteSubjectAllowed(st, c), e = DeleteSubjectEnvelope(st, c)
      PROVE  ~IsReferenced(st, s, v)
  <2>1. c.subject = s /\ c.permanent /\ v \in Versions(st, s, TRUE)
    BY <1>5, <1>7, <1>9 DEF DeleteSubjectEnvelope, Envelope, HasVersion
  <2> QED
    BY <2>1, <1>9 DEF DeleteSubjectAllowed, MayDestroy
<1> QED
  BY <1>5, <1>8, <1>9, PlanOfKind
=============================================================================
