------------------------------ MODULE ApiProofs ------------------------------
(***************************************************************************)
(* Proofs about Api, for any requests on any number of connections: reads  *)
(* are atomic, answers stay true, repeats are safe, and the handlers       *)
(* change the state as Registry does.                                      *)
(***************************************************************************)
EXTENDS Api, RegistryStateProofs

-----------------------------------------------------------------------------
(* The inductive invariant.                                                *)

Stages == {"parse", "resolve", "look", "command", "read", "answered"}

\* The stages an endpoint goes through.
StageFits(j) ==
    LET e == j.request.endpoint
    IN  /\ j.stage = "parse" => e \in {"register"} \cup Lookups
        /\ j.stage = "resolve" => e \in {"version", "referencedBy", "deleteVersion", "compatibility"}
        /\ j.stage = "look" => e \in {"schemaByID", "versionsByID", "getSubjectConfig", "referencedBy",
                                      "deleteSubjectConfig", "deleteSubjectMode"}
        /\ j.stage = "command" => e \in Mutations
        /\ j.stage = "read" => e \in Gets \cup Lookups \cup {"register"}

\* The path of a deletion is resolved before its command.
CommandFits(j) ==
    j.stage = "command" /\ j.request.endpoint = "deleteVersion" => j.version \in 1 .. MaxInt

\* An answer to a mutation is true of the state st.
AnswerFits(st, j) ==
    LET q == j.request
    IN  /\ q.endpoint = "register" => \A i \in j.answer.value : i.id \in Int64 /\ st.Schemas[i.id] = q.schema
        /\ q.endpoint = "deleteVersion" => IsGone(st, q.subject, j.answer.value, q.flag)
        /\ q.endpoint = "deleteSubject" => \A v \in j.answer.value : IsGone(st, q.subject, v, q.flag)

\* register looks for a version that holds its schema.
MutationInv(st, j) ==
    /\ j.stage = "read" /\ j.request.endpoint = "register" =>
          Holds(st, j.request.subject, j.result.Version, j.request.schema)
    /\ ~Busy(j) /\ j.answer.code = 200 => AnswerFits(st, j)

\* What an earlier look of the handler found is still there.
ReadInv(st, j) ==
    LET q == j.request
    IN  /\ q.endpoint = "schemaByID" => j.looked = st.Schemas[q.id] /\ st.Schemas[q.id] # None
        /\ q.endpoint = "versionsByID" => st.Schemas[q.id] # None
        /\ q.endpoint # "getSubjectConfig"

\* A direct read could be answered at once; a version it has seen may have been
\* destroyed since, but then nothing referenced it.
DirectInv(st, j, p) ==
    /\ j.version = j.request.version
    /\ IF Busy(j) THEN AnswerIn(st, j.request) \in p ELSE j.answer \in p
    /\ j.stage = "read" => ReadInv(st, j)
    /\ j.stage = "read" /\ j.request.endpoint = "referencedBy" =>
          HasVersion(st, j.request.subject, j.version, TRUE) \/ Ok({}) \in p

JobInv(st, j, p) ==
    /\ j.request \in Requests
    /\ j.stage \in Stages
    /\ StageFits(j)
    /\ CommandFits(j)
    /\ MutationInv(st, j)
    /\ Direct(j.request) => DirectInv(st, j, p)

Inv ==
    /\ DOMAIN job = Connection
    /\ WellFormed(state)
    /\ OutcomesRecorded(state)
    /\ \A c \in Connection : job[c] = Fresh \/ JobInv(state, job[c], possible[c])

-----------------------------------------------------------------------------
(* What the registry keeps from one state to a later one.                  *)

\* u may follow st: what was registered or deleted stays so, and a version that
\* is destroyed was not referenced.
Evolves(st, u) ==
    /\ WellFormed(u)
    /\ \A id \in Int64 : st.Schemas[id] # None => u.Schemas[id] = st.Schemas[id]
    /\ \A s \in Subject : \A i \in st.Subjects[s] : \E k \in u.Subjects[s] :
          /\ k.version = i.version /\ k.id = i.id
          /\ i.deleted => k.deleted
          /\ i.permanent => k.permanent
    /\ \A s \in Subject : \A v \in Int64 :
          HasVersion(st, s, v, TRUE) /\ ~HasVersion(u, s, v, TRUE) => ~IsReferenced(st, s, v)

\* A state is its own later state: nothing has to be given up.
LEMMA SameEvolves ==
  ASSUME NEW st, WellFormed(st)
  PROVE  Evolves(st, st)
BY DEF Evolves

\* What a command commits is a later state of the same registry.
LEMMA PlanEvolves ==
  ASSUME NEW st, WellFormed(st), NEW e \in Plans(st), Applies(st, e)
  PROVE  Evolves(st, Apply(st, e))
<1>1. WellFormed(Apply(st, e))
  BY PlansAreSafe
<1>2. \A s \in Subject : \A v \in Int64 :
        HasVersion(st, s, v, TRUE) /\ ~HasVersion(Apply(st, e), s, v, TRUE) => ~IsReferenced(st, s, v)
  BY DestroyedUnreferenced
<1>3. \A id \in Int64 : st.Schemas[id] # None => Apply(st, e).Schemas[id] = st.Schemas[id]
  BY SchemasKept
<1>4. \A s \in Subject : \A i \in st.Subjects[s] : \E k \in Apply(st, e).Subjects[s] :
          /\ k.version = i.version /\ k.id = i.id
          /\ i.deleted => k.deleted
          /\ i.permanent => k.permanent
  BY VersionsKept
<1> QED
  BY <1>1, <1>2, <1>3, <1>4 DEF Evolves

\* A version goes on holding its schema, or its tombstone, in every later state.
LEMMA HoldsStays ==
  ASSUME NEW st, WellFormed(st), NEW u, Evolves(st, u), NEW s \in Subject, NEW v, NEW x, Holds(st, s, v, x)
  PROVE  Holds(u, s, v, x)
<1>1. PICK i \in st.Subjects[s] : i.version = v /\ st.Schemas[i.id] = x
  BY DEF Holds
<1>2. i.id \in Int64 /\ st.Schemas[i.id] # None
  BY DEF WellFormed, Valid, Snapshot, SubjectVersion
<1>3. PICK k \in u.Subjects[s] : k.version = i.version /\ k.id = i.id
  BY DEF Evolves
<1>4. u.Schemas[k.id] = x
  BY <1>1, <1>2, <1>3 DEF Evolves
<1> QED
  BY <1>1, <1>3, <1>4 DEF Holds

\* What was deleted, softly or for good, does not come back under its number.
LEMMA GoneStays ==
  ASSUME NEW st, NEW u, Evolves(st, u), NEW s \in Subject, NEW v, NEW f \in BOOLEAN, IsGone(st, s, v, f)
  PROVE  IsGone(u, s, v, f)
<1>1. PICK i \in st.Subjects[s] : i.version = v /\ i.deleted /\ (f => i.permanent)
  BY DEF IsGone
<1>2. \E k \in u.Subjects[s] : k.version = i.version /\ (i.deleted => k.deleted) /\ (i.permanent => k.permanent)
  BY DEF Evolves
<1> QED
  BY <1>1, <1>2 DEF IsGone

\* The subject of a request and the flag are what they should be.
LEMMA RequestTyped ==
  ASSUME NEW q \in Requests
  PROVE  /\ q.endpoint \in Gets \cup Lookups \cup Mutations
         /\ q.op \in Operation /\ q.subject \in Scope /\ q.flag \in BOOLEAN
         /\ q.id \in Int64 /\ q.version \in 0 .. MaxInt
         /\ q.endpoint \notin Unscoped => q.subject \in Subject
BY RequestsAssumption, ConstantsAssumption DEF Request, Int64, Latest

\* So what a recorded result says of its request is true in every later state.
LEMMA OutcomeStays ==
  ASSUME NEW st, WellFormed(st), NEW u, Evolves(st, u), NEW q \in Requests, NEW result, Outcome(st, q, result)
  PROVE  Outcome(u, q, result)
<1>1. q.flag \in BOOLEAN /\ (q.endpoint \in {"register", "deleteVersion", "deleteSubject"} => q.subject \in Subject)
  BY RequestTyped DEF Unscoped
<1>2. q.endpoint = "register" => Holds(u, q.subject, result.Version, q.schema)
  BY <1>1, HoldsStays DEF Outcome
<1>3. q.endpoint = "deleteVersion" => IsGone(u, q.subject, result.Version, q.flag)
  BY <1>1, GoneStays DEF Outcome
<1>4. q.endpoint = "deleteSubject" => \A v \in result.Versions : IsGone(u, q.subject, v, q.flag)
  BY <1>1, GoneStays DEF Outcome
<1> QED
  BY <1>2, <1>3, <1>4 DEF Outcome

-----------------------------------------------------------------------------
(* What the handlers read.                                                 *)

\* The fields of the jobs a handler makes.
LEMMA JobFields ==
  ASSUME NEW q, NEW stage, NEW version, NEW looked, NEW result, NEW answer
  PROVE  LET j == Job(q, stage, version, looked, result, answer)
         IN  /\ j.request = q /\ j.stage = stage /\ j.version = version
             /\ j.looked = looked /\ j.result = result /\ j.answer = answer
BY DEF Job

\* The last look of a direct read answers what a handler that ran at once would.
LEMMA LastLookIsAnswer ==
  ASSUME NEW st, NEW j, NEW q \in Requests, j.request = q, Direct(q), j.version = q.version, ReadInv(st, j),
         q.endpoint = "referencedBy" => HasVersion(st, q.subject, q.version, TRUE)
  PROVE  LastLook(st, j) = AnswerIn(st, q)
<1> DEFINE k == JobIn(st, q)
<1>1. k.request = q /\ k.version = q.version /\ (q.endpoint = "schemaByID" => k.looked = st.Schemas[q.id])
  BY DEF JobIn, Moved, Arrived, Job
<1> HIDE DEF k
<1>2. q.endpoint \in Gets /\ q.endpoint # "getSubjectConfig"
  BY DEF Direct, ReadInv
<1> USE DEF ReadInv
<1>3. CASE q.endpoint = "schemaByID"
  <2>1. LastLook(st, j) = LastLook(st, k)
    BY <1>1, <1>3 DEF LastLook
  <2>2. AnswerIn(st, q) = LastLook(st, k)
    BY <1>3 DEF AnswerIn, k
  <2> QED
    BY <2>1, <2>2
<1>4. CASE q.endpoint = "versionsByID"
  <2>1. LastLook(st, j) = LastLook(st, k)
    BY <1>1, <1>4 DEF LastLook
  <2>2. AnswerIn(st, q) = LastLook(st, k)
    BY <1>4 DEF AnswerIn, k
  <2> QED
    BY <2>1, <2>2
<1>5. CASE q.endpoint = "subjects"
  <2>1. LastLook(st, j) = LastLook(st, k)
    BY <1>1, <1>5 DEF LastLook
  <2>2. AnswerIn(st, q) = LastLook(st, k)
    BY <1>5 DEF AnswerIn, k
  <2> QED
    BY <2>1, <2>2
<1>6. CASE q.endpoint = "versions"
  <2>1. LastLook(st, j) = LastLook(st, k)
    BY <1>1, <1>6 DEF LastLook
  <2>2. AnswerIn(st, q) = LastLook(st, k)
    BY <1>6 DEF AnswerIn, k
  <2> QED
    BY <2>1, <2>2
<1>7. CASE q.endpoint = "version"
  <2>1. LastLook(st, j) = LastLook(st, k)
    BY <1>1, <1>7 DEF LastLook
  <2>2. AnswerIn(st, q) = LastLook(st, k)
    BY <1>7 DEF AnswerIn, k
  <2> QED
    BY <2>1, <2>2
<1>8. CASE q.endpoint = "referencedBy"
  <2>1. LastLook(st, j) = LastLook(st, k)
    BY <1>1, <1>8 DEF LastLook
  <2>2. AnswerIn(st, q) = LastLook(st, k)
    BY <1>8 DEF AnswerIn, k
  <2> QED
    BY <2>1, <2>2
<1>9. CASE q.endpoint = "getGlobalConfig"
  <2>1. LastLook(st, j) = LastLook(st, k)
    BY <1>1, <1>9 DEF LastLook
  <2>2. AnswerIn(st, q) = LastLook(st, k)
    BY <1>9 DEF AnswerIn, k
  <2> QED
    BY <2>1, <2>2
<1>10. CASE q.endpoint = "getGlobalMode"
  <2>1. LastLook(st, j) = LastLook(st, k)
    BY <1>1, <1>10 DEF LastLook
  <2>2. AnswerIn(st, q) = LastLook(st, k)
    BY <1>10 DEF AnswerIn, k
  <2> QED
    BY <2>1, <2>2
<1>11. CASE q.endpoint = "getSubjectMode"
  <2>1. LastLook(st, j) = LastLook(st, k)
    BY <1>1, <1>11 DEF LastLook
  <2>2. AnswerIn(st, q) = LastLook(st, k)
    BY <1>11 DEF AnswerIn, k
  <2> QED
    BY <2>1, <2>2
<1> QED
  BY <1>2, <1>3, <1>4, <1>5, <1>6, <1>7, <1>8, <1>9, <1>10, <1>11 DEF Gets

\* Nothing is reported to reference a version that no active schema references.
LEMMA NobodyReferences ==
  ASSUME NEW st, WellFormed(st), NEW s, NEW v, ~IsReferenced(st, s, v)
  PROVE  ReferencingIDs(st, s, v) = {}
<1> SUFFICES ASSUME NEW t \in Subject, NEW k \in Visible(st, t, FALSE),
                    [subject |-> s, version |-> v] \in Refs[st.Schemas[k.id]]
             PROVE  FALSE
  BY DEF ReferencingIDs
<1>1. k \in st.Subjects[t] /\ IsActive(k)
  BY DEF Visible, IsActive
<1>2. st.Schemas[k.id] # None
  BY <1>1 DEF WellFormed, Valid
<1> QED
  BY <1>1, <1>2 DEF IsReferenced

\* A version that is not there is not referenced.
LEMMA MissingUnreferenced ==
  ASSUME NEW st, WellFormed(st), NEW s \in Subject, NEW v, ~HasVersion(st, s, v, TRUE)
  PROVE  ~IsReferenced(st, s, v)
<1> SUFFICES ASSUME NEW t \in Subject, NEW i \in st.Subjects[t], IsActive(i),
                    [subject |-> s, version |-> v] \in Refs[st.Schemas[i.id]]
             PROVE  FALSE
  BY DEF IsReferenced
<1> DEFINE r == [subject |-> s, version |-> v]
<1>1. \E k \in st.Subjects[r.subject] : k.version = r.version /\ ~k.permanent
  BY DEF WellFormed, ReferencesKept
<1>2. PICK k \in st.Subjects[s] : k.version = v /\ ~k.permanent
  BY <1>1
<1> QED
  BY <1>2 DEF HasVersion, Versions, Visible

\* The early return of the referencedby handler is the answer it would give anyway.
LEMMA UnreferencedAnswer ==
  ASSUME NEW st, WellFormed(st), NEW q \in Requests, q.endpoint = "referencedBy",
         HasVersion(st, q.subject, q.version, TRUE), ~IsReferenced(st, q.subject, q.version)
  PROVE  AnswerIn(st, q) = Ok({})
<1> DEFINE k == JobIn(st, q)
<1>1. k.request = q /\ k.version = q.version
  BY DEF JobIn, Moved, Arrived, Job
<1>2. AnswerIn(st, q) = LastLook(st, k)
  BY DEF AnswerIn
<1> HIDE DEF k
<1>3. LastLook(st, k) = Ok(ReferencingIDs(st, q.subject, q.version))
  BY <1>1 DEF LastLook
<1> QED
  BY <1>2, <1>3, NobodyReferences

-----------------------------------------------------------------------------
(* A handler that another one overtakes.                                   *)

\* What the handler of a mutation knows survives the steps of other connections.
LEMMA MutationInvStays ==
  ASSUME NEW st, WellFormed(st), NEW u, Evolves(st, u), NEW j, j.request \in Requests, MutationInv(st, j)
  PROVE  MutationInv(u, j)
<1> DEFINE q == j.request
<1>1. q.flag \in BOOLEAN /\ (q.endpoint \in {"register", "deleteVersion", "deleteSubject"} => q.subject \in Subject)
  BY RequestTyped DEF Unscoped
<1>2. j.stage = "read" /\ q.endpoint = "register" => Holds(u, q.subject, j.result.Version, q.schema)
  BY <1>1, HoldsStays DEF MutationInv
<1>3. ASSUME ~Busy(j), j.answer.code = 200
      PROVE  AnswerFits(u, j)
  <2>1. AnswerFits(st, j)
    BY <1>3 DEF MutationInv
  <2>2. q.endpoint = "register" => \A i \in j.answer.value : i.id \in Int64 /\ u.Schemas[i.id] = q.schema
    <3> SUFFICES ASSUME q.endpoint = "register", NEW i \in j.answer.value
                 PROVE  i.id \in Int64 /\ u.Schemas[i.id] = q.schema
      OBVIOUS
    <3>1. i.id \in Int64 /\ st.Schemas[i.id] = q.schema
      BY <2>1 DEF AnswerFits
    <3>2. q.schema # None
      BY RequestsAssumption, NoneAssumption
    <3> QED
      BY <3>1, <3>2 DEF Evolves
  <2>3. q.endpoint = "deleteVersion" => IsGone(u, q.subject, j.answer.value, q.flag)
    BY <2>1, <1>1, GoneStays DEF AnswerFits
  <2>4. q.endpoint = "deleteSubject" => \A v \in j.answer.value : IsGone(u, q.subject, v, q.flag)
    BY <2>1, <1>1, GoneStays DEF AnswerFits
  <2> QED
    BY <2>2, <2>3, <2>4 DEF AnswerFits
<1> QED
  BY <1>2, <1>3 DEF MutationInv

\* p2 is what possible becomes for a job that stays as it is.
LEMMA BystanderInv ==
  ASSUME NEW st, WellFormed(st), NEW u, Evolves(st, u), NEW j, NEW p, NEW p2, JobInv(st, j, p),
         Direct(j.request) => p2 = IF Busy(j) THEN p \cup {AnswerIn(u, j.request)} ELSE p
  PROVE  JobInv(u, j, p2)
<1> DEFINE q == j.request
<1>1. /\ q \in Requests /\ j.stage \in Stages /\ StageFits(j) /\ CommandFits(j) /\ MutationInv(st, j)
      /\ Direct(q) => DirectInv(st, j, p)
  BY DEF JobInv
<1>2. MutationInv(u, j)
  BY <1>1, MutationInvStays
<1>3. ASSUME Direct(q)
      PROVE  DirectInv(u, j, p2)
  <2>1. DirectInv(st, j, p) /\ j.version = q.version
    BY <1>1, <1>3 DEF DirectInv
  <2>2. IF Busy(j) THEN AnswerIn(u, q) \in p2 ELSE j.answer \in p2
    BY <1>3, <2>1 DEF DirectInv
  <2>3. q.id \in Int64 /\ q.version \in Int64 /\ (q.endpoint = "referencedBy" => q.subject \in Subject)
    BY <1>1, RequestTyped, ConstantsAssumption DEF Unscoped, Int64
  <2>4. j.stage = "read" => ReadInv(u, j)
    <3> SUFFICES ASSUME j.stage = "read"
                 PROVE  ReadInv(u, j)
      OBVIOUS
    <3>1. ReadInv(st, j)
      BY <2>1 DEF DirectInv
    <3>2. st.Schemas[q.id] # None => u.Schemas[q.id] = st.Schemas[q.id]
      BY <2>3 DEF Evolves
    <3> QED
      BY <3>1, <3>2 DEF ReadInv
  <2>5. ASSUME j.stage = "read", q.endpoint = "referencedBy", ~HasVersion(u, q.subject, j.version, TRUE)
        PROVE  Ok({}) \in p2
    <3>1. Busy(j) /\ p \subseteq p2
      BY <2>5, <1>3 DEF Busy
    <3>2. HasVersion(st, q.subject, j.version, TRUE) \/ Ok({}) \in p
      BY <2>1, <2>5 DEF DirectInv
    <3>3. CASE HasVersion(st, q.subject, j.version, TRUE)
      <4>1. ~IsReferenced(st, q.subject, q.version)
        BY <3>3, <2>1, <2>3, <2>5 DEF Evolves
      <4>2. AnswerIn(st, q) = Ok({})
        BY <4>1, <3>3, <1>1, <2>1, <2>5, UnreferencedAnswer
      <4>3. AnswerIn(st, q) \in p
        BY <3>1, <2>1 DEF DirectInv
      <4> QED
        BY <4>2, <4>3, <3>1
    <3> QED
      BY <3>1, <3>2, <3>3
  <2> QED
    BY <2>1, <2>2, <2>4, <2>5 DEF DirectInv
<1> QED
  BY <1>1, <1>2, <1>3 DEF JobInv

-----------------------------------------------------------------------------
(* One step of the handler of connection c.                                *)

\* A handler goes on with job j; the others keep theirs.
LEMMA GoInv ==
  ASSUME Inv, NEW c \in Connection, NEW j, Go(c, j), Observe,
         Evolves(state, state'), OutcomesRecorded(state'), JobInv(state', j, possible'[c])
  PROVE  Inv'
<1>1. DOMAIN job' = Connection /\ job'[c] = j /\ \A d \in Connection : d # c => job'[d] = job[d]
  BY DEF Go, Inv
<1>2. WellFormed(state) /\ WellFormed(state')
  BY DEF Inv, Evolves
<1>3. ASSUME NEW d \in Connection, d # c, job[d] # Fresh
      PROVE  JobInv(state', job[d], possible'[d])
  <2>1. JobInv(state, job[d], possible[d])
    BY <1>3 DEF Inv
  <2>2. Direct(job[d].request) =>
          possible'[d] = IF Busy(job[d]) THEN possible[d] \cup {AnswerIn(state', job[d].request)} ELSE possible[d]
    BY <1>1, <1>3 DEF Observe
  <2> QED
    BY <1>2, <2>1, <2>2, BystanderInv
<1> QED
  BY <1>1, <1>2, <1>3 DEF Inv

\* What possible becomes for the handler that takes the step.
LEMMA OwnPossible ==
  ASSUME DOMAIN job = Connection, NEW c \in Connection, NEW j, Go(c, j), Observe, Direct(j.request)
  PROVE  /\ Busy(job[c]) => possible'[c] = possible[c] \cup {AnswerIn(state', j.request)}
         /\ ~Busy(job[c]) /\ Busy(j) => possible'[c] = {AnswerIn(state', j.request)}
BY DEF Go, Observe

\* A request arrives: its answers so far are those of the present state.
LEMMA ArriveInv ==
  ASSUME Inv, NEW c \in Connection, NEW q \in Requests, Arrive(c, q)
  PROVE  Inv'
<1> DEFINE j == Arrived(q, FirstStage(q))
<1>1. ~Busy(job[c]) /\ Go(c, j) /\ state' = state /\ Observe
  BY DEF Arrive
<1>2. j.request = q /\ j.stage = FirstStage(q) /\ j.version = q.version
  BY DEF Arrived, Job
<1> HIDE DEF j
<1>3. q.endpoint \in Gets \cup Lookups \cup Mutations
  BY RequestTyped
<1>4. j.stage \in Stages /\ j.stage # "answered" /\ StageFits(j)
  BY <1>2, <1>3 DEF Stages, StageFits, FirstStage, Gets, Lookups, Mutations
<1>5. CommandFits(j) /\ MutationInv(state, j)
  BY <1>2, <1>4 DEF CommandFits, MutationInv, FirstStage, Busy
<1>6. ASSUME Direct(q)
      PROVE  DirectInv(state, j, possible'[c])
  <2>1. Busy(j)
    BY <1>4 DEF Busy
  <2>2. AnswerIn(state, q) \in possible'[c]
    BY <2>1, <1>1, <1>2, <1>6, OwnPossible DEF Inv
  <2>3. j.stage = "read" => ReadInv(state, j) /\ q.endpoint # "referencedBy"
    BY <1>2 DEF ReadInv, FirstStage
  <2> QED
    BY <2>1, <2>2, <2>3, <1>2 DEF DirectInv
<1>7. JobInv(state, j, possible'[c])
  BY <1>2, <1>4, <1>5, <1>6 DEF JobInv
<1> QED
  BY <1>1, <1>7, GoInv, SameEvolves DEF Inv

\* A handler at some stage has a request.
LEMMA BusyInv ==
  ASSUME Inv, NEW c \in Connection, Busy(job[c])
  PROVE  /\ JobInv(state, job[c], possible[c]) /\ job[c].request \in Requests
         /\ StageFits(job[c]) /\ WellFormed(state)
<1>1. job[c] # Fresh
  BY DEF Busy, Fresh, Job
<1> QED
  BY <1>1 DEF Inv, JobInv

\* A handler answers: with an error, or with what is true; a direct read with
\* what it would have been answered at some moment.
LEMMA AnswerInv ==
  ASSUME Inv, NEW c \in Connection, NEW a, Busy(job[c]), Answer(c, a), state' = state, Observe,
         a.code = 200 => AnswerFits(state, Answered(job[c], a)),
         Direct(job[c].request) =>
            /\ job[c].version = job[c].request.version
            /\ a = AnswerIn(state, job[c].request) \/ a \in possible[c]
  PROVE  Inv'
<1> DEFINE j == Answered(job[c], a)
           q == job[c].request
<1>1. Go(c, j) /\ q \in Requests
  BY BusyInv DEF Answer
<1>2. j.request = q /\ j.stage = "answered" /\ j.version = job[c].version /\ j.answer = a
  BY DEF Answered, Job
<1>3. a.code = 200 => AnswerFits(state, j)
  OBVIOUS
<1> HIDE DEF j
<1>4. StageFits(j) /\ CommandFits(j) /\ j.stage \in Stages /\ ~Busy(j)
  BY <1>2 DEF StageFits, CommandFits, Stages, Busy
<1>5. MutationInv(state, j)
  BY <1>2, <1>3 DEF MutationInv
<1>6. ASSUME Direct(q)
      PROVE  DirectInv(state, j, possible'[c])
  <2>1. possible'[c] = possible[c] \cup {AnswerIn(state, q)}
    BY <1>1, <1>2, <1>6, OwnPossible DEF Inv
  <2> QED
    BY <2>1, <1>2, <1>4, <1>6 DEF DirectInv
<1>7. JobInv(state, j, possible'[c])
  BY <1>1, <1>2, <1>4, <1>5, <1>6 DEF JobInv
<1> QED
  BY <1>1, <1>7, GoInv, SameEvolves DEF Inv

\* A handler goes on to a stage of its endpoint.
LEMMA MovedInv ==
  ASSUME Inv, NEW c \in Connection, NEW stage, NEW v, NEW x, Busy(job[c]),
         Go(c, Moved(job[c], stage, v, x)), state' = state, Observe,
         stage \in Stages \ {"answered"}, StageFits(Moved(job[c], stage, v, x)),
         stage = "command" /\ job[c].request.endpoint = "deleteVersion" => v \in 1 .. MaxInt,
         stage = "read" => job[c].request.endpoint # "register",
         Direct(job[c].request) =>
            /\ v = job[c].request.version
            /\ stage = "read" => /\ ReadInv(state, Moved(job[c], stage, v, x))
                                 /\ job[c].request.endpoint = "referencedBy" =>
                                       HasVersion(state, job[c].request.subject, v, TRUE)
  PROVE  Inv'
<1> DEFINE j == Moved(job[c], stage, v, x)
           q == job[c].request
<1>1. Go(c, j) /\ q \in Requests /\ StageFits(j)
  BY BusyInv
<1>2. j.request = q /\ j.stage = stage /\ j.version = v
  BY DEF Moved, Job
<1>3. Direct(q) /\ stage = "read" => ReadInv(state, j)
  OBVIOUS
<1> HIDE DEF j
<1>4. Busy(j) /\ CommandFits(j) /\ MutationInv(state, j)
  BY <1>2 DEF Busy, CommandFits, MutationInv
<1>5. ASSUME Direct(q)
      PROVE  DirectInv(state, j, possible'[c])
  <2>1. AnswerIn(state, q) \in possible'[c]
    BY <1>1, <1>2, <1>5, OwnPossible DEF Inv
  <2> QED
    BY <2>1, <1>2, <1>3, <1>4, <1>5 DEF DirectInv
<1>6. JobInv(state, j, possible'[c])
  BY <1>1, <1>2, <1>4, <1>5 DEF JobInv
<1> QED
  BY <1>1, <1>6, GoInv, SameEvolves DEF Inv

\* The handler resolves the references of the schema that was sent.
LEMMA ParseRequestInv ==
  ASSUME Inv, NEW c \in Connection, ParseRequest(c)
  PROVE  Inv'
<1> DEFINE q == job[c].request
           stage == StageAfter("parse", q)
           j == Moved(job[c], stage, job[c].version, job[c].looked)
<1>1. job[c].stage = "parse" /\ Busy(job[c]) /\ state' = state /\ Observe
  BY DEF ParseRequest, Busy
<1>2. StageFits(job[c])
  BY <1>1, BusyInv
<1>3. q.endpoint \in {"register", "lookupSchema", "compatibility"}
  BY <1>1, <1>2 DEF StageFits, Lookups
<1>4. ~Direct(q)
  BY <1>3 DEF Direct, Gets
<1>5. CASE Answer(c, Error(42201))
  BY <1>1, <1>4, <1>5, AnswerInv DEF Error
<1>6. CASE Go(c, j)
  <2>1. /\ stage \in Stages \ {"answered"}
        /\ stage = "command" => q.endpoint = "register"
        /\ stage = "read" => q.endpoint = "lookupSchema"
        /\ stage = "resolve" => q.endpoint = "compatibility"
        /\ stage \in {"command", "read", "resolve"}
    BY <1>3 DEF StageAfter, Stages, Mutations
  <2>2. j.request = q /\ j.stage = stage
    BY DEF Moved, Job
  <2> HIDE DEF stage
  <2>3. StageFits(j)
    <3> HIDE DEF j
    <3> QED
      BY <2>1, <2>2 DEF StageFits, Mutations, Lookups
  <2> QED
    BY <1>1, <1>4, <1>6, <2>1, <2>3, MovedInv
<1> QED
  BY <1>5, <1>6 DEF ParseRequest

\* The handler turns "latest" into a number.
LEMMA ResolveVersionInv ==
  ASSUME Inv, NEW c \in Connection, ResolveVersion(c)
  PROVE  Inv'
<1> DEFINE q == job[c].request
           stage == StageAfter("resolve", q)
           versions == ParseVersionPath(state, q)
<1>1. job[c].stage = "resolve" /\ Busy(job[c]) /\ state' = state /\ Observe
  BY DEF ResolveVersion, Busy
<1>2. StageFits(job[c]) /\ q \in Requests /\ WellFormed(state) /\ JobInv(state, job[c], possible[c])
  BY <1>1, BusyInv
<1>3. q.endpoint \in {"version", "referencedBy", "deleteVersion", "compatibility"}
  BY <1>1, <1>2 DEF StageFits
<1>4. q.version \in 0 .. MaxInt /\ q.subject \in Subject
  BY <1>2, <1>3, RequestTyped DEF Unscoped
<1>5. Direct(q) => q.version # Latest /\ q.endpoint \in {"version", "referencedBy"}
  BY <1>3 DEF Direct, Gets
<1>6. q.version # Latest => versions = {q.version}
  BY DEF ParseVersionPath
<1>7. versions \subseteq 1 .. MaxInt
  <2>1. CASE q.version # Latest
    BY <2>1, <1>4, <1>6, ConstantsAssumption DEF Latest
  <2>2. CASE q.version = Latest
    <3>1. versions \subseteq Versions(state, q.subject, IncludesDeleted(q))
      BY <2>2 DEF ParseVersionPath
    <3>2. \A i \in state.Subjects[q.subject] : i.version \in 1 .. MaxInt
      BY <1>2, <1>4 DEF WellFormed, Valid
    <3> QED
      BY <3>1, <3>2 DEF Versions, Visible
  <2> QED
    BY <2>1, <2>2
<1>8. CASE versions = {} /\ Answer(c, Error(40401))
  <2>1. ~Direct(q)
    BY <1>5, <1>6, <1>8
  <2> QED
    BY <1>1, <1>8, <2>1, AnswerInv DEF Error
<1>9. ASSUME NEW v \in versions, Go(c, Moved(job[c], stage, v, job[c].looked))
      PROVE  Inv'
  <2> DEFINE j == Moved(job[c], stage, v, job[c].looked)
  <2>1. /\ stage \in Stages \ {"answered"}
        /\ stage = "command" => q.endpoint = "deleteVersion"
        /\ stage = "read" => q.endpoint \in {"version", "compatibility"}
        /\ stage = "look" => q.endpoint = "referencedBy"
        /\ stage \in {"command", "read", "look"}
    BY <1>3 DEF StageAfter, Stages, Mutations
  <2>2. j.request = q /\ j.stage = stage
    BY DEF Moved, Job
  <2> HIDE DEF stage
  <2>3. StageFits(j) /\ (stage = "read" => ReadInv(state, j))
    <3> HIDE DEF j
    <3> QED
      BY <2>1, <2>2 DEF StageFits, Mutations, Lookups, Gets, ReadInv
  <2>4. v \in 1 .. MaxInt /\ (Direct(q) => v = q.version)
    BY <1>5, <1>6, <1>7, <1>9
  <2> QED
    BY <1>1, <1>9, <2>1, <2>3, <2>4, MovedInv
<1> QED
  BY <1>8, <1>9 DEF ResolveVersion

\* The handler looks at what its command is about.
LEMMA LookFirstInv ==
  ASSUME Inv, NEW c \in Connection, LookFirst(c)
  PROVE  Inv'
<1> DEFINE q == job[c].request
           stage == StageAfter("look", q)
           found == Look(state, job[c])
           j == Moved(job[c], stage, job[c].version, found)
<1>1. job[c].stage = "look" /\ Busy(job[c]) /\ state' = state /\ Observe
  BY DEF LookFirst, Busy
<1>2. /\ StageFits(job[c]) /\ q \in Requests /\ WellFormed(state)
      /\ Direct(q) => job[c].version = q.version
  BY <1>1, BusyInv DEF JobInv, DirectInv
<1>3. q.endpoint \in {"schemaByID", "versionsByID", "getSubjectConfig", "referencedBy",
                      "deleteSubjectConfig", "deleteSubjectMode"}
  BY <1>1, <1>2 DEF StageFits
<1>4. Direct(q) => q.endpoint \in Gets
  BY DEF Direct
<1>5. /\ q.endpoint \in {"schemaByID", "versionsByID"} => found = state.Schemas[q.id]
      /\ q.endpoint \in {"getSubjectConfig", "deleteSubjectConfig"} => found = state.SubjectCompatibility[q.subject]
      /\ q.endpoint = "deleteSubjectMode" => found = state.SubjectModes[q.subject]
  BY <1>3 DEF Look
<1>6. q.endpoint = "referencedBy" =>
         found = IF HasVersion(state, q.subject, job[c].version, TRUE) THEN job[c].version ELSE None
  BY <1>3 DEF Look
<1>7. CASE q.endpoint = "getSubjectConfig" /\ found # None /\ Answer(c, Ok(found))
  <2>1. AnswerIn(state, q) = Ok(found)
    BY <1>5, <1>7 DEF AnswerIn
  <2>2. AnswerFits(state, Answered(job[c], Ok(found)))
    BY <1>7 DEF AnswerFits, Answered, Job
  <2> QED
    BY <1>1, <1>2, <1>7, <2>1, <2>2, AnswerInv
<1>8. CASE found = None /\ ~(q.endpoint = "getSubjectConfig" /\ q.flag) /\ Answer(c, NothingThere(q))
  <2>1. NothingThere(q).code # 200
    BY <1>3 DEF NothingThere, Error
  <2>2. ASSUME Direct(q)
        PROVE  NothingThere(q) = AnswerIn(state, q)
    <3>1. q.endpoint \in {"schemaByID", "versionsByID", "getSubjectConfig", "referencedBy"}
      BY <1>3, <1>4, <2>2 DEF Gets
    <3>2. CASE q.endpoint \in {"schemaByID", "versionsByID"}
      <4>1. state.Schemas[q.id] = None
        BY <3>2, <1>5, <1>8
      <4>2. AnswerIn(state, q) = Error(40403)
        BY <3>2, <4>1 DEF AnswerIn
      <4>3. NothingThere(q) = Error(40403)
        BY <3>2 DEF NothingThere
      <4> QED
        BY <4>2, <4>3
    <3>3. CASE q.endpoint = "getSubjectConfig"
      BY <3>3, <1>5, <1>8 DEF NothingThere, AnswerIn
    <3>4. CASE q.endpoint = "referencedBy"
      <4>1. q.version \in 0 .. MaxInt
        BY <1>2, RequestTyped
      <4>2. q.version # None
        BY <4>1, NoneAssumption, ConstantsAssumption DEF Int64
      <4>3. ~HasVersion(state, q.subject, q.version, TRUE)
        BY <3>4, <4>2, <1>2, <1>6, <1>8, <2>2
      <4>4. AnswerIn(state, q) = Error(40402)
        BY <4>3, <3>4 DEF AnswerIn
      <4>5. NothingThere(q) = Error(40402)
        BY <3>4 DEF NothingThere
      <4> QED
        BY <4>4, <4>5
    <3> QED
      BY <3>1, <3>2, <3>3, <3>4
  <2> QED
    BY <1>1, <1>2, <1>8, <2>1, <2>2, AnswerInv
<1>9. CASE /\ ~(found = None /\ ~(q.endpoint = "getSubjectConfig" /\ q.flag))
           /\ ~(q.endpoint = "getSubjectConfig" /\ found # None)
           /\ Go(c, j)
  <2>1. /\ stage \in {"command", "read"}
        /\ stage = "command" => q.endpoint \in {"deleteSubjectConfig", "deleteSubjectMode"}
        /\ stage = "read" => q.endpoint \in {"schemaByID", "versionsByID", "getSubjectConfig", "referencedBy"}
    BY <1>3 DEF StageAfter, Mutations
  <2>2. j.request = q /\ j.stage = stage /\ j.looked = found
    BY DEF Moved, Job
  <2> HIDE DEF stage
  <2>3. StageFits(j) /\ stage \in Stages \ {"answered"}
    <3> HIDE DEF j
    <3> QED
      BY <2>1, <2>2 DEF StageFits, Mutations, Gets, Stages
  <2>4. ASSUME Direct(q), stage = "read"
        PROVE  /\ ReadInv(state, j)
               /\ q.endpoint = "referencedBy" => HasVersion(state, q.subject, job[c].version, TRUE)
    <3>1. q.endpoint # "getSubjectConfig"
      BY <1>9, <2>4 DEF Direct
    <3>2. found # None
      BY <1>9, <3>1
    <3>3. ReadInv(state, j)
      <4> HIDE DEF j, found
      <4> QED
        BY <3>1, <3>2, <2>2, <1>5 DEF ReadInv
    <3>4. q.endpoint = "referencedBy" => HasVersion(state, q.subject, job[c].version, TRUE)
      BY <3>2, <1>6
    <3> QED
      BY <3>3, <3>4
  <2>5. stage = "command" => q.endpoint # "deleteVersion"
    BY <2>1
  <2>6. stage = "read" => q.endpoint # "register"
    BY <2>1
  <2> HIDE DEF found
  <2> QED
    BY <1>1, <1>2, <1>9, <2>3, <2>4, <2>5, <2>6, MovedInv
<1> QED
  BY <1>7, <1>8, <1>9 DEF LookFirst

\* The handler answers from a snapshot.
LEMMA ReadStepInv ==
  ASSUME Inv, NEW c \in Connection, Read(c)
  PROVE  Inv'
<1> DEFINE q == job[c].request
           a == LastLook(state, job[c])
<1>1. job[c].stage = "read" /\ Busy(job[c]) /\ state' = state /\ Observe /\ Answer(c, a)
  BY DEF Read, Busy
<1>2. /\ StageFits(job[c]) /\ q \in Requests /\ WellFormed(state) /\ MutationInv(state, job[c])
      /\ Direct(q) => DirectInv(state, job[c], possible[c])
  BY <1>1, BusyInv DEF JobInv
<1>3. q.endpoint \in Gets \cup Lookups \cup {"register"}
  BY <1>1, <1>2 DEF StageFits
<1>4. Answered(job[c], a).request = q /\ Answered(job[c], a).answer = a
  BY DEF Answered, Job
<1>5. ASSUME a.code = 200
      PROVE  AnswerFits(state, Answered(job[c], a))
  <2>1. CASE q.endpoint = "register"
    <3> DEFINE v == job[c].result.Version
               items == {[version |-> i.version, id |-> i.id] :
                           i \in {k \in Visible(state, q.subject, TRUE) : k.version = v}}
    <3>1. a = OkUnlessEmpty(items, 50001)
      BY <2>1 DEF LastLook, RegisteredVersion
    <3>2. a.value = items
      <4> HIDE DEF a, items
      <4>1. CASE items = {}
        BY <3>1, <4>1, <1>5 DEF OkUnlessEmpty, Error
      <4>2. CASE items # {}
        BY <3>1, <4>2 DEF OkUnlessEmpty, Ok
      <4> QED
        BY <4>1, <4>2
    <3>3. Holds(state, q.subject, v, q.schema)
      BY <1>1, <1>2, <2>1 DEF MutationInv
    <3>4. q.subject \in Subject
      BY <1>2, <2>1, RequestTyped DEF Unscoped
    <3>5. \A i \in state.Subjects[q.subject] : i.version = v => i.id \in Int64 /\ state.Schemas[i.id] = q.schema
      <4>1. \A i \in state.Subjects[q.subject] : i.id \in Int64
        BY <1>2, <3>4 DEF WellFormed, Snapshot, SubjectVersion
      <4>2. \A i, k \in state.Subjects[q.subject] : i.version = k.version => i = k
        BY <1>2, <3>4 DEF WellFormed, Valid
      <4> QED
        BY <3>3, <4>1, <4>2 DEF Holds
    <3>6. \A i \in items : i.id \in Int64 /\ state.Schemas[i.id] = q.schema
      BY <3>5 DEF Visible
    <3> HIDE DEF items, v
    <3> QED
      BY <2>1, <3>2, <3>6, <1>4 DEF AnswerFits
  <2>2. CASE q.endpoint # "register"
    BY <2>2, <1>3, <1>4 DEF AnswerFits, Gets, Lookups
  <2> QED
    BY <2>1, <2>2
<1>6. ASSUME Direct(q)
      PROVE  job[c].version = q.version /\ (a = AnswerIn(state, q) \/ a \in possible[c])
  <2>1. ReadInv(state, job[c]) /\ job[c].version = q.version
    BY <1>1, <1>2, <1>6 DEF DirectInv
  <2>2. CASE q.endpoint = "referencedBy" /\ ~HasVersion(state, q.subject, q.version, TRUE)
    <3>1. Ok({}) \in possible[c]
      BY <2>1, <2>2, <1>1, <1>2, <1>6 DEF DirectInv
    <3>2. q.subject \in Subject
      BY <1>2, <2>2, RequestTyped DEF Unscoped
    <3>3. ReferencingIDs(state, q.subject, q.version) = {}
      BY <2>2, <3>2, <1>2, MissingUnreferenced, NobodyReferences
    <3>4. a = Ok(ReferencingIDs(state, q.subject, q.version))
      BY <2>1, <2>2 DEF LastLook
    <3> QED
      BY <2>1, <3>1, <3>3, <3>4
  <2>3. CASE ~(q.endpoint = "referencedBy" /\ ~HasVersion(state, q.subject, q.version, TRUE))
    BY <2>1, <2>3, <1>2, <1>6, LastLookIsAnswer
  <2> QED
    BY <2>2, <2>3
<1> QED
  BY <1>1, <1>5, <1>6, AnswerInv

-----------------------------------------------------------------------------
(* Commands.                                                               *)

\* The version a registration reports holds the schema that was sent.
LEMMA RegisterOutcome ==
  ASSUME NEW st, WellFormed(st), NEW q \in Requests, q.endpoint = "register",
         RegisterAllowed(st, RegisterOf(q)), Applies(st, RegisterEnvelope(st, RegisterOf(q)))
  PROVE  LET e == RegisterEnvelope(st, RegisterOf(q))
         IN  e \in Plans(st) /\ e.OperationID = q.op /\ Outcome(Apply(st, e), q, e.Result)
<1> DEFINE d == RegisterOf(q)
           e == RegisterEnvelope(st, d)
           u == Apply(st, e)
<1>1. d \in RegisterCommand /\ d.op = q.op /\ d.subject = q.subject /\ d.identity = q.schema
  BY RequestTyped, RequestsAssumption DEF RegisterOf, RegisterCommand, Unscoped
<1> HIDE DEF d
<1>2. e \in Plans(st)
  BY <1>1 DEF Plans, d
<1>3. /\ e.Kind = "schema_registered" /\ e.OperationID = q.op
      /\ e.Payload.subject = q.subject /\ e.Payload.identity = q.schema
      /\ e.Result.Version = e.Payload.version
  BY <1>1 DEF RegisterEnvelope, Envelope, ResultOf
<1>4. Applies(st, e)
  BY DEF d
<1> HIDE DEF e
<1>5. e.Payload.id \in Int64 /\ e.Payload.subject \in Subject
  BY <1>2, <1>3, PlansAreSafe DEF Planned
<1>6. u.Subjects = SubjectsAfter(st, e) /\ u.Schemas = SchemasAfter(st, e)
  BY DEF Apply
<1>7. NewVersion(e) \in u.Subjects[q.subject]
  BY <1>3, <1>5, <1>6 DEF SubjectsAfter, WellFormed, Snapshot
<1>8. u.Schemas[e.Payload.id] = q.schema
  BY <1>3, <1>5, <1>6 DEF SchemasAfter, WellFormed, Snapshot
<1>9. NewVersion(e).version = e.Result.Version /\ NewVersion(e).id = e.Payload.id
  BY <1>3 DEF NewVersion
<1>10. Outcome(u, q, e.Result)
  BY <1>7, <1>8, <1>9 DEF Outcome, Holds
<1> QED
  BY <1>2, <1>3, <1>10 DEF e, d

\* The versions a deletion names are gone after it.
LEMMA DeletionOutcome ==
  ASSUME NEW st, WellFormed(st), NEW e, e.Kind \in Deletions, e.Payload.subject \in Subject,
         NEW f \in BOOLEAN, e.Payload.permanent = f, NEW v \in e.Payload.versions,
         HasVersion(st, e.Payload.subject, v, f)
  PROVE  IsGone(Apply(st, e), e.Payload.subject, v, f)
<1> DEFINE s == e.Payload.subject
<1>1. PICK i \in st.Subjects[s] : i.version = v /\ ~i.permanent
  BY DEF HasVersion, Versions, Visible
<1>2. Apply(st, e).Subjects = SubjectsAfter(st, e)
  BY DEF Apply
<1>3. MarkDeleted(i, e.Payload) \in Apply(st, e).Subjects[s]
  BY <1>2 DEF SubjectsAfter, Deletions, WellFormed, Snapshot
<1>4. MarkDeleted(i, e.Payload).version = v /\ MarkDeleted(i, e.Payload).deleted
      /\ MarkDeleted(i, e.Payload).permanent = f
  BY <1>1 DEF MarkDeleted
<1> QED
  BY <1>3, <1>4 DEF IsGone

\* The envelope of a version deletion makes the deletion true and records that.
LEMMA DeleteVersionOutcome ==
  ASSUME NEW st, WellFormed(st), NEW j, j.request \in Requests, j.request.endpoint = "deleteVersion",
         j.version \in 1 .. MaxInt, DeleteVersionAllowed(st, DeleteVersionOf(j))
  PROVE  LET e == DeleteVersionEnvelope(st, DeleteVersionOf(j))
         IN  e \in Plans(st) /\ e.OperationID = j.request.op /\ Outcome(Apply(st, e), j.request, e.Result)
<1> DEFINE q == j.request
           d == DeleteVersionOf(j)
           e == DeleteVersionEnvelope(st, d)
<1>1. /\ d \in DeleteVersionCommand /\ d.op = q.op /\ d.subject = q.subject
      /\ d.version = j.version /\ d.permanent = q.flag /\ q.subject \in Subject /\ q.flag \in BOOLEAN
  BY RequestTyped DEF DeleteVersionOf, DeleteVersionCommand, Unscoped
<1>2. DeleteVersionAllowed(st, d)
  OBVIOUS
<1> HIDE DEF d
<1>3. e \in Plans(st)
  BY <1>1, <1>2 DEF Plans
<1>4. /\ e.Kind \in Deletions /\ e.OperationID = q.op /\ e.Result.Version = j.version
      /\ e.Payload.subject = q.subject /\ e.Payload.versions = {j.version} /\ e.Payload.permanent = q.flag
  BY <1>1 DEF DeleteVersionEnvelope, Envelope, ResultOf, Deletions
<1>5. HasVersion(st, q.subject, j.version, q.flag)
  BY <1>1, <1>2 DEF DeleteVersionAllowed
<1> HIDE DEF e
<1>6. IsGone(Apply(st, e), q.subject, j.version, q.flag)
  <2>1. j.version \in e.Payload.versions
    BY <1>4
  <2>2. HasVersion(st, e.Payload.subject, j.version, q.flag) /\ e.Payload.subject \in Subject
    BY <1>1, <1>4, <1>5
  <2> QED
    BY <1>1, <1>4, <2>1, <2>2, DeletionOutcome
<1>7. Outcome(Apply(st, e), q, e.Result)
  BY <1>4, <1>6 DEF Outcome
<1> QED
  BY <1>3, <1>4, <1>7 DEF e, d

\* The envelope of a subject deletion makes it true of every version it names.
LEMMA DeleteSubjectOutcome ==
  ASSUME NEW st, WellFormed(st), NEW q \in Requests, q.endpoint = "deleteSubject",
         DeleteSubjectAllowed(st, DeleteSubjectOf(q))
  PROVE  LET e == DeleteSubjectEnvelope(st, DeleteSubjectOf(q))
         IN  e \in Plans(st) /\ e.OperationID = q.op /\ Outcome(Apply(st, e), q, e.Result)
<1> DEFINE d == DeleteSubjectOf(q)
           e == DeleteSubjectEnvelope(st, d)
<1>1. /\ d \in DeleteSubjectCommand /\ d.op = q.op /\ d.subject = q.subject
      /\ d.permanent = q.flag /\ q.subject \in Subject /\ q.flag \in BOOLEAN
  BY RequestTyped DEF DeleteSubjectOf, DeleteSubjectCommand, Unscoped
<1>2. DeleteSubjectAllowed(st, d)
  OBVIOUS
<1> HIDE DEF d
<1>3. e \in Plans(st)
  BY <1>1, <1>2 DEF Plans
<1>4. /\ e.Kind \in Deletions /\ e.OperationID = q.op /\ e.Result.Versions = e.Payload.versions
      /\ e.Payload.subject = q.subject /\ e.Payload.versions = Versions(st, q.subject, q.flag)
      /\ e.Payload.permanent = q.flag
  BY <1>1 DEF DeleteSubjectEnvelope, Envelope, ResultOf, Deletions
<1> HIDE DEF e
<1>5. ASSUME NEW v \in e.Result.Versions
      PROVE  IsGone(Apply(st, e), q.subject, v, q.flag)
  <2>1. HasVersion(st, e.Payload.subject, v, q.flag) /\ v \in e.Payload.versions /\ e.Payload.subject \in Subject
    BY <1>1, <1>4, <1>5 DEF HasVersion
  <2> QED
    BY <1>1, <1>4, <2>1, DeletionOutcome
<1>6. Outcome(Apply(st, e), q, e.Result)
  BY <1>4, <1>5 DEF Outcome
<1> QED
  BY <1>3, <1>4, <1>6 DEF e, d

\* A command commits a transition of the registry that records its outcome.
LEMMA CommandPlan ==
  ASSUME Inv, NEW c \in Connection,
         \/ Register(c) \/ DeleteVersion(c) \/ DeleteSubject(c) \/ PutConfig(c) \/ PutMode(c)
         \/ DeleteSubjectConfig(c) \/ DeleteSubjectMode(c)
  PROVE  /\ job[c].stage = "command"
         /\ \E e \in Plans(state) : /\ CommitApply(c, e) /\ e.OperationID = job[c].request.op
                                    /\ Outcome(Apply(state, e), job[c].request, e.Result)
<1> DEFINE q == job[c].request
<1>1. job[c].stage = "command" /\ Busy(job[c])
  BY DEF Register, DeleteVersion, DeleteSubject, PutConfig, PutMode, DeleteSubjectConfig, DeleteSubjectMode,
     AtCommand, Busy
<1>2. q \in Requests /\ WellFormed(state) /\ CommandFits(job[c])
  BY <1>1, BusyInv DEF JobInv
<1>3. CASE Register(c)
  BY <1>2, <1>3, RegisterOutcome DEF Register, AtCommand, CommitApply
<1>4. CASE DeleteVersion(c)
  <2>1. job[c].version \in 1 .. MaxInt /\ q.endpoint = "deleteVersion"
    BY <1>1, <1>2, <1>4 DEF CommandFits, DeleteVersion, AtCommand
  <2> QED
    BY <1>1, <1>2, <1>4, <2>1, DeleteVersionOutcome DEF DeleteVersion
<1>5. CASE DeleteSubject(c)
  BY <1>2, <1>5, DeleteSubjectOutcome DEF DeleteSubject, AtCommand
<1>6. CASE PutConfig(c)
  <2> DEFINE d == SettingOf(q)
             e == SetCompatibilityEnvelope(state, d)
  <2>1. q.endpoint = "putConfig" /\ SimpleAllowed(state, d) /\ CommitApply(c, e)
    BY <1>6 DEF PutConfig, AtCommand
  <2>2. d \in SetCompatibilityCommand /\ e.OperationID = q.op
    BY <1>2, <2>1, RequestTyped, RequestsAssumption DEF SettingOf, SetCompatibilityCommand,
       SetCompatibilityEnvelope, Envelope
  <2>3. e \in Plans(state) /\ Outcome(Apply(state, e), q, e.Result)
    BY <2>1, <2>2 DEF Plans, Outcome
  <2> QED
    BY <1>1, <2>1, <2>2, <2>3
<1>7. CASE PutMode(c)
  <2> DEFINE d == SettingOf(q)
             e == SetModeEnvelope(state, d)
  <2>1. q.endpoint = "putMode" /\ SimpleAllowed(state, d) /\ CommitApply(c, e)
    BY <1>7 DEF PutMode, AtCommand
  <2>2. d \in SetModeCommand /\ e.OperationID = q.op
    BY <1>2, <2>1, RequestTyped, RequestsAssumption DEF SettingOf, SetModeCommand, SetModeEnvelope, Envelope
  <2>3. e \in Plans(state) /\ Outcome(Apply(state, e), q, e.Result)
    BY <2>1, <2>2 DEF Plans, Outcome
  <2> QED
    BY <1>1, <2>1, <2>2, <2>3
<1>8. CASE DeleteSubjectConfig(c)
  <2> DEFINE d == InheritOf(q)
             e == DeleteCompatibilityEnvelope(state, d)
  <2>1. q.endpoint = "deleteSubjectConfig" /\ SimpleAllowed(state, d) /\ CommitApply(c, e)
    BY <1>8 DEF DeleteSubjectConfig, AtCommand
  <2>2. d \in InheritCommand /\ e.OperationID = q.op
    BY <1>2, <2>1, RequestTyped DEF InheritOf, InheritCommand, DeleteCompatibilityEnvelope, Envelope, Unscoped
  <2>3. e \in Plans(state) /\ Outcome(Apply(state, e), q, e.Result)
    BY <2>1, <2>2 DEF Plans, Outcome
  <2> QED
    BY <1>1, <2>1, <2>2, <2>3
<1>9. CASE DeleteSubjectMode(c)
  <2> DEFINE d == InheritOf(q)
             e == DeleteModeEnvelope(state, d)
  <2>1. q.endpoint = "deleteSubjectMode" /\ SimpleAllowed(state, d) /\ CommitApply(c, e)
    BY <1>9 DEF DeleteSubjectMode, AtCommand
  <2>2. d \in InheritCommand /\ e.OperationID = q.op
    BY <1>2, <2>1, RequestTyped DEF InheritOf, InheritCommand, DeleteModeEnvelope, Envelope, Unscoped
  <2>3. e \in Plans(state) /\ Outcome(Apply(state, e), q, e.Result)
    BY <2>1, <2>2 DEF Plans, Outcome
  <2> QED
    BY <1>1, <2>1, <2>2, <2>3
<1> QED
  BY <1>3, <1>4, <1>5, <1>6, <1>7, <1>8, <1>9

\* The transition of a request records the outcome of that request, and keeps
\* the outcomes of the others.
LEMMA OutcomesStayRecorded ==
  ASSUME NEW st, WellFormed(st), OutcomesRecorded(st), NEW e \in Plans(st), Applies(st, e),
         NEW q \in Requests, e.OperationID = q.op, Outcome(Apply(st, e), q, e.Result)
  PROVE  OutcomesRecorded(Apply(st, e))
<1> DEFINE u == Apply(st, e)
<1>1. Evolves(st, u)
  BY PlanEvolves
<1>2. st \in Snapshot /\ Planned(st, e)
  BY PlansAreSafe DEF WellFormed
<1>3. u.Operations = OperationsAfter(st, e) /\ st.Operations \in [OperationID -> Result \cup {None}]
  BY <1>2 DEF Apply, Snapshot
<1>4. /\ \A o \in OperationID : st.Operations[o] # None => u.Operations[o] = st.Operations[o]
      /\ e.OperationID # NoOperation => u.Operations[e.OperationID] = e.Result
  BY <1>2, ResultsKept
<1> HIDE DEF u
<1>5. ASSUME NEW p \in Requests, IsRecorded(u, p.op)
      PROVE  Outcome(u, p, u.Operations[p.op])
  <2>1. p.op \in OperationID /\ p.op # NoOperation /\ u.Operations[p.op] # None
    BY <1>5, RequestTyped DEF IsRecorded, Operation
  <2>2. CASE st.Operations[p.op] # None
    <3>1. Outcome(st, p, st.Operations[p.op])
      BY <2>1, <2>2 DEF OutcomesRecorded, IsRecorded
    <3> QED
      BY <3>1, <2>1, <2>2, <1>1, <1>4, OutcomeStays
  <2>3. CASE st.Operations[p.op] = None
    <3>1. e.OperationID = p.op
      BY <2>1, <2>3, <1>3 DEF OperationsAfter
    <3>2. p = q
      BY <3>1, <2>1, RequestsAssumption
    <3> QED
      BY <3>1, <3>2, <2>1, <1>4 DEF u
  <2> QED
    BY <2>2, <2>3
<1> QED
  BY <1>5 DEF OutcomesRecorded, u

\* A handler goes on from its command with a result that is true of the state.
LEMMA ReturnInv ==
  ASSUME Inv, NEW c \in Connection, NEW result, job[c].stage = "command", Return(c, result), Observe,
         Evolves(state, state'), OutcomesRecorded(state'), Outcome(state', job[c].request, result)
  PROVE  Inv'
<1> DEFINE q == job[c].request
<1>1. q \in Requests /\ StageFits(job[c])
  BY BusyInv DEF Busy
<1>2. q.endpoint \in Mutations
  BY <1>1 DEF StageFits
<1>3. ~Direct(q)
  BY <1>2 DEF Direct, Gets, Mutations
<1>4. CASE q.endpoint = "register"
  <2> DEFINE j == Executed(job[c], result)
  <2>1. Go(c, j)
    BY <1>4 DEF Return
  <2>2. j.request = q /\ j.stage = "read" /\ j.result = result
    BY DEF Executed, Job
  <2> HIDE DEF j
  <2>3. j.stage \in Stages /\ StageFits(j) /\ CommandFits(j)
    BY <1>4, <2>2 DEF Stages, StageFits, CommandFits
  <2>4. MutationInv(state', j)
    BY <1>4, <2>2 DEF MutationInv, Outcome, Busy
  <2>5. JobInv(state', j, possible'[c])
    BY <1>1, <1>3, <2>2, <2>3, <2>4 DEF JobInv
  <2> QED
    BY <2>1, <2>5, GoInv
<1>5. CASE q.endpoint # "register"
  <2> DEFINE a == AnswerOf(job[c], result)
             j == Answered(job[c], a)
  <2>1. Go(c, j)
    BY <1>5 DEF Return, Answer
  <2>2. j.request = q /\ j.stage = "answered" /\ j.answer = a
    BY DEF Answered, Job
  <2>3. /\ q.endpoint = "deleteVersion" => a.value = result.Version
        /\ q.endpoint = "deleteSubject" => a.value = result.Versions
    BY DEF AnswerOf, Ok
  <2> HIDE DEF j, a
  <2>4. j.stage \in Stages /\ StageFits(j) /\ CommandFits(j)
    BY <2>2 DEF Stages, StageFits, CommandFits
  <2>5. AnswerFits(state', j)
    BY <1>5, <2>2, <2>3 DEF AnswerFits, Outcome
  <2>6. MutationInv(state', j)
    BY <2>2, <2>5 DEF MutationInv
  <2>7. JobInv(state', j, possible'[c])
    BY <1>1, <1>3, <2>2, <2>4, <2>6 DEF JobInv
  <2> QED
    BY <2>1, <2>7, GoInv
<1> QED
  BY <1>4, <1>5

\* A command commits: its outcome holds in the new state, and other handlers keep theirs.
LEMMA CommandInv ==
  ASSUME Inv, NEW c \in Connection,
         \/ Register(c) \/ DeleteVersion(c) \/ DeleteSubject(c) \/ PutConfig(c) \/ PutMode(c)
         \/ DeleteSubjectConfig(c) \/ DeleteSubjectMode(c)
  PROVE  Inv'
<1>1. job[c].stage = "command"
  BY CommandPlan
<1>2. PICK e \in Plans(state) : /\ CommitApply(c, e) /\ e.OperationID = job[c].request.op
                                /\ Outcome(Apply(state, e), job[c].request, e.Result)
  BY CommandPlan
<1>3. Applies(state, e) /\ state' = Apply(state, e) /\ Return(c, e.Result) /\ Observe
  BY <1>2 DEF CommitApply
<1>4. WellFormed(state) /\ OutcomesRecorded(state) /\ job[c].request \in Requests
  BY <1>1, BusyInv DEF Inv, Busy
<1>5. Evolves(state, state')
  BY <1>3, <1>4, PlanEvolves
<1>6. OutcomesRecorded(state')
  BY <1>2, <1>3, <1>4, OutcomesStayRecorded
<1> QED
  BY <1>1, <1>2, <1>3, <1>5, <1>6, ReturnInv

\* A retry is answered with a recorded result, whose outcome still holds.
LEMMA AnswerRecordedInv ==
  ASSUME Inv, NEW c \in Connection, AnswerRecorded(c)
  PROVE  Inv'
<1> DEFINE q == job[c].request
<1>1. /\ job[c].stage = "command" /\ IsRecorded(state, q.op)
      /\ Return(c, state.Operations[q.op]) /\ state' = state /\ Observe
  BY DEF AnswerRecorded
<1>2. q \in Requests /\ WellFormed(state)
  BY <1>1, BusyInv DEF Busy
<1>3. Outcome(state, q, state.Operations[q.op]) /\ OutcomesRecorded(state)
  BY <1>1, <1>2 DEF Inv, OutcomesRecorded
<1> QED
  BY <1>1, <1>2, <1>3, SameEvolves, ReturnInv

\* A duplicate is answered with the version that holds the schema.
LEMMA AnswerDuplicateInv ==
  ASSUME Inv, NEW c \in Connection, AnswerDuplicate(c)
  PROVE  Inv'
<1> DEFINE q == job[c].request
<1>1. /\ job[c].stage = "command" /\ q.endpoint = "register" /\ state' = state /\ Observe
  BY DEF AnswerDuplicate, AtCommand
<1>2. q \in Requests /\ WellFormed(state) /\ OutcomesRecorded(state)
  BY <1>1, BusyInv DEF Busy, Inv
<1>3. PICK i \in Visible(state, q.subject, FALSE) :
         i.id = state.IdentityToID[q.schema] /\ Return(c, ResultOf(i.id, i.version, {}))
  BY DEF AnswerDuplicate
<1>4. q.schema \in Identity /\ q.subject \in Subject
  BY <1>1, <1>2, RequestTyped, RequestsAssumption DEF Unscoped
<1>5. i \in state.Subjects[q.subject] /\ i.id # None
  <2>1. i \in state.Subjects[q.subject]
    BY <1>3 DEF Visible
  <2>2. i.id \in Int64
    BY <2>1, <1>2, <1>4 DEF WellFormed, Snapshot, SubjectVersion
  <2> QED
    BY <2>1, <2>2, NoneAssumption
<1>6. state.Schemas[i.id] = q.schema
  BY <1>2, <1>3, <1>4, <1>5 DEF WellFormed, IDsMatch
<1>7. Outcome(state, q, ResultOf(i.id, i.version, {}))
  BY <1>1, <1>5, <1>6 DEF Outcome, Holds, ResultOf
<1> QED
  BY <1>1, <1>2, <1>3, <1>7, SameEvolves, ReturnInv

\* A refusal and a failed commit claim nothing.
LEMMA ErrorInv ==
  ASSUME Inv, NEW c \in Connection, Refuse(c) \/ CommitFails(c)
  PROVE  Inv'
<1> DEFINE q == job[c].request
<1>1. job[c].stage = "command" /\ Busy(job[c]) /\ state' = state /\ Observe
  BY DEF Refuse, CommitFails, Busy
<1>2. StageFits(job[c])
  BY <1>1, BusyInv
<1>3. ~Direct(q)
  BY <1>1, <1>2 DEF StageFits, Direct, Gets, Mutations
<1>4. RefusalCode(job[c]) # 200
  <2>1. CASE q.endpoint = "register"
    <3>1. RefusalCode(job[c]) = IF RegisterCode(q) # 200 THEN RegisterCode(q) ELSE 409
      BY <2>1 DEF RefusalCode
    <3> QED
      BY <3>1
  <2>2. CASE q.endpoint # "register"
    <3>1. RefusalCode(job[c]) \in {42205, 40402, 40401, 409}
      BY <2>2 DEF RefusalCode
    <3> QED
      BY <3>1
  <2> QED
    BY <2>1, <2>2
<1>5. PICK n : n # 200 /\ Answer(c, Error(n))
  BY <1>4 DEF Refuse, CommitFails
<1>6. Error(n).code # 200
  BY <1>5 DEF Error
<1> QED
  BY <1>1, <1>3, <1>5, <1>6, AnswerInv

-----------------------------------------------------------------------------
(* The invariant holds.                                                    *)

\* The registry starts well formed, with no request in progress.
LEMMA InitInv ==
  Init => Inv
<1> SUFFICES ASSUME Init PROVE Inv
  OBVIOUS
<1>1. state \in Backups /\ job = [c \in Connection |-> Fresh]
  BY DEF Init
<1>2. WellFormed(state) /\ OutcomesRecorded(state)
  BY <1>1, BackupsAssumption, RecoveredAssumption
<1> QED
  BY <1>1, <1>2 DEF Inv

\* Every step keeps the invariant.
LEMMA StepInv ==
  Inv /\ [Next]_vars => Inv'
<1> SUFFICES ASSUME Inv, [Next]_vars PROVE Inv'
  OBVIOUS
<1>1. ASSUME NEW c \in Connection, NEW q \in Requests, Arrive(c, q)
      PROVE  Inv'
  BY <1>1, ArriveInv
<1>2. ASSUME NEW c \in Connection, ParseRequest(c) \/ ResolveVersion(c) \/ LookFirst(c) \/ Read(c)
      PROVE  Inv'
  BY <1>2, ParseRequestInv, ResolveVersionInv, LookFirstInv, ReadStepInv
<1>3. ASSUME NEW c \in Connection,
             \/ Register(c) \/ DeleteVersion(c) \/ DeleteSubject(c) \/ PutConfig(c) \/ PutMode(c)
             \/ DeleteSubjectConfig(c) \/ DeleteSubjectMode(c)
      PROVE  Inv'
  BY <1>3, CommandInv
<1>4. ASSUME NEW c \in Connection, AnswerRecorded(c) \/ AnswerDuplicate(c) \/ Refuse(c) \/ CommitFails(c)
      PROVE  Inv'
  BY <1>4, AnswerRecordedInv, AnswerDuplicateInv, ErrorInv
<1>5. CASE UNCHANGED vars
  BY <1>5 DEF vars, Inv
<1> QED
  BY <1>1, <1>2, <1>3, <1>4, <1>5 DEF Next

\* The invariant holds for ever.
LEMMA InvariantHolds ==
  Spec => []Inv
BY InitInv, StepInv, PTL DEF Spec

-----------------------------------------------------------------------------
(* What the runs check, for any requests and connections.                  *)

\* A read that names what it reads is answered as of one moment, although
\* commands run between the snapshots its handler takes.
THEOREM ReadsAreAtomic ==
  Spec => []DirectReadsAreAtomic
<1>1. Inv => DirectReadsAreAtomic
  BY DEF Inv, JobInv, DirectInv, DirectReadsAreAtomic
<1> QED
  BY <1>1, InvariantHolds, PTL

\* A successful registration names the schema that was sent.
THEOREM RegistrationsAreTrue ==
  Spec => []RegistrationsNameTheirSchema
<1>1. Inv => RegistrationsNameTheirSchema
  BY DEF Inv, JobInv, MutationInv, AnswerFits, RegistrationsNameTheirSchema, Succeeded
<1> QED
  BY <1>1, InvariantHolds, PTL

\* What a successful deletion reports stays deleted.
THEOREM DeletionsAreTrue ==
  Spec => []DeletionsHold
<1>1. Inv => DeletionsHold
  <2> SUFFICES ASSUME Inv, NEW c \in Connection
               PROVE  LET q == job[c].request
                          gone(v) == \A i \in state.Subjects[q.subject] :
                                        i.version = v => i.deleted /\ (q.flag => i.permanent)
                      IN  /\ Succeeded(c, "deleteVersion") => gone(job[c].answer.value)
                          /\ Succeeded(c, "deleteSubject") => \A v \in job[c].answer.value : gone(v)
    BY DEF DeletionsHold
  <2> DEFINE q == job[c].request
  <2>1. ASSUME NEW v, q.subject \in Subject, IsGone(state, q.subject, v, q.flag),
               NEW i \in state.Subjects[q.subject], i.version = v
        PROVE  i.deleted /\ (q.flag => i.permanent)
    <3>1. PICK k \in state.Subjects[q.subject] : k.version = v /\ k.deleted /\ (q.flag => k.permanent)
      BY <2>1 DEF IsGone
    <3>2. k = i
      BY <2>1, <3>1 DEF Inv, WellFormed, Valid
    <3> QED
      BY <3>1, <3>2
  <2>2. ASSUME job[c] # Fresh, ~Busy(job[c]), job[c].answer.code = 200, q.endpoint \in {"deleteVersion", "deleteSubject"}
        PROVE  AnswerFits(state, job[c]) /\ q.subject \in Subject
    <3>1. q \in Requests /\ AnswerFits(state, job[c])
      BY <2>2 DEF Inv, JobInv, MutationInv
    <3> QED
      BY <3>1, <2>2, RequestTyped DEF Unscoped
  <2>3. Succeeded(c, "deleteVersion") => q.subject \in Subject /\ IsGone(state, q.subject, job[c].answer.value, q.flag)
    BY <2>2 DEF Succeeded, AnswerFits
  <2>4. Succeeded(c, "deleteSubject") =>
          q.subject \in Subject /\ \A v \in job[c].answer.value : IsGone(state, q.subject, v, q.flag)
    BY <2>2 DEF Succeeded, AnswerFits
  <2> QED
    BY <2>1, <2>3, <2>4
<1> QED
  BY <1>1, InvariantHolds, PTL

-----------------------------------------------------------------------------
(* R takes its own copies of the operators of RegistryState.  They are the *)
(* same operators.                                                         *)

\* The commands the transport builds are those of the abstract registry.
LEMMA SameCommands ==
  /\ R!RegisterCommand = RegisterCommand /\ R!DeleteVersionCommand = DeleteVersionCommand
  /\ R!DeleteSubjectCommand = DeleteSubjectCommand /\ R!InheritCommand = InheritCommand
  /\ R!SetCompatibilityCommand = SetCompatibilityCommand /\ R!SetModeCommand = SetModeCommand
  /\ R!NewState = NewState
BY DEF R!RegisterCommand, RegisterCommand, R!DeleteVersionCommand, DeleteVersionCommand,
   R!DeleteSubjectCommand, DeleteSubjectCommand, R!InheritCommand, InheritCommand,
   R!SetCompatibilityCommand, SetCompatibilityCommand, R!SetModeCommand, SetModeCommand,
   R!Operation, Operation, R!Scope, Scope, R!NewState, NewState, R!Int64, Int64

\* planRegister plans the same registration in both.
LEMMA SameRegister ==
  ASSUME NEW st, NEW c
  PROVE  /\ R!RegisterAllowed(st, c) <=> RegisterAllowed(st, c)
         /\ R!RegisterEnvelope(st, c) = RegisterEnvelope(st, c)
BY DEF R!RegisterAllowed, RegisterAllowed, R!IsRecorded, IsRecorded, R!EffectiveMode,
   EffectiveMode, R!HasVersion, HasVersion, R!Versions, Versions, R!Visible, Visible,
   R!IsDuplicate, IsDuplicate, R!IsActive, IsActive, R!RegisterID, RegisterID,
   R!RegisterVersion, RegisterVersion, R!NextVersion, NextVersion, R!Increment, Increment,
   R!PolicyAccepts, PolicyAccepts, R!EffectiveCompatibility, EffectiveCompatibility,
   R!ComparedItems, ComparedItems, R!Transitive, Transitive, R!Parses, Parses,
   R!PairCompatible, PairCompatible, R!RegisterEnvelope, RegisterEnvelope, R!Envelope,
   Envelope, R!ResultOf, ResultOf

\* DeleteVersion and DeleteSubject plan the same deletions in both.
LEMMA SameDeletions ==
  ASSUME NEW st, NEW c
  PROVE  /\ R!DeleteVersionAllowed(st, c) <=> DeleteVersionAllowed(st, c)
         /\ R!DeleteVersionEnvelope(st, c) = DeleteVersionEnvelope(st, c)
         /\ R!DeleteSubjectAllowed(st, c) <=> DeleteSubjectAllowed(st, c)
         /\ R!DeleteSubjectEnvelope(st, c) = DeleteSubjectEnvelope(st, c)
BY DEF R!DeleteVersionAllowed, DeleteVersionAllowed, R!DeleteVersionEnvelope,
   DeleteVersionEnvelope, R!DeleteSubjectAllowed, DeleteSubjectAllowed,
   R!DeleteSubjectEnvelope, DeleteSubjectEnvelope, R!IsRecorded, IsRecorded,
   R!EffectiveMode, EffectiveMode, R!HasVersion, HasVersion, R!Versions, Versions,
   R!Visible, Visible, R!MayDestroy, MayDestroy, R!IsReferenced, IsReferenced, R!IsActive,
   IsActive, R!Envelope, Envelope, R!ResultOf, ResultOf

\* simpleMutation plans the same configuration and mode changes in both.
LEMMA SameSettings ==
  ASSUME NEW st, NEW c
  PROVE  /\ R!SimpleAllowed(st, c) <=> SimpleAllowed(st, c)
         /\ R!SetCompatibilityEnvelope(st, c) = SetCompatibilityEnvelope(st, c)
         /\ R!DeleteCompatibilityEnvelope(st, c) = DeleteCompatibilityEnvelope(st, c)
         /\ R!SetModeEnvelope(st, c) = SetModeEnvelope(st, c)
         /\ R!DeleteModeEnvelope(st, c) = DeleteModeEnvelope(st, c)
BY DEF R!SimpleAllowed, SimpleAllowed, R!IsRecorded, IsRecorded, R!SetCompatibilityEnvelope,
   SetCompatibilityEnvelope, R!DeleteCompatibilityEnvelope, DeleteCompatibilityEnvelope,
   R!SetModeEnvelope, SetModeEnvelope, R!DeleteModeEnvelope, DeleteModeEnvelope, R!Envelope,
   Envelope, R!EmptyResult, EmptyResult, R!ResultOf, ResultOf

\* State.Apply computes the same state in both.
LEMMA SameApply ==
  ASSUME NEW st, NEW e
  PROVE  R!Apply(st, e) = Apply(st, e)
BY DEF R!Apply, Apply, R!NextSchemaIDAfter, NextSchemaIDAfter, R!SchemasAfter, SchemasAfter,
   R!IdentityToIDAfter, IdentityToIDAfter, R!SubjectsAfter, SubjectsAfter,
   R!GlobalCompatibilityAfter, GlobalCompatibilityAfter, R!SubjectCompatibilityAfter,
   SubjectCompatibilityAfter, R!GlobalModeAfter, GlobalModeAfter, R!SubjectModesAfter,
   SubjectModesAfter, R!OperationsAfter, OperationsAfter, R!SetsGlobal, SetsGlobal,
   R!SetsSubject, SetsSubject, R!NewVersion, NewVersion, R!MarkDeleted, MarkDeleted,
   R!Deletions, Deletions, R!Increment, Increment

\* State.Apply and State.validate refuse the same transitions in both.
LEMMA SameApplies ==
  ASSUME NEW st, NEW e
  PROVE  /\ R!Applies(st, e) <=> Applies(st, e)
         /\ R!Valid(st) <=> Valid(st)
BY SameApply DEF R!Applies, Applies, R!PayloadFits, PayloadFits, R!Valid, Valid, R!Deletions,
   Deletions

\* A planned transition is a step of Registry.
LEMMA PlannedStepRefines ==
  ASSUME NEW e \in Plans(state), state.Sequence < MaxSequence,
         Applies(state, e), state' = Apply(state, e)
  PROVE  R!Next
<1>1. R!CommitApply(e)
  BY SameApply, SameApplies DEF R!CommitApply
<1>2. ASSUME NEW c \in RegisterCommand, RegisterAllowed(state, c), e = RegisterEnvelope(state, c)
      PROVE  R!Next
  BY <1>1, <1>2, SameRegister, SameCommands DEF R!Next, R!Register
<1>3. ASSUME NEW c \in DeleteVersionCommand, DeleteVersionAllowed(state, c),
             e = DeleteVersionEnvelope(state, c)
      PROVE  R!Next
  BY <1>1, <1>3, SameDeletions, SameCommands DEF R!Next, R!DeleteVersion
<1>4. ASSUME NEW c \in DeleteSubjectCommand, DeleteSubjectAllowed(state, c),
             e = DeleteSubjectEnvelope(state, c)
      PROVE  R!Next
  BY <1>1, <1>4, SameDeletions, SameCommands DEF R!Next, R!DeleteSubject
<1>5. ASSUME NEW c \in SetCompatibilityCommand, SimpleAllowed(state, c),
             e = SetCompatibilityEnvelope(state, c)
      PROVE  R!Next
  BY <1>1, <1>5, SameSettings, SameCommands DEF R!Next, R!SetCompatibility
<1>6. ASSUME NEW c \in InheritCommand, SimpleAllowed(state, c),
             e = DeleteCompatibilityEnvelope(state, c)
      PROVE  R!Next
  BY <1>1, <1>6, SameSettings, SameCommands DEF R!Next, R!DeleteCompatibility
<1>7. ASSUME NEW c \in SetModeCommand, SimpleAllowed(state, c), e = SetModeEnvelope(state, c)
      PROVE  R!Next
  BY <1>1, <1>7, SameSettings, SameCommands DEF R!Next, R!SetMode
<1>8. ASSUME NEW c \in InheritCommand, SimpleAllowed(state, c), e = DeleteModeEnvelope(state, c)
      PROVE  R!Next
  BY <1>1, <1>8, SameSettings, SameCommands DEF R!Next, R!DeleteMode
<1> QED
  BY <1>2, <1>3, <1>4, <1>5, <1>6, <1>7, <1>8 DEF Plans

\* Every handler that changes the state does so by a command of Registry.
THEOREM HandlersExecuteCommands ==
  Spec => CommandsOnly
<1>1. Inv /\ [Next]_vars => [state' # state => R!Next]_state
  <2> SUFFICES ASSUME Inv, [Next]_vars
               PROVE  R!Next \/ state' = state
    OBVIOUS
  <2>1. ASSUME NEW c \in Connection,
               \/ Register(c) \/ DeleteVersion(c) \/ DeleteSubject(c) \/ PutConfig(c) \/ PutMode(c)
               \/ DeleteSubjectConfig(c) \/ DeleteSubjectMode(c)
        PROVE  R!Next
    <3>1. PICK e \in Plans(state) : CommitApply(c, e)
      BY <2>1, CommandPlan
    <3> QED
      BY <3>1, PlannedStepRefines DEF CommitApply
  <2>2. ASSUME NEW c \in Connection, NEW q \in Requests, Arrive(c, q)
        PROVE  state' = state
    BY <2>2 DEF Arrive
  <2>3. ASSUME NEW c \in Connection, ParseRequest(c) \/ ResolveVersion(c) \/ LookFirst(c) \/ Read(c)
        PROVE  state' = state
    BY <2>3 DEF ParseRequest, ResolveVersion, LookFirst, Read
  <2>4. ASSUME NEW c \in Connection, AnswerRecorded(c) \/ AnswerDuplicate(c) \/ Refuse(c) \/ CommitFails(c)
        PROVE  state' = state
    <3>1. CASE AnswerRecorded(c) \/ CommitFails(c)
      BY <3>1 DEF AnswerRecorded, CommitFails
    <3>2. CASE AnswerDuplicate(c)
      BY <3>2 DEF AnswerDuplicate
    <3>3. CASE Refuse(c)
      BY <3>3 DEF Refuse
    <3> QED
      BY <2>4, <3>1, <3>2, <3>3
  <2> QED
    BY <2>1, <2>2, <2>3, <2>4 DEF Next, vars
<1> QED
  BY <1>1, InvariantHolds, PTL DEF Spec, CommandsOnly

-----------------------------------------------------------------------------
(* Retries.                                                                *)

\* The handler on connection c is answered with success, or what it looks for
\* is gone.
Excused(c) == job'[c].answer.code = 200 \/ Gone(job[c])

\* A handler changes the job of its connection only.
LEMMA OwnJob ==
  ASSUME Inv, NEW c \in Connection, NEW j, Go(c, j)
  PROVE  job'[c] = j /\ \A d \in Connection : d # c => job'[d] = job[d]
BY DEF Inv, Go

\* A retry that ends while its references are resolved fails for what is gone.
LEMMA ParseRetry ==
  ASSUME Inv, NEW c \in Connection, ParseRequest(c), ~Busy(job'[c]), job[c].request.endpoint \in Mutations
  PROVE  Excused(c)
<1> DEFINE q == job[c].request
<1>1. job[c].stage = "parse" /\ Busy(job[c])
  BY DEF ParseRequest, Busy
<1>2. q.endpoint = "register"
  BY <1>1, BusyInv DEF StageFits, Lookups, Mutations
<1>3. CASE Parses(state, q.schema)
  <2>1. job'[c] = Moved(job[c], StageAfter("parse", q), job[c].version, job[c].looked)
    BY <1>3, OwnJob DEF ParseRequest
  <2>2. job'[c].stage = StageAfter("parse", q)
    BY <2>1 DEF Moved, Job
  <2>3. StageAfter("parse", q) = "command"
    BY <1>2 DEF StageAfter, Mutations
  <2> QED
    BY <2>2, <2>3 DEF Busy
<1>4. CASE ~Parses(state, q.schema)
  BY <1>1, <1>2, <1>4 DEF Excused, Gone
<1> QED
  BY <1>3, <1>4

\* So does one that ends while "latest" is resolved.
LEMMA ResolveRetry ==
  ASSUME Inv, NEW c \in Connection, ResolveVersion(c), ~Busy(job'[c]), job[c].request.endpoint \in Mutations
  PROVE  Excused(c)
<1> DEFINE q == job[c].request
           versions == Versions(state, q.subject, TRUE)
<1>1. job[c].stage = "resolve" /\ Busy(job[c])
  BY DEF ResolveVersion, Busy
<1>2. q.endpoint = "deleteVersion" /\ q \in Requests
  BY <1>1, BusyInv DEF StageFits, Mutations
<1>3. ASSUME NEW v, Go(c, Moved(job[c], StageAfter("resolve", q), v, job[c].looked))
      PROVE  FALSE
  <2>1. job'[c].stage = StageAfter("resolve", q)
    BY <1>3, OwnJob DEF Moved, Job
  <2>2. StageAfter("resolve", q) = "command"
    BY <1>2 DEF StageAfter
  <2> QED
    BY <2>1, <2>2 DEF Busy
<1>4. ParseVersionPath(state, q) = {}
  BY <1>3 DEF ResolveVersion
<1>5. IncludesDeleted(q) = TRUE
  BY <1>2 DEF IncludesDeleted
<1>6. q.version = Latest /\ {v \in versions : \A w \in versions : w <= v} = {}
  BY <1>4, <1>5 DEF ParseVersionPath
<1>7. versions = {}
  <2>1. WellFormed(state) /\ q.subject \in Subject
    BY <1>1, <1>2, BusyInv, RequestTyped DEF Unscoped
  <2>2. versions \subseteq 1 .. MaxInt
    BY <2>1 DEF WellFormed, Valid, Versions, Visible
  <2> HIDE DEF versions
  <2>3. MaxInt \in Int /\ versions \in SUBSET Int /\ \A x \in versions : x <= MaxInt
    BY <2>2, ConstantsAssumption
  <2>4. versions # {} => \E x \in versions : \A y \in versions : y <= x
    BY <2>3, GreatestElement, Zenon
  <2> QED
    BY <1>6, <2>4
<1> QED
  BY <1>2, <1>6, <1>7 DEF Excused, Gone

\* So does one that ends when its handler looks first.
LEMMA LookRetry ==
  ASSUME Inv, NEW c \in Connection, LookFirst(c), ~Busy(job'[c]), job[c].request.endpoint \in Mutations
  PROVE  Excused(c)
<1> DEFINE q == job[c].request
           found == Look(state, job[c])
<1>1. job[c].stage = "look" /\ Busy(job[c])
  BY DEF LookFirst, Busy
<1>2. q.endpoint \in {"deleteSubjectConfig", "deleteSubjectMode"}
  BY <1>1, BusyInv DEF StageFits, Mutations
<1>3. found = None
  <2> SUFFICES ASSUME found # None
               PROVE  FALSE
    OBVIOUS
  <2>1. Go(c, Moved(job[c], StageAfter("look", q), job[c].version, found))
    BY <1>2 DEF LookFirst
  <2>2. job'[c].stage = StageAfter("look", q)
    BY <2>1, OwnJob DEF Moved, Job
  <2>3. StageAfter("look", q) = "command"
    BY <1>2 DEF StageAfter, Mutations
  <2> QED
    BY <2>2, <2>3 DEF Busy
<1>4. CASE q.endpoint = "deleteSubjectConfig"
  BY <1>3, <1>4 DEF Look, Excused, Gone
<1>5. CASE q.endpoint = "deleteSubjectMode"
  BY <1>3, <1>5 DEF Look, Excused, Gone
<1> QED
  BY <1>2, <1>4, <1>5

\* A registration reads its version back, unless it has been destroyed.
LEMMA ReadRetry ==
  ASSUME Inv, NEW c \in Connection, Read(c), job[c].request.endpoint \in Mutations
  PROVE  Excused(c)
<1> DEFINE q == job[c].request
           v == job[c].result.Version
           item == {[version |-> i.version, id |-> i.id] :
                      i \in {k \in Visible(state, q.subject, TRUE) : k.version = v}}
<1>1. job[c].stage = "read" /\ Busy(job[c])
  BY DEF Read, Busy
<1>2. q.endpoint = "register"
  BY <1>1, BusyInv DEF StageFits, Mutations, Gets, Lookups
<1>3. LastLook(state, job[c]) = OkUnlessEmpty(item, 50001)
  BY <1>2 DEF LastLook, RegisteredVersion
<1>4. job'[c].answer = LastLook(state, job[c])
  BY OwnJob DEF Read, Answer, Answered, Job
<1>5. CASE item # {}
  <2> HIDE DEF item
  <2> QED
    BY <1>3, <1>4, <1>5 DEF OkUnlessEmpty, Ok, Excused
<1>6. CASE item = {}
  <2>1. ~HasVersion(state, q.subject, v, TRUE)
    BY <1>6 DEF HasVersion, Versions
  <2> QED
    BY <1>1, <1>2, <2>1 DEF Excused, Gone
<1> QED
  BY <1>5, <1>6

\* A command commits only what has not been recorded.
LEMMA CommandIsFirst ==
  ASSUME Inv, NEW c \in Connection,
         \/ Register(c) \/ DeleteVersion(c) \/ DeleteSubject(c) \/ PutConfig(c) \/ PutMode(c)
         \/ DeleteSubjectConfig(c) \/ DeleteSubjectMode(c)
  PROVE  ~IsRecorded(state, job[c].request.op)
<1>1. CASE Register(c)
  BY <1>1 DEF Register, RegisterAllowed, RegisterOf
<1>2. CASE DeleteVersion(c)
  BY <1>2 DEF DeleteVersion, DeleteVersionAllowed, DeleteVersionOf
<1>3. CASE DeleteSubject(c)
  BY <1>3 DEF DeleteSubject, DeleteSubjectAllowed, DeleteSubjectOf
<1>4. CASE PutConfig(c) \/ PutMode(c)
  BY <1>4 DEF PutConfig, PutMode, SimpleAllowed, SettingOf
<1>5. CASE DeleteSubjectConfig(c) \/ DeleteSubjectMode(c)
  BY <1>5 DEF DeleteSubjectConfig, DeleteSubjectMode, SimpleAllowed, InheritOf
<1> QED
  BY <1>1, <1>2, <1>3, <1>4, <1>5

\* Neither does a command that fails otherwise.
LEMMA FailureIsFirst ==
  ASSUME Inv, NEW c \in Connection, AnswerDuplicate(c) \/ Refuse(c) \/ CommitFails(c)
  PROVE  ~IsRecorded(state, job[c].request.op)
<1> DEFINE q == job[c].request
<1>1. CASE AnswerDuplicate(c) \/ Refuse(c)
  BY <1>1 DEF AnswerDuplicate, Refuse
<1>2. CASE CommitFails(c)
  <2>1. Allowed(job[c])
    BY <1>2 DEF CommitFails
  <2>2. CASE q.endpoint = "register"
    BY <2>1, <2>2 DEF Allowed, RegisterAllowed, RegisterOf
  <2>3. CASE q.endpoint = "deleteVersion"
    BY <2>1, <2>3 DEF Allowed, DeleteVersionAllowed, DeleteVersionOf
  <2>4. CASE q.endpoint = "deleteSubject"
    BY <2>1, <2>4 DEF Allowed, DeleteSubjectAllowed, DeleteSubjectOf
  <2>5. CASE q.endpoint \notin {"register", "deleteVersion", "deleteSubject"}
    BY <2>1, <2>5 DEF Allowed
  <2> QED
    BY <2>2, <2>3, <2>4, <2>5
<1> QED
  BY <1>1, <1>2

\* A recorded operation is answered with its result.
LEMMA RecordedRetry ==
  ASSUME Inv, NEW c \in Connection, AnswerRecorded(c), ~Busy(job'[c]), job[c].request.endpoint \in Mutations
  PROVE  Excused(c)
<1> DEFINE q == job[c].request
           result == state.Operations[q.op]
<1>1. CASE q.endpoint = "register"
  <2>1. Go(c, Executed(job[c], result))
    BY <1>1 DEF AnswerRecorded, Return
  <2>2. job'[c].stage = "read"
    BY <2>1, OwnJob DEF Executed, Job
  <2> QED
    BY <2>2 DEF Busy
<1>2. CASE q.endpoint # "register"
  <2>1. Go(c, Answered(job[c], AnswerOf(job[c], result)))
    BY <1>2 DEF AnswerRecorded, Return, Answer
  <2>2. job'[c].answer = AnswerOf(job[c], result)
    BY <2>1, OwnJob DEF Answered, Job
  <2>3. AnswerOf(job[c], result).code = 200
    <3>1. CASE q.endpoint = "deleteVersion"
      BY <3>1 DEF AnswerOf, Ok
    <3>2. CASE q.endpoint = "deleteSubject"
      BY <3>2 DEF AnswerOf, Ok
    <3>3. CASE q.endpoint = "putConfig"
      BY <3>3 DEF AnswerOf, Ok
    <3>4. CASE q.endpoint = "putMode"
      BY <3>4 DEF AnswerOf, Ok
    <3>5. CASE q.endpoint = "deleteSubjectConfig"
      BY <3>5 DEF AnswerOf, Ok
    <3>6. CASE q.endpoint = "deleteSubjectMode"
      BY <3>6 DEF AnswerOf, Ok
    <3> QED
      BY <1>2, <3>1, <3>2, <3>3, <3>4, <3>5, <3>6 DEF Mutations
  <2> QED
    BY <2>2, <2>3 DEF Excused
<1> QED
  BY <1>1, <1>2

\* Some handler makes the step, and the jobs of the others stay as they are.
LEMMA OthersWait ==
  ASSUME Inv, NEW c \in Connection, NEW d \in Connection, job'[d] # job[d],
         \/ \E q \in Requests : Arrive(c, q)
         \/ ParseRequest(c) \/ ResolveVersion(c) \/ LookFirst(c) \/ Read(c)
         \/ Register(c) \/ DeleteVersion(c) \/ DeleteSubject(c) \/ PutConfig(c) \/ PutMode(c)
         \/ DeleteSubjectConfig(c) \/ DeleteSubjectMode(c)
         \/ AnswerRecorded(c) \/ AnswerDuplicate(c) \/ Refuse(c) \/ CommitFails(c)
  PROVE  c = d
<1>1. ASSUME NEW j, Go(c, j)
      PROVE  c = d
  BY <1>1, OwnJob
<1>2. ASSUME NEW a, Answer(c, a)
      PROVE  c = d
  BY <1>1, <1>2 DEF Answer
<1>3. ASSUME NEW result, Return(c, result)
      PROVE  c = d
  BY <1>1, <1>2, <1>3 DEF Return
<1>4. CASE \E q \in Requests : Arrive(c, q)
  BY <1>1, <1>4 DEF Arrive
<1>5. CASE ParseRequest(c)
  BY <1>1, <1>2, <1>5 DEF ParseRequest
<1>6. CASE ResolveVersion(c)
  BY <1>1, <1>2, <1>6 DEF ResolveVersion
<1>7. CASE LookFirst(c)
  BY <1>1, <1>2, <1>7 DEF LookFirst
<1>8. CASE Read(c)
  BY <1>2, <1>8 DEF Read
<1>9. CASE \/ Register(c) \/ DeleteVersion(c) \/ DeleteSubject(c) \/ PutConfig(c) \/ PutMode(c)
           \/ DeleteSubjectConfig(c) \/ DeleteSubjectMode(c)
  <2>1. PICK e \in Plans(state) : CommitApply(c, e)
    BY <1>9, CommandPlan
  <2> QED
    BY <2>1, <1>3 DEF CommitApply
<1>10. CASE AnswerRecorded(c)
  BY <1>3, <1>10 DEF AnswerRecorded
<1>11. CASE AnswerDuplicate(c)
  BY <1>3, <1>11 DEF AnswerDuplicate
<1>12. CASE Refuse(c) \/ CommitFails(c)
  BY <1>2, <1>12 DEF Refuse, CommitFails
<1> QED
  BY <1>4, <1>5, <1>6, <1>7, <1>8, <1>9, <1>10, <1>11, <1>12

\* A mutation that has been executed and is sent again fails only where its
\* handler looks for something that has gone since.
THEOREM RetriesSucceed ==
  Spec => RetriesFailOnlyForWhatIsGone
<1> DEFINE Body ==
      \A c \in Connection :
          LET q == job[c].request
          IN  /\ Busy(job[c]) /\ ~Busy(job'[c])
              /\ q.endpoint \in Mutations
              /\ q.op # NoOperation /\ state.Operations[q.op] # None
              => job'[c].answer.code = 200 \/ Gone(job[c])
<1>1. Inv /\ [Next]_vars => [Body]_vars
  <2> SUFFICES ASSUME Inv, Next, NEW d \in Connection, Busy(job[d]), ~Busy(job'[d]),
                      job[d].request.endpoint \in Mutations, IsRecorded(state, job[d].request.op)
               PROVE  Excused(d)
    BY DEF Excused, IsRecorded
  <2>1. job'[d] # job[d]
    OBVIOUS
  <2>2. PICK c \in Connection :
         \/ \E q \in Requests : Arrive(c, q)
         \/ ParseRequest(c) \/ ResolveVersion(c) \/ LookFirst(c) \/ Read(c)
         \/ Register(c) \/ DeleteVersion(c) \/ DeleteSubject(c) \/ PutConfig(c) \/ PutMode(c)
         \/ DeleteSubjectConfig(c) \/ DeleteSubjectMode(c)
         \/ AnswerRecorded(c) \/ AnswerDuplicate(c) \/ Refuse(c) \/ CommitFails(c)
    BY DEF Next
  <2>3. c = d
    BY <2>1, <2>2, OthersWait
  <2>4. ~\E q \in Requests : Arrive(d, q)
    BY DEF Arrive
  <2> QED
    BY <2>2, <2>3, <2>4, ParseRetry, ResolveRetry, LookRetry, ReadRetry, RecordedRetry, CommandIsFirst,
       FailureIsFirst
<1> QED
  BY <1>1, InvariantHolds, PTL DEF Spec, RetriesFailOnlyForWhatIsGone
=============================================================================
