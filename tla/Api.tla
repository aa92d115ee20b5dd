--------------------------------- MODULE Api ---------------------------------
(***************************************************************************)
(* The HTTP API of one process: the handlers of transport/confluent over   *)
(* domain.Machine.  A command runs under the machine's lock, but a handler *)
(* takes a new snapshot whenever it calls machine.State(), so what it saw  *)
(* before its command, or before its next look, may have been changed by   *)
(* the handlers of other connections.  Each stage of a handler that reads  *)
(* or changes the state is one step; decoding and encoding are not.        *)
(*                                                                         *)
(* A request carries an operation ID of its own (X-Request-ID) and may be  *)
(* sent any number of times, as clients do that have lost an answer.       *)
(***************************************************************************)
EXTENDS RegistryState

CONSTANTS
    Connection,     \* requests handled at the same time
    Requests,       \* requests clients send
    Foreign         \* <<candidate, previous>>: the engine of the one does not parse the other

VARIABLES
    state,      \* Machine.state
    job,        \* what the handler on each connection is doing
    possible    \* answers the request would have had since it arrived

vars == <<state, job, possible>>

Gets == {"schemaByID", "versionsByID", "subjects", "versions", "version", "referencedBy",
         "getGlobalConfig", "getSubjectConfig", "getGlobalMode", "getSubjectMode"}
Lookups == {"lookupSchema", "compatibility"}
Mutations == {"register", "deleteVersion", "deleteSubject", "putConfig", "putMode",
              "deleteSubjectConfig", "deleteSubjectMode"}

\* The version "latest" of a path; a body without a version has this one too.
Latest == 0

\* flag is the parameter of the endpoint: permanent, deleted or defaultToGlobal.
Request ==
    [endpoint : Gets \cup Lookups \cup Mutations, op : Operation, subject : Scope,
     schema : Identity \cup {None}, id : 0 .. MaxInt, version : Latest .. MaxInt,
     flag : BOOLEAN, value : Levels \cup Modes \cup {None}]

\* Endpoints whose path does not name a subject, or need not.
Unscoped == {"schemaByID", "versionsByID", "subjects", "getGlobalConfig", "getGlobalMode",
             "putConfig", "putMode"}

\* A request has what its endpoint asks for, and its operation ID is its own.
\* Schemas of different formats do not read each other.
ASSUME RequestsAssumption ==
    /\ Requests \subseteq Request
    /\ Foreign \subseteq (Identity \X Identity) \ Reads
    /\ \A p, q \in Requests : p.op = q.op => p.op = NoOperation \/ p = q
    /\ \A q \in Requests :
          /\ q.endpoint \notin Unscoped => q.subject \in Subject
          /\ q.endpoint \in {"register"} \cup Lookups => q.schema \in Identity
          /\ q.endpoint = "register" => q.id \in RequestedIDs /\ q.version \in RequestedVersions
          /\ q.endpoint = "putConfig" => q.value \in ConfigLevels
          /\ q.endpoint = "putMode" => q.value \in ConfigModes

Ok(value) == [code |-> 200, value |-> value]
Error(code) == [code |-> code, value |-> None]

\* stage is what the handler does next; version, looked and result are what
\* its earlier stages found, answer what it has answered.
Job(q, stage, version, looked, result, answer) ==
    [request |-> q, stage |-> stage, version |-> version, looked |-> looked,
     result |-> result, answer |-> answer]

\* A connection on which no request has arrived yet.
Fresh == Job(None, "answered", Latest, None, EmptyResult, None)

\* The job of a request that arrives, after a stage that found a version or
\* something to report, after its command, and when it is answered.
Arrived(q, stage) == Job(q, stage, q.version, None, EmptyResult, None)
Moved(j, stage, version, looked) == Job(j.request, stage, version, looked, j.result, j.answer)
Executed(j, result) == Job(j.request, "read", j.version, j.looked, result, j.answer)
Answered(j, answer) == Job(j.request, "answered", j.version, j.looked, j.result, answer)

-----------------------------------------------------------------------------
(* What the handlers read.  j is the job, st the snapshot they take.       *)

\* The stage a handler starts with: parseRequest, parseVersionPath, a look at
\* what it is about to report or remove, the command, or its only look.
FirstStage(q) ==
    IF q.endpoint \in {"register"} \cup Lookups THEN "parse"
    ELSE IF q.endpoint \in {"version", "referencedBy", "deleteVersion"} THEN "resolve"
    ELSE IF q.endpoint \in {"schemaByID", "versionsByID", "getSubjectConfig",
                            "deleteSubjectConfig", "deleteSubjectMode"} THEN "look"
    ELSE IF q.endpoint \in Mutations THEN "command"
    ELSE "read"

\* Mutant of StageAfter: referencedBy does not look whether the version exists.
StageWithoutLook(stage, q) ==
    IF q.endpoint \in Mutations THEN "command"
    ELSE IF stage = "parse" /\ q.endpoint = "compatibility" THEN "resolve"
    ELSE "read"

\* The stage after parsing, resolving or looking.
StageAfter(stage, q) ==
    IF q.endpoint \in Mutations THEN "command"
    ELSE IF stage = "parse" /\ q.endpoint = "compatibility" THEN "resolve"
    ELSE IF stage = "resolve" /\ q.endpoint = "referencedBy" THEN "look"
    ELSE "read"

\* deleteVersion and referencedBy see soft-deleted versions.
IncludesDeleted(q) ==
    q.endpoint \in {"deleteVersion", "referencedBy"} \/ (q.endpoint = "version" /\ q.flag)

\* parseVersionPath: the versions the path may stand for, one at most.
ParseVersionPath(st, q) ==
    LET versions == Versions(st, q.subject, IncludesDeleted(q))
    IN  IF q.version # Latest THEN {q.version}
        ELSE {v \in versions : \A w \in versions : w <= v}

\* The look before the last one or before the command: what is there, or None.
Look(st, j) ==
    CASE j.request.endpoint \in {"schemaByID", "versionsByID"} -> st.Schemas[j.request.id]
      [] j.request.endpoint = "referencedBy" ->
            IF HasVersion(st, j.request.subject, j.version, TRUE) THEN j.version ELSE None
      [] j.request.endpoint \in {"getSubjectConfig", "deleteSubjectConfig"} ->
            st.SubjectCompatibility[j.request.subject]
      [] j.request.endpoint = "deleteSubjectMode" -> st.SubjectModes[j.request.subject]

\* The answer when nothing is there.
NothingThere(q) ==
    CASE q.endpoint \in {"schemaByID", "versionsByID"} -> Error(40403)
      [] q.endpoint = "referencedBy" -> Error(40402)
      [] q.endpoint \in {"getSubjectConfig", "deleteSubjectConfig"} -> Error(40408)
      [] q.endpoint = "deleteSubjectMode" -> Error(40409)

\* ReferencedBy and VersionsForID, as their handlers report them.
ReferencingIDs(st, s, v) ==
    UNION {{i.id : i \in {k \in Visible(st, t, FALSE) :
              [subject |-> s, version |-> v] \in Refs[st.Schemas[k.id]]}} : t \in Subject}
VersionsForID(st, id) ==
    UNION {{[subject |-> s, version |-> i.version] :
              i \in {k \in Visible(st, s, FALSE) : k.id = id}} : s \in Subject}

\* An answer made of the items found, or an error when there is none.
OkUnlessEmpty(items, code) == IF items = {} THEN Error(code) ELSE Ok(items)

\* compatibility compares with the version of the path only, which it parses
\* with the engine of the candidate.
Verdict(st, j) ==
    LET q == j.request
        old == {st.Schemas[i.id] : i \in {k \in Visible(st, q.subject, FALSE) : k.version = j.version}}
    IN  IF old = {} THEN Error(40402)
        ELSE IF \E x \in old : ~Parses(st, x) \/ <<q.schema, x>> \in Foreign THEN Error(50001)
        ELSE Ok(\A x \in old : PairCompatible(EffectiveCompatibility(st, q.subject), q.schema, x))

\* Mutant of RegisteredVersion: the latest version of the subject.
LatestVersion(st, j) ==
    CHOOSE v \in Versions(st, j.request.subject, TRUE) \cup {0} :
        \A w \in Versions(st, j.request.subject, TRUE) : w <= v

\* The version register looks up: the one of the machine's result.
RegisteredVersion(st, j) == j.result.Version

\* The last look, which makes the answer.
LastLook(st, j) ==
    LET q == j.request
        item(v, deleted) == {[version |-> i.version, id |-> i.id] :
                               i \in {k \in Visible(st, q.subject, deleted) : k.version = v}}
    IN  CASE q.endpoint = "schemaByID" -> Ok(<<j.looked, LatestForID(st, q.id, q.subject)>>)
          [] q.endpoint = "versionsByID" -> Ok(VersionsForID(st, q.id))
          [] q.endpoint = "subjects" -> Ok({s \in Subject : Versions(st, s, q.flag) # {}})
          [] q.endpoint = "versions" -> OkUnlessEmpty(Versions(st, q.subject, q.flag), 40401)
          [] q.endpoint = "version" -> OkUnlessEmpty(item(j.version, q.flag), 40402)
          [] q.endpoint = "referencedBy" -> Ok(ReferencingIDs(st, q.subject, j.version))
          [] q.endpoint \in {"getGlobalConfig", "getSubjectConfig"} -> Ok(st.GlobalCompatibility)
          [] q.endpoint = "getGlobalMode" -> Ok(st.GlobalMode)
          [] q.endpoint = "getSubjectMode" -> OkUnlessEmpty({st.SubjectModes[q.subject]} \ {None}, 40409)
          [] q.endpoint = "lookupSchema" ->
                OkUnlessEmpty({i.version : i \in {k \in Visible(st, q.subject, FALSE) :
                                                    st.Schemas[k.id] = q.schema}}, 40403)
          [] q.endpoint = "compatibility" -> Verdict(st, j)
          [] q.endpoint = "register" -> OkUnlessEmpty(item(RegisteredVersion(st, j), TRUE), 50001)

-----------------------------------------------------------------------------
(* Steps.                                                                  *)

\* The answer q would get if its handler ran at once in st.
JobIn(st, q) == Moved(Arrived(q, "read"), "read", q.version,
                      IF q.endpoint = "schemaByID" THEN st.Schemas[q.id] ELSE None)
AnswerIn(st, q) ==
    IF q.endpoint \in {"schemaByID", "versionsByID"} /\ st.Schemas[q.id] = None THEN Error(40403)
    ELSE IF q.endpoint = "referencedBy" /\ ~HasVersion(st, q.subject, q.version, TRUE) THEN Error(40402)
    ELSE IF q.endpoint = "getSubjectConfig" /\ st.SubjectCompatibility[q.subject] # None
    THEN Ok(st.SubjectCompatibility[q.subject])
    ELSE IF q.endpoint = "getSubjectConfig" /\ ~q.flag THEN Error(40408)
    ELSE LastLook(st, JobIn(st, q))

Busy(j) == j.stage # "answered"

\* A read whose path names what it reads: neither the version "latest" nor a
\* level that may be the global one.
Direct(q) ==
    /\ q.endpoint \in Gets
    /\ q.endpoint \in {"version", "referencedBy"} => q.version # Latest
    /\ q.endpoint = "getSubjectConfig" => ~q.flag

\* possible follows the state for as long as a direct read is being handled.
Observe ==
    possible' = [c \in Connection |->
        IF ~Busy(job[c]) /\ ~Busy(job'[c]) THEN possible[c]
        ELSE IF ~Direct(job'[c].request) THEN {}
        ELSE IF Busy(job[c]) THEN possible[c] \cup {AnswerIn(state', job'[c].request)}
        ELSE {AnswerIn(state', job'[c].request)}]

Go(c, j) == job' = [job EXCEPT ![c] = j]
Answer(c, a) == Go(c, Answered(job[c], a))

\* A request arrives on a connection that has been answered.
Arrive(c, q) ==
    /\ ~Busy(job[c])
    /\ Go(c, Arrived(q, FirstStage(q)))
    /\ UNCHANGED state
    /\ Observe

\* parseRequest resolves references in the snapshot it takes.
ParseRequest(c) ==
    LET q == job[c].request
    IN  /\ job[c].stage = "parse"
        /\ IF Parses(state, q.schema)
           THEN Go(c, Moved(job[c], StageAfter("parse", q), job[c].version, job[c].looked))
           ELSE Answer(c, Error(42201))
        /\ UNCHANGED state
        /\ Observe

ResolveVersion(c) ==
    LET q == job[c].request
        versions == ParseVersionPath(state, q)
    IN  /\ job[c].stage = "resolve"
        /\ \/ versions = {} /\ Answer(c, Error(40401))
           \/ \E v \in versions : Go(c, Moved(job[c], StageAfter("resolve", q), v, job[c].looked))
        /\ UNCHANGED state
        /\ Observe

LookFirst(c) ==
    LET q == job[c].request
        found == Look(state, job[c])
    IN  /\ job[c].stage = "look"
        /\ IF q.endpoint = "getSubjectConfig" /\ found # None THEN Answer(c, Ok(found))
           ELSE IF found = None /\ ~(q.endpoint = "getSubjectConfig" /\ q.flag)
           THEN Answer(c, NothingThere(q))
           ELSE Go(c, Moved(job[c], StageAfter("look", q), job[c].version, found))
        /\ UNCHANGED state
        /\ Observe

Read(c) ==
    /\ job[c].stage = "read"
    /\ Answer(c, LastLook(state, job[c]))
    /\ UNCHANGED state
    /\ Observe

-----------------------------------------------------------------------------
(* Commands.                                                               *)

\* Mutant of DeleteVersionOf: the parameter is not passed on.
SoftDeleteVersionOf(j) == [op |-> j.request.op, subject |-> j.request.subject,
                           version |-> j.version, permanent |-> FALSE]

\* The command the machine is asked for.
RegisterOf(q) == [op |-> q.op, subject |-> q.subject, identity |-> q.schema,
                  id |-> q.id, version |-> q.version]
DeleteVersionOf(j) == [op |-> j.request.op, subject |-> j.request.subject,
                       version |-> j.version, permanent |-> j.request.flag]
DeleteSubjectOf(q) == [op |-> q.op, subject |-> q.subject, permanent |-> q.flag]
SettingOf(q) == [op |-> q.op, scope |-> q.subject, value |-> q.value]
InheritOf(q) == [op |-> q.op, scope |-> q.subject]

\* What a handler makes of the result of its command: the settings are
\* answered with the value of the request or of the earlier look.
AnswerOf(j, result) ==
    CASE j.request.endpoint = "deleteVersion" -> Ok(result.Version)
      [] j.request.endpoint = "deleteSubject" -> Ok(result.Versions)
      [] j.request.endpoint \in {"putConfig", "putMode"} -> Ok(j.request.value)
      [] j.request.endpoint \in {"deleteSubjectConfig", "deleteSubjectMode"} -> Ok(j.looked)

\* register looks up what the machine registered, the others answer.
Return(c, result) ==
    IF job[c].request.endpoint = "register"
    THEN Go(c, Executed(job[c], result))
    ELSE Answer(c, AnswerOf(job[c], result))

AtCommand(c, endpoint) == job[c].stage = "command" /\ job[c].request.endpoint = endpoint

\* commitApply.
CommitApply(c, e) ==
    /\ state.Sequence < MaxSequence
    /\ Applies(state, e)
    /\ state' = Apply(state, e)
    /\ Return(c, e.Result)
    /\ Observe

\* Mutant of Register: what parseRequest found is relied on.
RegisterParsed(c) ==
    /\ AtCommand(c, "register")
    /\ ~IsRecorded(state, job[c].request.op)
    /\ CommitApply(c, RegisterEnvelope(state, RegisterOf(job[c].request)))

Register(c) ==
    LET d == RegisterOf(job[c].request)
    IN  /\ AtCommand(c, "register")
        /\ RegisterAllowed(state, d)
        /\ CommitApply(c, RegisterEnvelope(state, d))

DeleteVersion(c) ==
    LET d == DeleteVersionOf(job[c])
    IN  /\ AtCommand(c, "deleteVersion")
        /\ DeleteVersionAllowed(state, d)
        /\ CommitApply(c, DeleteVersionEnvelope(state, d))

DeleteSubject(c) ==
    LET d == DeleteSubjectOf(job[c].request)
    IN  /\ AtCommand(c, "deleteSubject")
        /\ DeleteSubjectAllowed(state, d)
        /\ CommitApply(c, DeleteSubjectEnvelope(state, d))

PutConfig(c) ==
    LET d == SettingOf(job[c].request)
    IN  /\ AtCommand(c, "putConfig")
        /\ SimpleAllowed(state, d)
        /\ CommitApply(c, SetCompatibilityEnvelope(state, d))

PutMode(c) ==
    LET d == SettingOf(job[c].request)
    IN  /\ AtCommand(c, "putMode")
        /\ SimpleAllowed(state, d)
        /\ CommitApply(c, SetModeEnvelope(state, d))

DeleteSubjectConfig(c) ==
    LET d == InheritOf(job[c].request)
    IN  /\ AtCommand(c, "deleteSubjectConfig")
        /\ SimpleAllowed(state, d)
        /\ CommitApply(c, DeleteCompatibilityEnvelope(state, d))

DeleteSubjectMode(c) ==
    LET d == InheritOf(job[c].request)
    IN  /\ AtCommand(c, "deleteSubjectMode")
        /\ SimpleAllowed(state, d)
        /\ CommitApply(c, DeleteModeEnvelope(state, d))

\* The machine knows the result of the operation.
AnswerRecorded(c) ==
    LET op == job[c].request.op
    IN  /\ job[c].stage = "command"
        /\ IsRecorded(state, op)
        /\ Return(c, state.Operations[op])
        /\ UNCHANGED state
        /\ Observe

\* Checks of planRegister that come before its search for a duplicate.
RegisterCode(q) ==
    IF EffectiveMode(state, q.subject) = "READONLY" THEN 42205
    ELSE IF (q.id # 0 \/ q.version # 0) /\ EffectiveMode(state, q.subject) # "IMPORT" THEN 409
    ELSE IF \E r \in Refs[q.schema] : ~HasVersion(state, r.subject, r.version, FALSE) THEN 40402
    ELSE 200

\* planRegister finds the schema registered: nothing is committed or recorded.
AnswerDuplicate(c) ==
    LET q == job[c].request
    IN  /\ AtCommand(c, "register")
        /\ ~IsRecorded(state, q.op)
        /\ RegisterCode(q) = 200
        /\ \E i \in Visible(state, q.subject, FALSE) :
              i.id = state.IdentityToID[q.schema] /\ Return(c, ResultOf(i.id, i.version, {}))
        /\ UNCHANGED state
        /\ Observe

Allowed(j) ==
    CASE j.request.endpoint = "register" -> RegisterAllowed(state, RegisterOf(j.request))
      [] j.request.endpoint = "deleteVersion" -> DeleteVersionAllowed(state, DeleteVersionOf(j))
      [] j.request.endpoint = "deleteSubject" -> DeleteSubjectAllowed(state, DeleteSubjectOf(j.request))
      [] OTHER -> ~IsRecorded(state, j.request.op)

\* writeDomainError of the check that failed.
RefusalCode(j) ==
    LET q == j.request
    IN  IF q.endpoint = "register" THEN IF RegisterCode(q) # 200 THEN RegisterCode(q) ELSE 409
        ELSE IF EffectiveMode(state, q.subject) = "READONLY" THEN 42205
        ELSE IF q.endpoint = "deleteVersion" /\ ~HasVersion(state, q.subject, j.version, q.flag) THEN 40402
        ELSE IF q.endpoint = "deleteSubject" /\ Versions(state, q.subject, q.flag) = {} THEN 40401
        ELSE 409

Refuse(c) ==
    LET q == job[c].request
    IN  /\ job[c].stage = "command"
        /\ ~IsRecorded(state, q.op)
        /\ ~Allowed(job[c])
        /\ q.endpoint = "register" /\ RegisterCode(q) = 200 => ~IsDuplicate(state, q.subject, q.schema)
        /\ Answer(c, Error(RefusalCode(job[c])))
        /\ UNCHANGED state
        /\ Observe

\* The state that would result is not valid, or the store reports an error.
CommitFails(c) ==
    /\ job[c].stage = "command"
    /\ Allowed(job[c])
    /\ Answer(c, Error(50001))
    /\ UNCHANGED state
    /\ Observe

\* What st records under the operation of q, if anything, is the outcome of q:
\* the version that holds its schema, the versions it deleted or destroyed.
Holds(st, s, v, x) == \E i \in st.Subjects[s] : i.version = v /\ st.Schemas[i.id] = x
IsGone(st, s, v, permanent) ==
    \E i \in st.Subjects[s] : i.version = v /\ i.deleted /\ (permanent => i.permanent)
Outcome(st, q, result) ==
    /\ q.endpoint = "register" => Holds(st, q.subject, result.Version, q.schema)
    /\ q.endpoint = "deleteVersion" => IsGone(st, q.subject, result.Version, q.flag)
    /\ q.endpoint = "deleteSubject" => \A v \in result.Versions : IsGone(st, q.subject, v, q.flag)
OutcomesRecorded(st) ==
    \A q \in Requests : IsRecorded(st, q.op) => Outcome(st, q, st.Operations[q.op])

\* The machine starts from the state recoverState has built: Backups are the
\* well-formed states it starts from here, in which requests may already have
\* been executed.
ASSUME RecoveredAssumption == \A b \in Backups : OutcomesRecorded(b)

Init ==
    /\ state \in Backups
    /\ job = [c \in Connection |-> Fresh]
    /\ possible = [c \in Connection |-> {}]

Next ==
    \E c \in Connection :
        \/ \E q \in Requests : Arrive(c, q)
        \/ ParseRequest(c) \/ ResolveVersion(c) \/ LookFirst(c) \/ Read(c)
        \/ Register(c) \/ DeleteVersion(c) \/ DeleteSubject(c) \/ PutConfig(c) \/ PutMode(c)
        \/ DeleteSubjectConfig(c) \/ DeleteSubjectMode(c)
        \/ AnswerRecorded(c) \/ AnswerDuplicate(c) \/ Refuse(c) \/ CommitFails(c)

Spec == Init /\ [][Next]_vars

-----------------------------------------------------------------------------
\* A read that names what it reads is answered as if its handler had run at
\* one moment between the arrival of the request and its answer, although
\* schemaByID, versionsByID and referencedBy take several snapshots and
\* commands run between them.
DirectReadsAreAtomic ==
    \A c \in Connection :
        ~Busy(job[c]) /\ job[c] # Fresh /\ Direct(job[c].request) => job[c].answer \in possible[c]

Succeeded(c, endpoint) ==
    /\ ~Busy(job[c]) /\ job[c] # Fresh
    /\ job[c].request.endpoint = endpoint
    /\ job[c].answer.code = 200

\* A successful registration names an ID that decodes to the schema that was
\* sent, then and for ever: the version may be deleted between the command and
\* the lookup of the handler, and the answer of a repeated request is looked up
\* again, but it is never another schema's.
RegistrationsNameTheirSchema ==
    \A c \in Connection : Succeeded(c, "register") =>
        \A i \in job[c].answer.value : state.Schemas[i.id] = job[c].request.schema

\* What a successful deletion reports is deleted, and destroyed if that was
\* asked for, whatever was registered or repeated in the meantime.
DeletionsHold ==
    \A c \in Connection :
        LET q == job[c].request
            gone(v) == \A i \in state.Subjects[q.subject] :
                          i.version = v => i.deleted /\ (q.flag => i.permanent)
        IN  /\ Succeeded(c, "deleteVersion") => gone(job[c].answer.value)
            /\ Succeeded(c, "deleteSubject") => \A v \in job[c].answer.value : gone(v)

R == INSTANCE Registry

\* The handlers change the state by the commands of the registry only, so
\* everything that holds of Registry holds of the state behind the API.
CommandsOnly == [][state' # state => R!Next]_state

\* What the handler of j looks at before or after its command is not there: the
\* references or the version of a registration, the versions of the subject,
\* the setting.
Gone(j) ==
    LET q == j.request
    IN  CASE q.endpoint = "register" ->
                IF j.stage = "parse" THEN ~Parses(state, q.schema)
                ELSE j.stage = "read" /\ ~HasVersion(state, q.subject, j.result.Version, TRUE)
          [] q.endpoint = "deleteVersion" -> q.version = Latest /\ Versions(state, q.subject, TRUE) = {}
          [] q.endpoint = "deleteSubjectConfig" -> state.SubjectCompatibility[q.subject] = None
          [] q.endpoint = "deleteSubjectMode" -> state.SubjectModes[q.subject] = None
          [] OTHER -> FALSE

\* A mutation that has been executed and is sent again, because its answer was
\* lost or while it is still being handled, is answered with success whatever
\* happened since: it fails only where its handler looks at the state besides
\* asking the machine, and what it looks for is gone.
RetriesFailOnlyForWhatIsGone ==
    [][\A c \in Connection :
          LET q == job[c].request
          IN  /\ Busy(job[c]) /\ ~Busy(job'[c])
              /\ q.endpoint \in Mutations
              /\ q.op # NoOperation /\ state.Operations[q.op] # None
              => job'[c].answer.code = 200 \/ Gone(job[c])]_vars
=============================================================================
