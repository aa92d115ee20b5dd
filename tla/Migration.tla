------------------------------ MODULE Migration ------------------------------
(***************************************************************************)
(* riquet-export (migration/confluent.go): the inventory of a Confluent    *)
(* registry, one GET at a time while the source may still change, and      *)
(* buildState, which replays the inventory on a fresh machine in IMPORT    *)
(* mode.  The source is external: a registry with the behaviour Riquet     *)
(* itself has, as Registry specifies it, which answers every request: a    *)
(* GET that fails ends the export and is left out.  So are the features    *)
(* that the tool refuses before it builds a state (contexts, aliases, rule *)
(* sets).                                                                  *)
(***************************************************************************)
EXTENDS RegistryState

CONSTANT
    Rank    \* Rank[s]: the place of subject s in the order of sort.Strings

ASSUME ExportAssumption ==
    /\ IsFiniteSet(Subject)
    /\ Rank \in [Subject -> Nat]
    /\ \A s, t \in Subject : Rank[s] = Rank[t] => s = t

\* A schema is registered after the versions it references, which leave a
\* tombstone at least.
ReferencesFirst(st) ==
    \A s \in Subject : \A i \in st.Subjects[s] : \A r \in Refs[st.Schemas[i.id]] :
        \E j \in st.Subjects[r.subject] : j.version = r.version /\ j.seq < i.seq

\* So it is in the backups a source was restored from.
ASSUME SourceAssumption == \A b \in Backups : ReferencesFirst(b)

VARIABLES
    source,     \* the state of the source registry
    frozen,     \* the operator froze the source before the export
    phase,      \* where ExportConfluent is
    subjects,   \* the first listing
    queue,      \* the subjects of the listing left, the first one in progress
    active,     \* its active versions
    unread,     \* its versions left to read
    inventory,  \* inventory
    target,     \* the state of the machine buildState creates
    pending,    \* the schemas left in the current loop
    remaining,  \* the schemas the current pass postponed
    progress    \* the current pass imported a schema

reading == <<subjects, queue, active, unread>>
building == <<target, pending, remaining, progress>>
vars == <<source, frozen, phase, reading, inventory, building>>

Source == INSTANCE Registry WITH state <- source

\* One schema of the inventory.
Item(s, i, deleted) ==
    [subject |-> s, version |-> i.version, id |-> i.id,
     identity |-> source.Schemas[i.id], deleted |-> deleted]

NewInventory ==
    [schemas |-> {},
     globalCompatibility |-> "NONE",
     subjectCompatibility |-> [s \in Subject |-> None],
     globalMode |-> "READWRITE",
     subjectModes |-> [s \in Subject |-> None]]

\* A loop over a sorted slice takes the first of what is left.
FirstSubject(S) == {s \in S : \A t \in S : Rank[s] <= Rank[t]}
FirstVersion(S) == {v \in S : \A w \in S : v <= w}
FirstItem(S) ==
    {x \in S : \A y \in S :
        Rank[x.subject] < Rank[y.subject] \/ (x.subject = y.subject /\ x.version <= y.version)}

\* GET /subjects?deleted=true.
Listing == {s \in Subject : Versions(source, s, TRUE) # {}}

Init ==
    /\ source = NewState
    /\ frozen \in BOOLEAN
    /\ phase = "start"
    /\ subjects = {} /\ queue = {} /\ active = {} /\ unread = {}
    /\ inventory = NewInventory
    /\ target = NewState /\ pending = {} /\ remaining = {} /\ progress = FALSE

Inventory == {"active", "all", "version", "config", "mode", "listing", "versions"}

\* A client changes the source.  What it does after the inventory is taken
\* makes no difference to the export.
Change ==
    /\ phase = "start" \/ (phase \in Inventory /\ ~frozen)
    /\ Source!Next
    /\ UNCHANGED <<frozen, phase, reading, inventory, building>>

Fail ==
    /\ phase' = "failed"
    /\ UNCHANGED <<source, frozen, reading, inventory, building>>

-----------------------------------------------------------------------------
(* inventory.                                                              *)

\* The first listing, the global level and the global mode: three requests in
\* one step, as none of them depends on another.
Start ==
    /\ phase = "start"
    /\ subjects' = Listing
    /\ queue' = Listing
    /\ inventory' = [inventory EXCEPT !.globalCompatibility = source.GlobalCompatibility,
                                      !.globalMode = source.GlobalMode]
    /\ phase' = IF Listing = {} THEN "listing" ELSE "active"
    /\ UNCHANGED <<source, frozen, active, unread, building>>

\* versions: the active ones first, all of them in a second request.
ReadActive ==
    /\ phase = "active"
    /\ \E s \in FirstSubject(queue) : active' = Versions(source, s, FALSE)
    /\ phase' = "all"
    /\ UNCHANGED <<source, frozen, subjects, queue, unread, inventory, building>>

ReadAll ==
    \E s \in FirstSubject(queue) :
        /\ phase = "all"
        /\ IF Versions(source, s, TRUE) = {} THEN Fail
           ELSE /\ unread' = Versions(source, s, TRUE)
                /\ phase' = "version"
                /\ UNCHANGED <<source, frozen, subjects, queue, active, inventory, building>>

\* A source that does not say whether the version is deleted is taken at the
\* word of its list of active versions.
ReadVersion ==
    \E s \in FirstSubject(queue), v \in FirstVersion(unread) :
        /\ phase = "version"
        /\ IF ~HasVersion(source, s, v, TRUE) THEN Fail
           ELSE \E says \in BOOLEAN : \E i \in Visible(source, s, TRUE) :
                /\ i.version = v
                /\ inventory' = [inventory EXCEPT !.schemas =
                      @ \cup {Item(s, i, IF says THEN i.deleted ELSE v \notin active)}]
                /\ unread' = unread \ {v}
                /\ phase' = IF unread = {v} THEN "config" ELSE "version"
                /\ UNCHANGED <<source, frozen, subjects, queue, active, building>>

ReadConfig ==
    \E s \in FirstSubject(queue) :
        /\ phase = "config"
        /\ inventory' = [inventory EXCEPT !.subjectCompatibility =
                            [@ EXCEPT ![s] = source.SubjectCompatibility[s]]]
        /\ phase' = "mode"
        /\ UNCHANGED <<source, frozen, reading, building>>

ReadMode ==
    \E s \in FirstSubject(queue) :
        /\ phase = "mode"
        /\ inventory' = [inventory EXCEPT !.subjectModes = [@ EXCEPT ![s] = source.SubjectModes[s]]]
        /\ queue' = queue \ {s}
        /\ phase' = IF queue = {s} THEN "listing" ELSE "active"
        /\ UNCHANGED <<source, frozen, subjects, active, unread, building>>

\* The second listing of subjects, then of the versions of each.
ListAgain ==
    /\ phase = "listing"
    /\ IF Listing # subjects THEN Fail
       ELSE /\ queue' = subjects
            /\ phase' = "versions"
            /\ UNCHANGED <<source, frozen, subjects, active, unread, inventory, building>>

ListVersionsAgain ==
    \E s \in FirstSubject(queue) :
        /\ phase = "versions"
        /\ IF {x.version : x \in {y \in inventory.schemas : y.subject = s}} # Versions(source, s, TRUE)
           THEN Fail
           ELSE /\ queue' = queue \ {s}
                /\ UNCHANGED <<source, frozen, phase, subjects, active, unread, inventory, building>>

-----------------------------------------------------------------------------
(* buildState.                                                             *)

ModeCommand(scope, mode) == [op |-> NoOperation, scope |-> scope, value |-> mode]

\* A fresh machine is put in IMPORT mode.
StartBuild ==
    /\ phase = "versions" /\ queue = {}
    /\ target' = Apply(NewState, SetModeEnvelope(NewState, ModeCommand(Global, "IMPORT")))
    /\ pending' = inventory.schemas
    /\ phase' = "import"
    /\ UNCHANGED <<source, frozen, reading, inventory, remaining, progress>>

\* Mutant of ImportCommand: the version of the source is not asked for.
ImportCommandNextVersion(x) ==
    [op |-> NoOperation, subject |-> x.subject, identity |-> x.identity,
     id |-> x.id, version |-> 0]

ImportCommand(x) ==
    [op |-> NoOperation, subject |-> x.subject, identity |-> x.identity,
     id |-> x.id, version |-> x.version]

\* Mutant of ReferencesAvailable: one pass in the order of the listing.
ReferencesAssumed(x) == TRUE

ReferencesAvailable(x) ==
    \A r \in Refs[x.identity] : HasVersion(target, r.subject, r.version, FALSE)

\* A schema whose references are missing waits for the next pass.
Postpone ==
    \E x \in FirstItem(pending) :
        /\ phase = "import"
        /\ ~ReferencesAvailable(x)
        /\ remaining' = remaining \cup {x}
        /\ pending' = pending \ {x}
        /\ UNCHANGED <<source, frozen, phase, reading, inventory, target, progress>>

\* buildState takes x, the engine parses it, and Register finds a duplicate or
\* commits a new version.
Accepted(x) ==
    /\ x.id >= 1 /\ x.version >= 1
    /\ Parses(target, x.identity)
    /\ \/ IsDuplicate(target, x.subject, x.identity)
       \/ /\ RegisterAllowed(target, ImportCommand(x))
          /\ Applies(target, RegisterEnvelope(target, ImportCommand(x)))

\* Register answers for a duplicate without a new version, and fails for a
\* schema it refuses.
Import ==
    \E x \in FirstItem(pending) :
        /\ phase = "import"
        /\ ReferencesAvailable(x)
        /\ IF Accepted(x)
           THEN /\ target' = IF IsDuplicate(target, x.subject, x.identity) THEN target
                             ELSE Apply(target, RegisterEnvelope(target, ImportCommand(x)))
                /\ pending' = pending \ {x}
                /\ progress' = TRUE
                /\ UNCHANGED <<source, frozen, phase, reading, inventory, remaining>>
           ELSE Fail

\* Mutant of EndPass: a pass without progress is repeated.
EndPassAlways ==
    /\ phase = "import" /\ pending = {} /\ remaining # {}
    /\ pending' = remaining
    /\ remaining' = {}
    /\ progress' = FALSE
    /\ UNCHANGED <<source, frozen, phase, reading, inventory, target>>

\* The schemas left are visited again if the pass imported any.
EndPass ==
    /\ phase = "import" /\ pending = {} /\ remaining # {}
    /\ IF ~progress THEN Fail
       ELSE /\ pending' = remaining
            /\ remaining' = {}
            /\ progress' = FALSE
            /\ UNCHANGED <<source, frozen, phase, reading, inventory, target>>

\* Mutant of EndImport: soft deletions are not replayed.
EndImportOnly ==
    /\ phase = "import" /\ pending = {} /\ remaining = {}
    /\ phase' = "delete"
    /\ UNCHANGED <<source, frozen, reading, inventory, building>>

EndImport ==
    /\ phase = "import" /\ pending = {} /\ remaining = {}
    /\ pending' = {x \in inventory.schemas : x.deleted}
    /\ phase' = "delete"
    /\ UNCHANGED <<source, frozen, reading, inventory, target, remaining, progress>>

DeleteCommand(x) ==
    [op |-> NoOperation, subject |-> x.subject, version |-> x.version, permanent |-> FALSE]

\* DeleteVersion for the next soft-deleted version.
Delete ==
    \E x \in FirstItem(pending) :
        /\ phase = "delete"
        /\ IF ~DeleteVersionAllowed(target, DeleteCommand(x)) THEN Fail
           ELSE /\ target' = Apply(target, DeleteVersionEnvelope(target, DeleteCommand(x)))
                /\ pending' = pending \ {x}
                /\ UNCHANGED <<source, frozen, phase, reading, inventory, remaining, progress>>

\* Levels and modes, the global mode last: none of these commands is refused.
Configure ==
    LET settings == {s \in Subject : inventory.subjectCompatibility[s] # None}
        overrides == {s \in Subject : inventory.subjectModes[s] # None}
    IN  /\ phase = "delete" /\ pending = {}
        /\ target' = [target EXCEPT
              !.Sequence = @ + 2 + Cardinality(settings) + Cardinality(overrides),
              !.GlobalCompatibility = inventory.globalCompatibility,
              !.SubjectCompatibility = inventory.subjectCompatibility,
              !.SubjectModes = inventory.subjectModes,
              !.GlobalMode = inventory.globalMode]
        /\ phase' = "done"
        /\ UNCHANGED <<source, frozen, reading, inventory, pending, remaining, progress>>

Read ==
    \/ Start \/ ReadActive \/ ReadAll \/ ReadVersion \/ ReadConfig \/ ReadMode
    \/ ListAgain \/ ListVersionsAgain

Build == StartBuild \/ Postpone \/ Import \/ EndPass \/ EndImport \/ Delete \/ Configure

Next == Change \/ Read \/ Build

Spec == Init /\ [][Next]_vars

\* The tool runs until it ends; the source need not change.
FairSpec == Spec /\ WF_vars(Read \/ Build)

-----------------------------------------------------------------------------
(* Properties.                                                             *)

\* What the API of a registry shows of a subject.
Content(st, s) ==
    {[version |-> i.version, id |-> i.id, identity |-> st.Schemas[i.id],
      deleted |-> i.deleted] : i \in Visible(st, s, TRUE)}

\* A version of the exported registry is a version of the source, with its
\* number, its ID and its schema, even if the source changes meanwhile.
IdentifiersAreKept ==
    phase = "done" => \A s \in Subject : \A x \in Content(target, s) :
        \E i \in source.Subjects[s] :
            i.version = x.version /\ i.id = x.id /\ source.Schemas[i.id] = x.identity

\* The policies of a subject are the same in both registries.
SettingsKept(s) ==
    /\ EffectiveMode(target, s) = EffectiveMode(source, s)
    /\ EffectiveCompatibility(target, s) = EffectiveCompatibility(source, s)

\* The export of a frozen source differs from it only in versions whose schema
\* it holds under another version of their subject, and in subjects that show
\* no version: every schema of every subject is there.
OnlyRepeatsAreMissed ==
    phase = "done" /\ frozen =>
        /\ \A s \in Subject :
              /\ Content(target, s) \subseteq Content(source, s)
              /\ \A x \in Content(source, s) \ Content(target, s) :
                    \E y \in Content(target, s) : y.id = x.id
        /\ \A s \in Subject : Content(source, s) # {} => SettingsKept(s)

\* The export of a frozen source that answers every request fails for a reason
\* a reader can look up in it: a soft-deleted version names a version that is
\* gone, a subject holds a schema under two versions, or an ID is not positive.
FailureHasACause ==
    phase = "failed" /\ frozen => \E s \in Subject : \E x \in Content(source, s) :
        \/ x.deleted /\ \E r \in Refs[x.identity] : ~HasVersion(source, r.subject, r.version, TRUE)
        \/ \E y \in Content(source, s) : y # x /\ y.id = x.id
        \/ x.id < 1

\* buildState ends: every pass over schemas that wait for references imports
\* one of them or gives up.
ExportTerminates == phase = "import" ~> phase \in {"done", "failed"}
=============================================================================
