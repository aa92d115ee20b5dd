------------------------------ MODULE JsonSchema ------------------------------
(***************************************************************************)
(* The comparison of formats/jsonschema.  A document is a tree: a function *)
(* from the paths of its schemas to what they say.  A step of a path is    *)
(* the name of a property, or Other for the schema of the additional ones. *)
(* A schema is true, false or an object of keywords.  compareDocuments     *)
(* reads its type, required, properties and additionalProperties.  Of the  *)
(* others two change what these mean: patternProperties, whose names are   *)
(* not additional, and $ref, beside which Draft 7 reads no keyword.  All   *)
(* the rest (enum, items, allOf, the $ref of later drafts and so on) are   *)
(* conditions on values, each of them a keyword with all that it depends   *)
(* on.  An absent type is the empty set, and so is an absent $ref.         *)
(***************************************************************************)
EXTENDS Naturals, FiniteSets, Sequences

CONSTANTS
    Name,       \* names of properties
    Other       \* the step to the schema of additionalProperties

ASSUME NameAssumption == Other \notin Name

TrueSchema == [kind |-> "true"]
FalseSchema == [kind |-> "false"]
Object(type, required, rest) ==
    [kind |-> "object", type |-> type, required |-> required, rest |-> rest, patterns |-> {}, ref |-> {}]

\* The schema with patternProperties that match these names, and the one with a
\* $ref to a schema of these conditions.  The schema of a pattern is in rest.
Patterned(schema, names) == [schema EXCEPT !.patterns = names]
Referring(schema, conditions) == [schema EXCEPT !.ref = conditions]

\* The first i steps of a path.
Prefix(path, i) == SubSeq(path, 1, i)

\* Only an object of keywords has parts.
IsDocument(d) ==
    /\ DOMAIN d \subseteq Seq(Name \cup {Other})
    /\ <<>> \in DOMAIN d
    /\ \A p \in DOMAIN d : d[p].kind \in {"true", "false", "object"}
    /\ \A p \in DOMAIN d : \A i \in 0 .. Len(p) - 1 :
          Prefix(p, i) \in DOMAIN d /\ d[Prefix(p, i)].kind = "object"

Properties(d, p) == {n \in Name : Append(p, n) \in DOMAIN d}

\* An absent type says nothing, neither of the reader nor of the writer.
TypeSuperset(reader, writer) == reader = {} \/ writer = {} \/ writer \subseteq reader

\* Mutant of Open: an object is closed unless it says otherwise.
OpenIfStated(d, p) == Append(p, Other) \in DOMAIN d /\ d[Append(p, Other)].kind # "false"

\* additionalProperties is taken for true unless it is the boolean false.
Open(d, p) == Append(p, Other) \in DOMAIN d => d[Append(p, Other)].kind # "false"

\* The schemas compareDocuments gets to: it goes from a property to the property
\* of the same name, and not to the schemas of additional ones.
Shared(reader, writer) == {p \in DOMAIN reader \cap DOMAIN writer : p \in Seq(Name)}

\* One call of compareDocuments has nothing to say.
CompareSchemas(reader, writer, p) ==
    LET r == reader[p]
        w == writer[p]
        added == Properties(reader, p) \ Properties(writer, p)
        removed == Properties(writer, p) \ Properties(reader, p)
    IN  IF r.kind # "object" \/ w.kind # "object" THEN r.kind = w.kind
        ELSE /\ TypeSuperset(r.type, w.type)
             /\ r.required \subseteq w.required
             /\ Open(writer, p) => added = {}
             /\ ~Open(reader, p) => removed = {} /\ ~Open(writer, p)

\* compareDocuments finds nothing to say against reading what writer allows.
CompareDocuments(reader, writer) ==
    \A p \in Shared(reader, writer) : CompareSchemas(reader, writer, p)

-----------------------------------------------------------------------------
(* What the validator accepts.  A value is a tree too: at each path, which *)
(* is a path of names, it has a type and conditions of rest it meets.      *)

IsValue(v) ==
    /\ DOMAIN v \subseteq Seq(Name)
    /\ \A p \in DOMAIN v : \A i \in 0 .. Len(p) : Prefix(p, i) \in DOMAIN v

Members(v, p) == {n \in Name : Append(p, n) \in DOMAIN v}

\* The schema at path q of the document is the one for path p of a value: a
\* property has its own schema, or that of the additional ones if no pattern
\* matches its name, and neither of them beside a $ref.
Governs(d, q, p) ==
    /\ Len(q) = Len(p)
    /\ \A i \in 1 .. Len(p) :
          LET above == Prefix(q, i - 1)
          IN  /\ d[above].ref = {}
              /\ IF Append(above, p[i]) \in DOMAIN d THEN q[i] = p[i]
                 ELSE q[i] = Other /\ p[i] \notin d[above].patterns

\* The schema at q accepts what the value is at p.
Accepts(d, q, v, p) ==
    \/ d[q].kind = "true"
    \/ /\ d[q].kind = "object" /\ d[q].ref # {}
       /\ d[q].ref \subseteq v[p].meets
    \/ /\ d[q].kind = "object" /\ d[q].ref = {}
       /\ d[q].type # {} => v[p].type \in d[q].type
       /\ d[q].rest \subseteq v[p].meets
       /\ v[p].type = "object" => d[q].required \subseteq Members(v, p)

Validates(d, v) ==
    \A p \in DOMAIN v, q \in DOMAIN d : Governs(d, q, p) => Accepts(d, q, v, p)

\* Every value that is valid for the writer is valid for the reader.
Covers(values, reader, writer) ==
    \A v \in values : Validates(writer, v) => Validates(reader, v)

\* There is a difference that compareDocuments does not see: a type of the
\* reader where the writer has none, its schema for additional properties, a
\* keyword outside the fragment that the writer does not have, another $ref, or
\* a name that a pattern of the writer lets in and the reader has a property
\* for, or does not let in.
Unread(reader, writer) ==
    \E p \in Shared(reader, writer) :
        /\ reader[p].kind = "object" /\ writer[p].kind = "object"
        /\ \/ reader[p].type # {} /\ writer[p].type = {}
           \/ Append(p, Other) \in DOMAIN reader /\ reader[Append(p, Other)].kind = "object"
           \/ ~(reader[p].rest \subseteq writer[p].rest)
           \/ reader[p].ref # writer[p].ref
           \/ \E n \in writer[p].patterns \ Properties(writer, p) :
                 \/ n \in Properties(reader, p)
                 \/ ~Open(reader, p) /\ n \notin reader[p].patterns
=============================================================================
