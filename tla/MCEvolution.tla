----------------------------- MODULE MCEvolution -----------------------------
(* Schemas and values for Evolution.                                       *)
EXTENDS Evolution, TLC

CONSTANTS p, q

Nothing == [n \in {} |-> n]

\* The tree with the given root, and a tree for each step of parts.
Tree(root, parts) ==
    LET below(n) == {<<n>> \o path : path \in DOMAIN parts[n]}
    IN  [path \in {<<>>} \cup UNION {below(n) : n \in DOMAIN parts} |->
            IF path = <<>> THEN root ELSE parts[Head(path)][Tail(path)]]

Leaf(root) == Tree(root, Nothing)

\* Schemas of property p, the last of which is an object itself, and objects
\* that have it or not.
Scalar(type, rest) == Leaf(Object(type, {}, rest))
Parts == {Leaf(TrueSchema), Leaf(FalseSchema), Scalar({}, {}), Scalar({"string"}, {}),
          Scalar({"string", "number"}, {}), Scalar({"string"}, {"rest"}),
          Tree(Object({"object"}, {}, {}), q :> Scalar({"string"}, {}) @@ Other :> Leaf(FalseSchema))}
\* Objects whose property p a pattern lets in, and ones with a $ref.
Closed == Other :> Leaf(FalseSchema)
LetIn == Patterned(Object({"object"}, {}, {}), {p})
ByReference == Leaf(Referring(Object({"string"}, {}, {}), {"rest"}))
Others == {Tree(LetIn, Closed), Tree(LetIn, p :> Scalar({"string"}, {}) @@ Closed),
           Tree(Object({"object"}, {}, {}), p :> ByReference), ByReference,
           Scalar({"string"}, {})}

MCDocuments == Others \cup
    {Tree(Object({"object"}, x[1], {}), f @@ x[2]) :
        f \in {Nothing} \cup {p :> d : d \in Parts},
        x \in {{}, {p}} \X {Nothing, Closed} \cup {<<{}, Other :> Scalar({"string"}, {})>>}}

Scalars == [type : {"string", "number"}, meets : {{}, {"rest"}}]
Plain == [type |-> "object", meets |-> {}]
MCValues ==
    {Leaf(x) : x \in Scalars} \cup
    {Tree(Plain, f) : f \in UNION {[names -> {Leaf(x) : x \in Scalars}] : names \in SUBSET {p, q}}} \cup
    {Tree(Plain, p :> Tree(Plain, q :> Leaf(x))) : x \in Scalars}

\* Files with a message M, or without it.
MCFields ==
    {Number("int32", FALSE), Number("int32", TRUE), Number("bool", FALSE), Number("sint32", FALSE),
     Number("string", FALSE), Number("bytes", FALSE),
     Message("message", "T"), Message("group", "T"),
     Map("string", Message("message", "T")), Map("string", Message("message", "U"))}
MCFiles == {Nothing, "M" :> Nothing} \cup {"M" :> (1 :> f) : f \in MCFields}
=============================================================================
