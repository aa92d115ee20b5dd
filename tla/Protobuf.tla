------------------------------- MODULE Protobuf -------------------------------
(***************************************************************************)
(* The comparison of formats/protobuf.  A file is a function from its      *)
(* top-level messages to functions from field numbers to fields.  A field  *)
(* is its kind, its type if it is a message or a map, and whether it is a  *)
(* list of numbers, which is written packed.  Messages that are declared   *)
(* inside others are not compared and not modelled.                        *)
(***************************************************************************)
EXTENDS FiniteSets

Varint == {"int32", "int64", "uint32", "uint64", "bool", "enum"}
Zigzag == {"sint32", "sint64"}
Fixed32 == {"fixed32", "sfixed32"}
Fixed64 == {"fixed64", "sfixed64"}
LengthScalar == {"string", "bytes"}
Composite == {"message", "group"}
Kind == Varint \cup Zigzag \cup Fixed32 \cup Fixed64 \cup LengthScalar \cup Composite \cup {"float", "double", "map"}

Number(kind, packed) == [kind |-> kind, packed |-> packed]
Message(kind, type) == [kind |-> kind, packed |-> FALSE, type |-> type]
Map(key, value) == [kind |-> "map", packed |-> FALSE, key |-> key, value |-> value]

\* Mutant of WireClass: the zigzag encoding is taken for the plain one.
WireClassOfTag(f) ==
    CASE f.kind = "map" -> <<"map", f.key, f.value.kind>>
      [] f.kind \in Varint \cup Zigzag -> <<"varint">>
      [] f.kind \in Fixed32 -> <<"fixed32-int">>
      [] f.kind \in Fixed64 -> <<"fixed64-int">>
      [] f.kind \in LengthScalar -> <<"length-scalar">>
      [] f.kind \in Composite -> <<"message", f.type>>
      [] OTHER -> <<f.kind>>

\* wireClass.  It takes the kind alone of the values of a map, does not ask for
\* lists, and makes no difference between a message and a group, nor between
\* text and bytes.
WireClass(f) ==
    CASE f.kind = "map" -> <<"map", f.key, f.value.kind>>
      [] f.kind \in Varint -> <<"varint">>
      [] f.kind \in Zigzag -> <<"zigzag">>
      [] f.kind \in Fixed32 -> <<"fixed32-int">>
      [] f.kind \in Fixed64 -> <<"fixed64-int">>
      [] f.kind \in LengthScalar -> <<"length-scalar">>
      [] f.kind \in Composite -> <<"message", f.type>>
      [] OTHER -> <<f.kind>>

Common(f, g) == DOMAIN f \cap DOMAIN g

\* compareFiles finds no field whose class changed.
CompareFiles(reader, writer) ==
    \A m \in Common(reader, writer) : \A n \in Common(reader[m], writer[m]) :
        WireClass(reader[m][n]) = WireClass(writer[m][n])

-----------------------------------------------------------------------------
\* How the bytes of a field are read: the wire type of its tag, and what the
\* payload stands for.
Encoding(f) ==
    CASE f.kind = "map" -> <<"len", "entries", f.key, f.value>>
      [] f.kind \in Varint -> <<"varint", "plain">>
      [] f.kind \in Zigzag -> <<"varint", "zigzag">>
      [] f.kind \in Fixed32 -> <<"i32", "integer">>
      [] f.kind \in Fixed64 -> <<"i64", "integer">>
      [] f.kind = "float" -> <<"i32", "float">>
      [] f.kind = "double" -> <<"i64", "float">>
      [] f.kind \in LengthScalar -> <<"len", "bytes">>
      [] f.kind = "message" -> <<"len", "message", f.type>>
      [] f.kind = "group" -> <<"group", "message", f.type>>

\* A parser reads both a packed list and single numbers into a list, but no
\* packed list into a single number; it reads text as bytes, but refuses bytes
\* that are no text.
ReadsField(reader, writer) ==
    /\ Encoding(reader) = Encoding(writer)
    /\ writer.packed => reader.packed
    /\ writer.kind = "bytes" => reader.kind = "bytes"

\* The reader misreads field n of message m.
Misreads(reader, writer, m, n) ==
    /\ m \in Common(reader, writer) /\ n \in Common(reader[m], writer[m])
    /\ ~ReadsField(reader[m][n], writer[m][n])

\* The fields differ in what wireClass leaves out.
Overlooked(reader, writer) ==
    \/ writer.packed /\ ~reader.packed
    \/ writer.kind = "bytes" /\ reader.kind = "string"
    \/ reader.kind # writer.kind /\ "group" \in {reader.kind, writer.kind}
    \/ reader.kind = "map" /\ writer.kind = "map" /\ reader.value # writer.value
=============================================================================
