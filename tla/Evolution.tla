------------------------------ MODULE Evolution ------------------------------
(***************************************************************************)
(* The history of a subject under a compatibility level: which schemas     *)
(* Register compares a candidate with (Machine.compatibilitySchemas), and  *)
(* which of them deletion takes away.                                      *)
(***************************************************************************)
EXTENDS SubjectVersions

vars == <<format, level, history, deleted>>

\* compatibilitySchemas: the versions a candidate is compared with.
Compared ==
    IF level \in TransitiveLevels THEN Active ELSE {v \in Active : \A w \in Active : w <= v}

Init ==
    /\ format \in {"JSON", "PROTOBUF"}
    /\ level \in ConfiguredLevels
    /\ history = <<>>
    /\ deleted = {}

\* planRegister: a schema that is not active yet and that the policy accepts.
Register(x) ==
    /\ Len(history) < MaxVersions
    /\ \A v \in Active : history[v] # x
    /\ \A v \in Compared : Compatible(x, history[v])
    /\ history' = Append(history, x)
    /\ UNCHANGED <<format, level, deleted>>

\* DeleteVersion: the version is not compared with any more.
DeleteVersion(v) ==
    /\ v \in Active
    /\ deleted' = deleted \cup {v}
    /\ UNCHANGED <<format, level, history>>

Next ==
    \/ \E x \in Schemas : Register(x)
    \/ \E v \in Active : DeleteVersion(v)

Spec == Init /\ [][Next]_vars
=============================================================================
