----------------------------- MODULE MCForwarding -----------------------------
(* A mode that was put before the replicas started.                        *)
EXTENDS Forwarding

CONSTANT p1

PutEarlier == <<p1>>
=============================================================================
