-------------------------------- MODULE Ledger --------------------------------
(***************************************************************************)
(* What the replicated registry promises its clients, seen as an ordered   *)
(* list of operations: an operation enters the ledger at most once, the    *)
(* ledger only grows, and an answer names the place of its operation.  The *)
(* registry state after n operations is a function of the first n, so      *)
(* agreeing on the ledger is agreeing on IDs, versions and results.        *)
(***************************************************************************)
EXTENDS Naturals, FiniteSets

CONSTANT OperationID

VARIABLES
    ledger,     \* [seq, op] pairs: the operations and their places
    acked       \* the pairs answered to clients

Init == ledger = {} /\ acked = {}

\* Clients are told where their operations stand.
Answer ==
    /\ UNCHANGED ledger
    /\ acked \subseteq acked'
    /\ acked' \subseteq ledger

\* The ledger gets one operation more, which it did not hold, in the next place.
Decide ==
    /\ \E o \in OperationID \ {entry.op : entry \in ledger} :
          ledger' = ledger \cup {[seq |-> Cardinality(ledger) + 1, op |-> o]}
    /\ UNCHANGED acked

Next == Answer \/ Decide

Spec == Init /\ [][Next]_<<ledger, acked>>
=============================================================================
