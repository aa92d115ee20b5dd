----------------------------- MODULE KafkaCluster -----------------------------
(***************************************************************************)
(* Replicas of the registry over one Kafka topic: Store (store.go),        *)
(* Coordinator (coordinator.go), the coordinate and Follow goroutines of   *)
(* app.Run and the part of domain.Machine that orders commands.  The       *)
(* broker is external: a single-partition log with transactions of one     *)
(* transactional ID, which belongs to the replica that initialised its     *)
(* producer last, and a group that tells replicas whether they own the     *)
(* partition.  The group may be wrong, calls may fail with or without      *)
(* effect, and a process may be restarted at any point.                    *)
(*                                                                         *)
(* A record of the log stands for its bytes.  A machine's state is the     *)
(* list of records it applied: Registry gives the meaning of such a list.  *)
(***************************************************************************)
EXTENDS Integers, Sequences, FiniteSets, FiniteSetsExt

CONSTANTS
    Replica,        \* replica IDs, the holders of leases
    OperationID,    \* client operations
    Stamped,        \* those whose transition carries its time of creation
    None,           \* absence of a lease, a holder or an operation
    MaxFaults       \* bound on failed calls, lost assignments and restarts

ASSUME SentinelAssumption ==
    /\ None \notin Replica
    /\ None \notin OperationID
    /\ Stamped \subseteq OperationID
    /\ MaxFaults \in Nat

VARIABLES
    log,        \* the records of the partition, with the fate of their transaction
    owner,      \* the replica that initialised its producer last, or None
    expired,    \* the broker timed out a transaction of the owner and fenced it
    position,   \* Store.position: records consumed
    items,      \* Store.items: sequence -> record
    primary,    \* Store.primary: the last announcement consumed, or None
    lease,      \* Store.lease, or None
    producing,  \* the producer client of this process has been initialised
    job,        \* what the holder of Store.commitMu is doing
    machine,    \* the records Machine has applied, in order
    assigned,   \* Coordinator.assigned
    held,       \* Coordinator.lease, or None
    acquired,   \* lease activatePrimary returned and Acquire has not looked at
    dropping,   \* leases deactivatePrimary was called for and has not removed
    acked,      \* [seq, op] pairs answered to clients
    faults      \* faults so far

broker == <<log, owner, expired>>
store == <<position, items, primary, lease>>
coordinator == <<assigned, held, acquired, dropping>>
vars == <<broker, store, producing, job, machine, coordinator, acked, faults>>

Lease == [holder : Replica, epoch : Nat \ {0}]

Record == [kind : {"transition", "primary"}, num : Nat, op : OperationID \cup {None},
           by : Replica, epoch : Nat, status : {"open", "committed", "aborted"}]

\* step is where the holder of commitMu stands.  num is the sequence or the
\* epoch it is writing, rec its record in the log, 0 before there is one.
Job == [step : {"open", "idle", "catchup", "init", "produce", "end", "wait"},
        kind : {"none", "transition", "primary"}, num : Nat,
        op : OperationID \cup {None}, rec : Nat, end : Nat]

Idle == [step |-> "idle", kind |-> "none", num |-> 0, op |-> None, rec |-> 0, end |-> 0]

\* Open has asked for the committed end and consumes up to it.
Opening(end) ==
    [step |-> "open", kind |-> "none", num |-> 0, op |-> None, rec |-> 0, end |-> end]

\* Changes of a job: where it stands, the number it writes, its record.
At(j, step) == [j EXCEPT !.step = step]
Numbered(j, num) == [j EXCEPT !.num = num]
Written(j, rec) == [j EXCEPT !.rec = rec]

Init ==
    /\ log = <<>>
    /\ owner = None
    /\ expired = FALSE
    /\ position = [r \in Replica |-> 0]
    /\ items = [r \in Replica |-> <<>>]
    /\ primary = [r \in Replica |-> None]
    /\ lease = [r \in Replica |-> None]
    /\ producing = [r \in Replica |-> FALSE]
    /\ job = [r \in Replica |-> Opening(0)]
    /\ machine = [r \in Replica |-> <<>>]
    /\ assigned = [r \in Replica |-> FALSE]
    /\ held = [r \in Replica |-> None]
    /\ acquired = [r \in Replica |-> None]
    /\ dropping = [r \in Replica |-> {}]
    /\ acked = {}
    /\ faults = 0

Fault == faults < MaxFaults /\ faults' = faults + 1

-----------------------------------------------------------------------------
(* The broker.                                                             *)

\* Every open record gets the fate of the transaction.
Settle(records, fate) ==
    [i \in DOMAIN records |->
        IF records[i].status = "open" THEN [records[i] EXCEPT !.status = fate] ELSE records[i]]

\* Records below the last stable offset: what read-committed consumers get.
Stable == {i \in DOMAIN log : \A j \in 1 .. i : log[j].status # "open"}

\* A transaction that outlives TransactionTimeout is aborted and its producer
\* fenced.
AbortTimedOut ==
    /\ Fault
    /\ \E i \in DOMAIN log : log[i].status = "open"
    /\ log' = Settle(log, "aborted")
    /\ expired' = TRUE
    /\ UNCHANGED <<owner, store, producing, job, machine, coordinator, acked>>

Admitted(r) == owner = r /\ ~expired

-----------------------------------------------------------------------------
(* The consumer and the follower of each replica.                          *)

EpochOf(p) == IF p = None THEN 0 ELSE p.epoch

\* Two transitions of one sequence are equal byte for byte if they are attempts
\* at the same operation and carry no time.
SameBytes(i, j) ==
    i = j \/ (log[i].num = log[j].num /\ log[i].op = log[j].op /\ log[i].op \notin Stamped)

\* applyRecordLocked accepts the next record.  Another transition for a known
\* sequence, or a smaller epoch, is fatal: the consumer stops for good.
Consumable(r) ==
    LET i == position[r] + 1
        record == log[i]
    IN  /\ i \in Stable
        /\ \/ record.status = "aborted"
           \/ /\ record.kind = "transition"
              /\ record.num \in DOMAIN items[r] => SameBytes(i, items[r][record.num])
           \/ record.kind = "primary" /\ record.num >= EpochOf(primary[r])

\* Mutant of Consume: the last record of a sequence wins.
ConsumeLast(r) ==
    LET i == position[r] + 1
        record == log[i]
        committed(kind) == record.status = "committed" /\ record.kind = kind
    IN  /\ i \in Stable
        /\ position' = [position EXCEPT ![r] = i]
        /\ items' = IF committed("transition")
                    THEN [items EXCEPT ![r] = [n \in DOMAIN @ \cup {record.num} |->
                                                 IF n = record.num THEN i ELSE @[n]]]
                    ELSE items
        /\ primary' = IF committed("primary")
                      THEN [primary EXCEPT ![r] = [holder |-> record.by, epoch |-> record.num]]
                      ELSE primary
        /\ UNCHANGED <<broker, lease, producing, job, machine, coordinator, acked, faults>>

Consume(r) ==
    LET i == position[r] + 1
        record == log[i]
        committed(kind) == record.status = "committed" /\ record.kind = kind
    IN  /\ Consumable(r)
        /\ position' = [position EXCEPT ![r] = i]
        /\ items' = IF committed("transition") /\ record.num \notin DOMAIN items[r]
                    THEN [items EXCEPT ![r] = [n \in DOMAIN @ \cup {record.num} |->
                                                 IF n = record.num THEN i ELSE @[n]]]
                    ELSE items
        /\ primary' = IF committed("primary")
                      THEN [primary EXCEPT ![r] = [holder |-> record.by, epoch |-> record.num]]
                      ELSE primary
        /\ UNCHANGED <<broker, lease, producing, job, machine, coordinator, acked, faults>>

LastSequence(r) == Max(DOMAIN items[r] \cup {0})

\* validateReplay.
Complete(r) == DOMAIN items[r] = 1 .. LastSequence(r)

\* Open is done and recoverState has replayed the transitions.
Open(r) ==
    /\ job[r].step = "open"
    /\ position[r] >= job[r].end
    /\ Complete(r)
    /\ job' = [job EXCEPT ![r] = Idle]
    /\ machine' = [machine EXCEPT ![r] = [n \in 1 .. LastSequence(r) |-> items[r][n]]]
    /\ UNCHANGED <<broker, store, producing, coordinator, acked, faults>>

\* Machine's mutex is held from planning a command to publishing its state.
Locked(r) == job[r].kind = "transition"

\* Mutant of Follow: the last transition known is left for the next round.
FollowAllButLast(r) ==
    LET n == Len(machine[r]) + 1
    IN  /\ ~Locked(r) /\ job[r].step # "open"
        /\ n \in DOMAIN items[r] /\ n < LastSequence(r)
        /\ machine' = [machine EXCEPT ![r] = Append(@, items[r][n])]
        /\ UNCHANGED <<broker, store, producing, job, coordinator, acked, faults>>

\* Follow hands the next transition to ApplyCommitted.
Follow(r) ==
    LET n == Len(machine[r]) + 1
    IN  /\ ~Locked(r) /\ job[r].step # "open"
        /\ n \in DOMAIN items[r]
        /\ machine' = [machine EXCEPT ![r] = Append(@, items[r][n])]
        /\ UNCHANGED <<broker, store, producing, job, coordinator, acked, faults>>

-----------------------------------------------------------------------------
(* Transactions: transaction and initializeProducer, for the record of the *)
(* job that holds commitMu.                                                *)

\* Mutant of FirstStep: every transaction initialises the producer, as if one
\* made for a single transaction were used.
FirstStepAlways(r) == "init"

\* Where transaction begins: the producer is initialised once per process.
FirstStep(r) == IF producing[r] THEN "produce" ELSE "init"

\* Initialising the producer aborts what the previous owner left open and
\* fences it.  That it fails is left out: the transaction then ends without its
\* record, as in ProduceFails(r, FALSE, aborted).
InitializeProducer(r) ==
    /\ job[r].step = "init"
    /\ log' = Settle(log, "aborted")
    /\ owner' = r
    /\ expired' = FALSE
    /\ producing' = [producing EXCEPT ![r] = TRUE]
    /\ job' = [job EXCEPT ![r] = At(@, "produce")]
    /\ UNCHANGED <<store, machine, coordinator, acked, faults>>

NewRecord(r, fate) ==
    [kind |-> job[r].kind, num |-> job[r].num, op |-> job[r].op, by |-> r,
     epoch |-> IF job[r].kind = "primary" THEN job[r].num ELSE lease[r].epoch,
     status |-> fate]

\* After an error Commit looks for its record in the committed stream, while
\* activatePrimary gives up.
AfterError(j) == IF j.kind = "transition" THEN At(j, "wait") ELSE Idle

Produce(r) ==
    /\ job[r].step = "produce"
    /\ Admitted(r)
    /\ log' = Append(log, NewRecord(r, "open"))
    /\ job' = [job EXCEPT ![r] = At(Written(@, Len(log) + 1), "end")]
    /\ UNCHANGED <<owner, expired, store, producing, machine, coordinator, acked, faults>>

\* ProduceSync fails, the record written or not, and so may its TryAbort.
ProduceFails(r, written, aborted) ==
    /\ job[r].step = "produce"
    /\ Admitted(r)
    /\ Fault
    /\ LET records == IF written THEN Append(log, NewRecord(r, "open")) ELSE log
       IN  log' = IF aborted THEN Settle(records, "aborted") ELSE records
    /\ job' = [job EXCEPT ![r] =
                 AfterError(Written(@, IF written THEN Len(log) + 1 ELSE 0))]
    /\ UNCHANGED <<owner, expired, store, producing, machine, coordinator, acked>>

\* EndTransaction commits everything the producer has written and not ended.
EndTransaction(r) ==
    /\ job[r].step = "end"
    /\ Admitted(r)
    /\ log' = Settle(log, "committed")
    /\ job' = [job EXCEPT ![r] = At(@, "wait")]
    /\ UNCHANGED <<owner, expired, store, producing, machine, coordinator, acked, faults>>

\* EndTransaction fails, with or without its effect on the broker.
EndFails(r, executed) ==
    /\ job[r].step = "end"
    /\ Admitted(r)
    /\ Fault
    /\ log' = IF executed THEN Settle(log, "committed") ELSE log
    /\ job' = [job EXCEPT ![r] = AfterError(@)]
    /\ UNCHANGED <<owner, expired, store, producing, machine, coordinator, acked>>

\* The broker refuses a producer whose epoch is not current.  TryAbort after a
\* failed produce lets the client of an expired owner initialise again; any
\* other fenced producer stays so, since ProducerID keeps returning the error.
Fenced(r) ==
    /\ job[r].step \in {"produce", "end"}
    /\ ~Admitted(r)
    /\ \/ UNCHANGED expired
       \/ owner = r /\ job[r].step = "produce" /\ expired' = FALSE
    /\ job' = [job EXCEPT ![r] = AfterError(@)]
    /\ UNCHANGED <<log, owner, store, producing, machine, coordinator, acked, faults>>

-----------------------------------------------------------------------------
(* Commands: Machine.commitApply over Store.Commit.                        *)

Recorded(r, o) == \E n \in DOMAIN machine[r] : log[machine[r][n]].op = o

CheckLeadership(r) == lease[r] # None /\ lease[r] = primary[r]

\* Mutant of Commit: the sequence is the store's, not that of the state the
\* command was planned in.
CommitAtStoreSequence(r, o) ==
    /\ job[r] = Idle
    /\ ~Recorded(r, o)
    /\ CheckLeadership(r)
    /\ job' = [job EXCEPT ![r] = [step |-> FirstStep(r), kind |-> "transition",
                                  num |-> LastSequence(r) + 1, op |-> o, rec |-> 0, end |-> 0]]
    /\ UNCHANGED <<broker, store, producing, machine, coordinator, acked, faults>>

\* The command is planned in the machine's state and passes checkLeadership
\* and checkSequence.
Commit(r, o) ==
    /\ job[r] = Idle
    /\ ~Recorded(r, o)
    /\ CheckLeadership(r)
    /\ Len(machine[r]) = LastSequence(r)
    /\ job' = [job EXCEPT ![r] = [step |-> FirstStep(r), kind |-> "transition",
                                  num |-> Len(machine[r]) + 1, op |-> o, rec |-> 0, end |-> 0]]
    /\ UNCHANGED <<broker, store, producing, machine, coordinator, acked, faults>>

\* checkSequence finds the very bytes it was asked to write: Commit returns
\* without writing and the machine publishes.
CommitRetry(r, o) ==
    LET n == Len(machine[r]) + 1
    IN  /\ job[r] = Idle
        /\ ~Recorded(r, o)
        /\ CheckLeadership(r)
        /\ n \in DOMAIN items[r]
        /\ log[items[r][n]].op = o /\ o \notin Stamped
        /\ machine' = [machine EXCEPT ![r] = Append(@, items[r][n])]
        /\ acked' = acked \cup {[seq |-> n, op |-> o]}
        /\ UNCHANGED <<broker, store, producing, job, coordinator, faults>>

\* The transition observed for the sequence of the job is the one it wrote.
Observed(r) ==
    LET i == items[r][job[r].num]
    IN  i = job[r].rec \/ (log[i].op = job[r].op /\ job[r].op \notin Stamped)

\* waitForTransition sees it: Commit returns without error and the machine
\* publishes.
CommitObserved(r) ==
    /\ job[r].step = "wait" /\ job[r].kind = "transition"
    /\ job[r].num \in DOMAIN items[r]
    /\ Observed(r)
    /\ machine' = [machine EXCEPT ![r] = Append(@, items[r][job[r].num])]
    /\ acked' = acked \cup {[seq |-> job[r].num, op |-> job[r].op]}
    /\ job' = [job EXCEPT ![r] = Idle]
    /\ UNCHANGED <<broker, store, producing, coordinator, faults>>

\* It sees another transition for the sequence.
CommitConflicts(r) ==
    /\ job[r].step = "wait" /\ job[r].kind = "transition"
    /\ job[r].num \in DOMAIN items[r]
    /\ ~Observed(r)
    /\ job' = [job EXCEPT ![r] = Idle]
    /\ UNCHANGED <<broker, store, producing, machine, coordinator, acked, faults>>

\* A retry of an operation the machine has applied is answered from its state.
AnswerRetry(r, o) ==
    /\ ~Locked(r) /\ job[r].step # "open"
    /\ \E n \in DOMAIN machine[r] :
          /\ log[machine[r][n]].op = o
          /\ acked' = acked \cup {[seq |-> n, op |-> o]}
    /\ UNCHANGED <<broker, store, producing, job, machine, coordinator, faults>>

\* What the job waits for has been consumed.
Arrived(r) ==
    CASE job[r].step = "catchup" -> position[r] >= job[r].end
      [] job[r].kind = "transition" -> job[r].num \in DOMAIN items[r]
      [] OTHER -> \/ primary[r] = [holder |-> r, epoch |-> job[r].num]
                  \/ EpochOf(primary[r]) > job[r].num

\* A wait ends with its context.  That is a fault if what it waits for has come
\* or may be among the records the consumer has not read.
WaitExpires(r) ==
    /\ job[r].step \in {"catchup", "wait"}
    /\ IF position[r] < Cardinality(Stable) \/ Arrived(r) THEN Fault ELSE UNCHANGED faults
    /\ job' = [job EXCEPT ![r] = Idle]
    /\ UNCHANGED <<broker, store, producing, machine, coordinator, acked>>

-----------------------------------------------------------------------------
(* The coordinator.  Renew changes nothing: when it fails, coordinate calls *)
(* Acquire, which returns the lease it holds for as long as the partition  *)
(* stays assigned.                                                         *)

\* OnPartitionsAssigned.
Assign(r) ==
    /\ ~assigned[r]
    /\ job[r].step # "open"
    /\ assigned' = [assigned EXCEPT ![r] = TRUE]
    /\ UNCHANGED <<broker, store, producing, job, machine, held, acquired, dropping, acked, faults>>

\* OnPartitionsRevoked and OnPartitionsLost.
Revoke(r) ==
    /\ assigned[r]
    /\ Fault
    /\ assigned' = [assigned EXCEPT ![r] = FALSE]
    /\ held' = [held EXCEPT ![r] = None]
    /\ dropping' = [dropping EXCEPT ![r] = @ \cup ({held[r]} \ {None})]
    /\ UNCHANGED <<broker, store, producing, job, machine, acquired, acked>>

\* deactivatePrimary, once it has commitMu.
Deactivate(r) ==
    /\ dropping[r] # {}
    /\ job[r] = Idle
    /\ \E l \in dropping[r] :
          /\ dropping' = [dropping EXCEPT ![r] = @ \ {l}]
          /\ lease' = [lease EXCEPT ![r] = IF @ = l THEN None ELSE @]
    /\ UNCHANGED <<broker, position, items, primary, producing, job, machine,
                   assigned, held, acquired, acked, faults>>

\* Acquire finds the partition assigned and calls activatePrimary, which asks
\* for the committed end.
Activate(r) ==
    /\ assigned[r]
    /\ held[r] = None /\ acquired[r] = None /\ dropping[r] = {}
    /\ job[r] = Idle
    /\ job' = [job EXCEPT ![r] = [step |-> "catchup", kind |-> "primary", num |-> 0,
                                  op |-> None, rec |-> 0, end |-> Cardinality(Stable)]]
    /\ UNCHANGED <<broker, store, producing, machine, coordinator, acked, faults>>

\* Mutant of CatchUp: the epoch is not incremented.
CatchUpSameEpoch(r) ==
    /\ job[r].step = "catchup"
    /\ position[r] >= job[r].end
    /\ Complete(r)
    /\ job' = [job EXCEPT ![r] = At(Numbered(@, EpochOf(primary[r])), FirstStep(r))]
    /\ UNCHANGED <<broker, store, producing, machine, coordinator, acked, faults>>

\* CatchUp is done; the new epoch follows the one it saw.
CatchUp(r) ==
    /\ job[r].step = "catchup"
    /\ position[r] >= job[r].end
    /\ Complete(r)
    /\ job' = [job EXCEPT ![r] = At(Numbered(@, EpochOf(primary[r]) + 1), FirstStep(r))]
    /\ UNCHANGED <<broker, store, producing, machine, coordinator, acked, faults>>

\* waitForPrimary sees the announcement: the store has its lease.
PrimaryObserved(r) ==
    LET mine == [holder |-> r, epoch |-> job[r].num]
    IN  /\ job[r].step = "wait" /\ job[r].kind = "primary"
        /\ primary[r] = mine
        /\ lease' = [lease EXCEPT ![r] = mine]
        /\ acquired' = [acquired EXCEPT ![r] = mine]
        /\ job' = [job EXCEPT ![r] = Idle]
        /\ UNCHANGED <<broker, position, items, primary, producing, machine,
                       assigned, held, dropping, acked, faults>>

\* It sees a greater epoch.
PrimarySuperseded(r) ==
    /\ job[r].step = "wait" /\ job[r].kind = "primary"
    /\ EpochOf(primary[r]) > job[r].num
    /\ job' = [job EXCEPT ![r] = Idle]
    /\ UNCHANGED <<broker, store, producing, machine, coordinator, acked, faults>>

\* Acquire keeps the lease if the partition is still assigned.
AcquireReturns(r) ==
    /\ acquired[r] # None
    /\ acquired' = [acquired EXCEPT ![r] = None]
    /\ IF assigned[r]
       THEN held' = [held EXCEPT ![r] = acquired[r]] /\ UNCHANGED dropping
       ELSE dropping' = [dropping EXCEPT ![r] = @ \cup {acquired[r]}] /\ UNCHANGED held
    /\ UNCHANGED <<broker, store, producing, job, machine, assigned, acked, faults>>

\* The process ends and another takes its place, which begins with Open.
Restart(r) ==
    /\ Fault
    /\ position' = [position EXCEPT ![r] = 0]
    /\ items' = [items EXCEPT ![r] = <<>>]
    /\ primary' = [primary EXCEPT ![r] = None]
    /\ lease' = [lease EXCEPT ![r] = None]
    /\ producing' = [producing EXCEPT ![r] = FALSE]
    /\ job' = [job EXCEPT ![r] = Opening(Cardinality(Stable))]
    /\ machine' = [machine EXCEPT ![r] = <<>>]
    /\ assigned' = [assigned EXCEPT ![r] = FALSE]
    /\ held' = [held EXCEPT ![r] = None]
    /\ acquired' = [acquired EXCEPT ![r] = None]
    /\ dropping' = [dropping EXCEPT ![r] = {}]
    /\ UNCHANGED <<broker, acked>>

-----------------------------------------------------------------------------
\* The steps of the goroutine that holds commitMu, given a broker that answers.
Working(r) ==
    \/ InitializeProducer(r) \/ Produce(r) \/ EndTransaction(r) \/ Fenced(r)
    \/ CommitObserved(r) \/ CommitConflicts(r)
    \/ CatchUp(r) \/ PrimaryObserved(r) \/ PrimarySuperseded(r)

Next ==
    \/ \E r \in Replica :
          \/ Consume(r) \/ Open(r) \/ Follow(r) \/ Working(r)
          \/ Activate(r) \/ AcquireReturns(r) \/ Deactivate(r)
          \/ WaitExpires(r) \/ Assign(r) \/ Revoke(r) \/ Restart(r)
    \/ \E r \in Replica, o \in OperationID : Commit(r, o) \/ CommitRetry(r, o) \/ AnswerRetry(r, o)
    \/ \E r \in Replica, written, aborted \in BOOLEAN : ProduceFails(r, written, aborted)
    \/ \E r \in Replica, executed \in BOOLEAN : EndFails(r, executed)
    \/ AbortTimedOut

Spec == Init /\ [][Next]_vars

\* The goroutines of a process keep running, waits end with their contexts and
\* the broker answers in the end; nothing is assumed of clients, of the group
\* or of faults.
Fairness ==
    \A r \in Replica :
        /\ WF_vars(Consume(r)) /\ WF_vars(Open(r)) /\ WF_vars(Follow(r))
        /\ WF_vars(Working(r)) /\ WF_vars(WaitExpires(r))

FairSpec == Spec /\ Fairness

-----------------------------------------------------------------------------
\* The shape of the broker, the stores, the coordinators and the machines.
TypeOK ==
    /\ log \in Seq(Record)
    /\ owner \in Replica \cup {None} /\ expired \in BOOLEAN
    /\ position \in [Replica -> 0 .. Len(log)]
    /\ \A r \in Replica : \A n \in DOMAIN items[r] : n \in Nat \ {0} /\ items[r][n] \in DOMAIN log
    /\ {primary, lease, held, acquired} \subseteq [Replica -> Lease \cup {None}]
    /\ {producing, assigned} \subseteq [Replica -> BOOLEAN]
    /\ job \in [Replica -> Job]
    /\ machine \in [Replica -> Seq(DOMAIN log)]
    /\ dropping \in [Replica -> SUBSET Lease]
    /\ acked \subseteq [seq : Nat \ {0}, op : OperationID]
    /\ faults \in 0 .. MaxFaults

\* The committed records of a kind, by position.
Committed(kind) ==
    {i \in DOMAIN log : log[i].status = "committed" /\ log[i].kind = kind}

\* The transitions every consumer keeps: the first one of each sequence.
Chosen ==
    {i \in Committed("transition") :
        \A j \in 1 .. i - 1 :
            log[j].status = "committed" /\ log[j].kind = "transition" => log[j].num # log[i].num}

\* The registries the replicas serve are prefixes of one another: each is the
\* beginning of the list of chosen transitions, whatever conflicts the topic
\* holds, whoever wrote them and however far each consumer has read.
MachinesAgree ==
    \A r \in Replica : \A n \in DOMAIN machine[r] :
        machine[r][n] \in Chosen /\ log[machine[r][n]].num = n

\* Their operations and sequences.
Operations == {[seq |-> log[i].num, op |-> log[i].op] : i \in Chosen}

L == INSTANCE Ledger WITH ledger <- Operations

\* The chosen transitions implement the ledger: an operation is decided at most
\* once although clients repeat it on every replica and commits fail with or
\* without effect, and every answer names the decided place of its operation.
ImplementsLedger == L!Spec

\* The announcement in force at record i.
InForce(i) == Max({j \in Committed("primary") : j < i})

\* A committed transition was written by the primary announced last before it,
\* under its current epoch: neither a replica that lost the partition nor one
\* whose own newer announcement is unknown to it writes into another's term.
WrittenByPrimary ==
    \A i \in Committed("transition") :
        /\ \E j \in Committed("primary") : j < i
        /\ log[InForce(i)].by = log[i].by
        /\ log[InForce(i)].num = log[i].epoch

\* Another transition is committed for the sequence of record i.
Conflicting(i) ==
    \E j \in Committed("transition") : log[j].num = log[i].num /\ ~SameBytes(i, j)

\* The topic never holds two different transitions for one sequence, so that a
\* retry after an ambiguous commit is safe and a consumer never stops.
OneTransitionPerSequence == \A i \in Committed("transition") : ~Conflicting(i)

\* The epochs of the announcements of the topic never decrease.
EpochsNeverRegress ==
    \A i, j \in Committed("primary") : i < j => log[i].num <= log[j].num

\* Every replica, the restarted ones too, applies every transition the topic
\* holds, unless a record its consumer refuses is in the topic.
FollowersConverge ==
    \A n \in 1 .. Cardinality(OperationID) :
        n \in {log[i].num : i \in Chosen} ~>
            \/ \A r \in Replica : n \in DOMAIN machine[r]
            \/ ~OneTransitionPerSequence
            \/ ~EpochsNeverRegress
=============================================================================
