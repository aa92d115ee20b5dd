------------------------------ MODULE Forwarding ------------------------------
(***************************************************************************)
(* Mutations in a cluster: ha.Forwarder at every replica, the authority it *)
(* asks (Coordinator.LocalLease, Store.Primary), and the handlers it calls *)
(* over machines that follow one list of decided transitions, which is the *)
(* Ledger that KafkaCluster implements.  A client may send its mutation to *)
(* any replica and repeats it with the same operation ID until it gets an  *)
(* answer other than 500.  A forwarded call outlives the forwarder that no *)
(* longer waits for it.                                                    *)
(*                                                                         *)
(* Of the registry one setting is kept, the mode of a subject: mutations   *)
(* put it, delete it, or import a schema, which needs it.  Other clients   *)
(* change it too.  A lease is known by its epoch; announced[e] is its      *)
(* holder.                                                                 *)
(***************************************************************************)
EXTENDS Integers, Sequences, FiniteSets

CONSTANTS
    Replica,        \* replicas of the registry
    OperationID,    \* operations, one mutation each
    OtherPuts,      \* operations of other clients that put the mode
    OtherDeletes,   \* operations of other clients that delete it
    Earlier,        \* those of them decided before the replicas started
    Kinds,          \* what the clients of OperationID may ask for
    FirstMember,    \* the replica the consumer group begins with
    Retries,        \* Forwarder.Retries
    MaxCalls,       \* bound on the calls of an operation that run at a time
    MaxFaults       \* bound on rebalances, restarts, failed commits and timeouts

ASSUME ForwardingAssumption ==
    /\ OperationID \cap (OtherPuts \cup OtherDeletes) = {}
    /\ Earlier \in Seq(OtherPuts \cup OtherDeletes)
    /\ \A m, n \in DOMAIN Earlier : Earlier[m] = Earlier[n] => m = n
    /\ Kinds \subseteq {"put", "delete", "import"}
    /\ FirstMember \in Replica
    /\ Retries \in Nat \ {0}
    /\ MaxCalls \in Nat \ {0}
    /\ MaxFaults \in Nat

VARIABLES
    mutation,   \* what the client of an operation asks for
    decided,    \* operations of the committed transitions, in order
    torn,       \* two transitions of one sequence in the topic: consumers stop there
    applied,    \* transitions each Machine has applied
    announced,  \* holders of the epochs announced in the topic
    known,      \* Store.primary: the last epoch consumed, 0 for none
    producer,   \* the producer of this process: not initialised, ready or fenced
    unseen,     \* replicas that have not consumed what a failed Commit executed
    lease,      \* Store.lease, 0 for none
    group,      \* the member the consumer group gives the partition to
    assigned,   \* Coordinator.assigned
    acquired,   \* lease activatePrimary returned and Acquire has not looked at
    held,       \* Coordinator.lease, 0 for none
    request,    \* the client's request: where it is and how far servePublic got
    call,       \* handlers running for the operation
    answer,     \* the answer that ended the client's retries
    faults      \* faults so far

log == <<mutation, decided, announced, torn>>
machines == <<applied, known, producer, unseen>>
leadership == <<lease, group, assigned, acquired, held>>
clients == <<request, call, answer>>
vars == <<log, machines, leadership, clients, faults>>

Slot == 1 .. MaxCalls

Operation == OperationID \cup OtherPuts \cup OtherDeletes

\* seq is the place of the operation, which stands for its result, or the number
\* of transitions the machine had applied that gave the refusal.
Ok(n) == [code |-> "ok", seq |-> n]
Missing(n) == [code |-> "missing", seq |-> n]   \* 404 of a handler that looks first
Refused(n) == [code |-> "refused", seq |-> n]   \* 4xx of the command
Failed == [code |-> "failed", seq |-> 0]     \* 500, of the store or of the forwarder
Stale == [code |-> "stale", seq |-> 0]       \* the forwardError header of receive
Nothing == [code |-> "none", seq |-> 0]
Reply == {Failed, Stale, Nothing} \cup [code : {"ok", "missing", "refused"}, seq : Nat]

\* epoch is the lease the forwarder names, 0 for a handler called directly.
Call == [at : Replica, epoch : Nat, step : {"free", "sent", "look", "command", "reply"}, reply : Reply]
Request == [at : Replica, step : {"idle", "public", "forward", "waiting"}, attempt : 0 .. Retries, slot : Slot]

\* A slot that is free, and a request that its client has to send.
NoCall == [at |-> CHOOSE r \in Replica : TRUE, epoch |-> 0, step |-> "free", reply |-> Nothing]
ToSend == [at |-> CHOOSE r \in Replica : TRUE, step |-> "idle", attempt |-> 0, slot |-> 1]

\* A call and a request that have got to another step.
Step(c, step, reply) == [at |-> c.at, epoch |-> c.epoch, step |-> step, reply |-> reply]
Pass(q, attempt) == [at |-> q.at, step |-> "forward", attempt |-> attempt, slot |-> 1]

SetCall(o, k, c) == call' = [call EXCEPT ![o] = [@ EXCEPT ![k] = c]]
SetRequest(o, q) == request' = [request EXCEPT ![o] = q]

Fault == faults < MaxFaults /\ faults' = faults + 1

Init ==
    /\ mutation \in [OperationID -> Kinds]
    /\ decided = Earlier
    /\ torn = FALSE
    /\ applied = [r \in Replica |-> Len(Earlier)]
    /\ announced = <<>>
    /\ known = [r \in Replica |-> 0]
    /\ producer = [r \in Replica |-> "new"]
    /\ unseen = {}
    /\ lease = [r \in Replica |-> 0]
    /\ group = FirstMember
    /\ assigned = [r \in Replica |-> FALSE]
    /\ acquired = [r \in Replica |-> 0]
    /\ held = [r \in Replica |-> 0]
    /\ request = [o \in OperationID |-> ToSend]
    /\ call = [o \in OperationID |-> [k \in Slot |-> NoCall]]
    /\ answer = [o \in OperationID |-> Nothing]
    /\ faults = 0

-----------------------------------------------------------------------------
(* servePublic and forward.                                                *)

\* The client sends its mutation to some replica.
Send(o, r) ==
    /\ request[o].step = "idle"
    /\ answer[o] = Nothing
    /\ SetRequest(o, [at |-> r, step |-> "public", attempt |-> 0, slot |-> 1])
    /\ UNCHANGED <<log, machines, leadership, call, answer, faults>>

\* A handler is started in a free slot and the request waits for it.
Start(o, r, epoch, step, attempt) ==
    \E k \in Slot :
        /\ call[o][k] = NoCall
        /\ \A l \in Slot : l < k => call[o][l] # NoCall
        /\ SetCall(o, k, [at |-> r, epoch |-> epoch, step |-> step, reply |-> Nothing])
        /\ SetRequest(o, [at |-> request[o].at, step |-> "waiting", attempt |-> attempt, slot |-> k])

\* The replica serves the mutation itself if its lease is the announced one.
ServePublic(o) ==
    LET r == request[o].at
    IN  /\ request[o].step = "public"
        /\ IF held[r] # 0 /\ held[r] = known[r]
           THEN Start(o, r, 0, "look", 0)
           ELSE SetRequest(o, Pass(request[o], 0)) /\ UNCHANGED call
        /\ UNCHANGED <<log, machines, leadership, answer, faults>>

\* Mutant of Forward: one attempt too many.
ForwardOnceMore(o) ==
    LET r == request[o].at
    IN  /\ request[o].step = "forward"
        /\ request[o].attempt <= Retries
        /\ IF known[r] = 0
           THEN SetRequest(o, Pass(request[o], request[o].attempt + 1)) /\ UNCHANGED call
           ELSE Start(o, announced[known[r]], known[r], "sent", request[o].attempt + 1)
        /\ UNCHANGED <<log, machines, leadership, answer, faults>>

\* An attempt: the mutation goes to the primary announced last.
Forward(o) ==
    LET r == request[o].at
    IN  /\ request[o].step = "forward"
        /\ request[o].attempt < Retries
        /\ IF known[r] = 0
           THEN SetRequest(o, Pass(request[o], request[o].attempt + 1)) /\ UNCHANGED call
           ELSE Start(o, announced[known[r]], known[r], "sent", request[o].attempt + 1)
        /\ UNCHANGED <<log, machines, leadership, answer, faults>>

\* writeUnavailable: the client gets a 500 and will send again.
Unavailable(o) ==
    /\ request[o].step = "forward"
    /\ request[o].attempt = Retries
    /\ SetRequest(o, ToSend)
    /\ UNCHANGED <<log, machines, leadership, call, answer, faults>>

\* The answer of the handler reaches the one who waits for it: a refused lease
\* is tried again, everything else is relayed.
Relay(o) ==
    LET k == request[o].slot
        reply == call[o][k].reply
    IN  /\ request[o].step = "waiting"
        /\ call[o][k].step = "reply"
        /\ SetCall(o, k, NoCall)
        /\ SetRequest(o, IF reply = Stale THEN Pass(request[o], request[o].attempt) ELSE ToSend)
        /\ answer' = [answer EXCEPT ![o] = IF reply \in {Stale, Failed} THEN @ ELSE reply]
        /\ UNCHANGED <<log, machines, leadership, faults>>

\* What becomes of a request whose call is lost to it: a forwarder tries again,
\* a client that was connected to the handler sends again.
WithoutCall(q, c) == IF c.epoch = 0 THEN ToSend ELSE Pass(q, q.attempt)

\* Forwarder.Timeout, a broken connection or a client that gives up: the
\* handler runs on.
TimeOut(o) ==
    /\ request[o].step = "waiting"
    /\ Fault
    /\ SetRequest(o, WithoutCall(request[o], call[o][request[o].slot]))
    /\ UNCHANGED <<log, machines, leadership, call, answer>>

-----------------------------------------------------------------------------
(* receive and the public handler.                                         *)

\* The handler in slot k of operation o is at this step.
Running(o, k, step) == call[o][k].step = step

\* receive compares the lease with its own.
Receive(o, k) ==
    /\ Running(o, k, "sent")
    /\ IF held[call[o][k].at] = call[o][k].epoch
       THEN SetCall(o, k, Step(call[o][k], "look", Nothing))
       ELSE SetCall(o, k, Step(call[o][k], "reply", Stale))
    /\ UNCHANGED <<log, machines, leadership, request, answer, faults>>

Return(o, k, reply) == SetCall(o, k, Step(call[o][k], "reply", reply))

\* The operations Machine of r has applied.
Recorded(r, o) == \E n \in 1 .. applied[r] : decided[n] = o

Puts(o) == IF o \in OperationID THEN mutation[o] = "put" ELSE o \in OtherPuts
Deletes(o) == IF o \in OperationID THEN mutation[o] = "delete" ELSE o \in OtherDeletes

\* The first n operations of the list ops leave the subject with the mode: one
\* of them put it and none after that deleted it.
Present(ops, n) == \E m \in 1 .. n : Puts(ops[m]) /\ \A l \in m + 1 .. n : ~Deletes(ops[l])

\* deleteSubjectMode and deleteSubjectConfig look in the machine's state for
\* what the command removes, and answer 404 if it is not there: it was never
\* put, or another operation has deleted it, or this one did.
Look(o, k) ==
    LET r == call[o][k].at
    IN  /\ Running(o, k, "look")
        /\ IF mutation[o] = "delete" /\ ~Present(decided, applied[r])
           THEN Return(o, k, Missing(applied[r]))
           ELSE SetCall(o, k, Step(call[o][k], "command", Nothing))
        /\ UNCHANGED <<log, machines, leadership, request, answer, faults>>

\* The machine knows the result of the operation.
AnswerRecorded(o, k) ==
    /\ Running(o, k, "command")
    /\ \E n \in 1 .. applied[call[o][k].at] : decided[n] = o /\ Return(o, k, Ok(n))
    /\ UNCHANGED <<log, machines, leadership, request, answer, faults>>

\* The command is planned in the machine's state: an import needs the mode.
Allowed(r, o) == mutation[o] = "import" => Present(decided, applied[r])

\* planRegister refuses, whoever is primary: nothing has been asked of the store.
Refuse(o, k) ==
    LET r == call[o][k].at
    IN  /\ Running(o, k, "command")
        /\ ~Recorded(r, o) /\ ~Allowed(r, o)
        /\ Return(o, k, Refused(applied[r]))
        /\ UNCHANGED <<log, machines, leadership, request, answer, faults>>

\* checkLeadership, and a producer that no other one has fenced.
MayWrite(r) == lease[r] # 0 /\ lease[r] = known[r] /\ producer[r] = "ready"

\* Mutant of MayCommit: checkSequence is left out.
MayCommitAnywhere(r) == MayWrite(r) /\ ~torn

\* Store.Commit succeeds: checkSequence finds the machine up to date, and the
\* consumer gets to the transition.
MayCommit(r) == MayWrite(r) /\ applied[r] = Len(decided) /\ ~torn

Commit(o, k) ==
    LET r == call[o][k].at
    IN  /\ Running(o, k, "command")
        /\ ~Recorded(r, o) /\ Allowed(r, o)
        /\ MayCommit(r)
        /\ decided' = Append(decided, o)
        /\ applied' = [applied EXCEPT ![r] = Len(decided) + 1]
        /\ Return(o, k, Ok(Len(decided) + 1))
        /\ UNCHANGED <<mutation, torn, announced, known, producer, unseen, leadership, request, answer, faults>>

\* Mutant of CommitFails: the error is overlooked.
CommitFailsUnnoticed(o, k, executed) ==
    LET r == call[o][k].at
    IN  /\ Running(o, k, "command")
        /\ ~Recorded(r, o) /\ Allowed(r, o)
        /\ IF MayCommit(r) THEN Fault ELSE ~executed /\ UNCHANGED faults
        /\ decided' = IF executed THEN Append(decided, o) ELSE decided
        /\ unseen' = IF executed THEN unseen \cup {r} ELSE unseen
        /\ Return(o, k, Ok(Len(decided) + 1))
        /\ UNCHANGED <<mutation, torn, announced, applied, known, producer, leadership, request, answer>>

\* Commit returns an error, with or without effect; writeDomainError makes it
\* a 500, which a forwarder relays.
CommitFails(o, k, executed) ==
    LET r == call[o][k].at
    IN  /\ Running(o, k, "command")
        /\ ~Recorded(r, o) /\ Allowed(r, o)
        /\ IF MayCommit(r) THEN Fault ELSE ~executed /\ UNCHANGED faults
        /\ decided' = IF executed THEN Append(decided, o) ELSE decided
        /\ unseen' = IF executed THEN unseen \cup {r} ELSE unseen
        /\ Return(o, k, Failed)
        /\ UNCHANGED <<mutation, torn, announced, applied, known, producer, leadership, request, answer>>

\* checkSequence knows what was consumed only, so Commit may write a sequence
\* that an executed transition has.  The bytes are the same if the operation
\* is and no time is in them, as it is in a registration.
Conflicts(r, o) ==
    /\ MayWrite(r) /\ r \in unseen /\ ~torn
    /\ ~Recorded(r, o)
    /\ o = decided[applied[r] + 1] => o \in OperationID /\ mutation[o] = "import"

\* The second transition is committed.  No consumer gets past it, and Commit
\* waits for it in vain.
CommitConflicts(o, k) ==
    LET r == call[o][k].at
    IN  /\ Running(o, k, "command")
        /\ Allowed(r, o)
        /\ Conflicts(r, o)
        /\ torn' = TRUE
        /\ Return(o, k, Failed)
        /\ UNCHANGED <<mutation, decided, announced, machines, leadership, request, answer, faults>>

\* The mutation of another client is served by r.
CommitOther(o, r) ==
    /\ ~Recorded(r, o)
    /\ MayCommit(r)
    /\ decided' = Append(decided, o)
    /\ applied' = [applied EXCEPT ![r] = Len(decided) + 1]
    /\ UNCHANGED <<mutation, torn, announced, known, producer, unseen, leadership, clients, faults>>

\* It conflicts with one that was executed.
OtherConflicts(o, r) ==
    /\ Conflicts(r, o)
    /\ torn' = TRUE
    /\ UNCHANGED <<mutation, decided, announced, machines, leadership, clients, faults>>

\* Nobody waits for the handler: its context ends it, or its answer is lost.
Vanish(o, k) ==
    /\ call[o][k] # NoCall
    /\ ~(request[o].step = "waiting" /\ request[o].slot = k)
    /\ SetCall(o, k, NoCall)
    /\ UNCHANGED <<log, machines, leadership, request, answer, faults>>

-----------------------------------------------------------------------------
(* Machines and leadership.                                                *)

\* Store.Follow and ApplyCommitted.
Follow(r) ==
    /\ applied[r] < Len(decided)
    /\ applied' = [applied EXCEPT ![r] = @ + 1]
    /\ unseen' = unseen \ {r}
    /\ UNCHANGED <<log, known, producer, leadership, clients, faults>>

\* The consumer reads the next announcement.
Hear(r) ==
    /\ known[r] < Len(announced)
    /\ known' = [known EXCEPT ![r] = @ + 1]
    /\ UNCHANGED <<log, applied, producer, unseen, leadership, clients, faults>>

\* The group moves the partition, to a member that knows that it is without it.
Rebalance(r) ==
    /\ group # r /\ ~assigned[r]
    /\ Fault
    /\ group' = r
    /\ UNCHANGED <<log, machines, lease, assigned, acquired, held, clients>>

\* OnPartitionsAssigned.
Assign(r) ==
    /\ group = r /\ ~assigned[r]
    /\ assigned' = [assigned EXCEPT ![r] = TRUE]
    /\ UNCHANGED <<log, machines, lease, group, acquired, held, clients, faults>>

\* OnPartitionsRevoked, OnPartitionsLost.
Revoke(r) ==
    /\ group # r /\ assigned[r]
    /\ assigned' = [assigned EXCEPT ![r] = FALSE]
    /\ held' = [held EXCEPT ![r] = 0]
    /\ UNCHANGED <<log, machines, lease, group, acquired, clients, faults>>

\* Mutant of MayAnnounce: the last holder takes its old announcement for its own.
MayAnnounceAnew(r) ==
    /\ assigned[r] /\ held[r] = 0 /\ acquired[r] = 0
    /\ known[r] = Len(announced) /\ ~torn
    /\ producer[r] # "fenced"
    /\ known[r] # 0 => announced[known[r]] # r

\* Acquire calls activatePrimary, the store catches up, and the producer is not
\* one that was fenced: that one is refused for as long as the process lives.
MayAnnounce(r) ==
    /\ assigned[r] /\ held[r] = 0 /\ acquired[r] = 0
    /\ known[r] = Len(announced) /\ ~torn
    /\ producer[r] # "fenced"

\* initializeProducer: a producer that r initialises fences the others.
InitializeProducer(r) ==
    producer' = IF producer[r] = "ready" THEN producer
                ELSE [q \in Replica |-> IF q = r THEN "ready"
                                       ELSE IF producer[q] = "ready" THEN "fenced" ELSE producer[q]]

\* activatePrimary announces the next epoch and sees it announced.
Activate(r) ==
    /\ MayAnnounce(r)
    /\ InitializeProducer(r)
    /\ announced' = Append(announced, r)
    /\ known' = [known EXCEPT ![r] = Len(announced) + 1]
    /\ lease' = [lease EXCEPT ![r] = Len(announced) + 1]
    /\ acquired' = [acquired EXCEPT ![r] = Len(announced) + 1]
    /\ unseen' = unseen \ {r}
    /\ UNCHANGED <<mutation, decided, torn, applied, group, assigned, held, clients, faults>>

\* activatePrimary returns an error with its producer initialised, and with the
\* epoch announced or not; coordinate calls Acquire again.
ActivateFails(r, executed) ==
    /\ MayAnnounce(r)
    /\ Fault
    /\ InitializeProducer(r)
    /\ announced' = IF executed THEN Append(announced, r) ELSE announced
    /\ unseen' = unseen \ {r}
    /\ UNCHANGED <<mutation, decided, torn, applied, known, leadership, clients>>

\* Acquire keeps the lease if the partition is assigned.
AcquireReturns(r) ==
    /\ acquired[r] # 0
    /\ held' = [held EXCEPT ![r] = IF assigned[r] THEN acquired[r] ELSE @]
    /\ acquired' = [acquired EXCEPT ![r] = 0]
    /\ UNCHANGED <<log, machines, lease, group, assigned, clients, faults>>

\* deactivatePrimary of a lease that was dropped.
Deactivate(r) ==
    /\ lease[r] \notin {0, held[r], acquired[r]}
    /\ lease' = [lease EXCEPT ![r] = 0]
    /\ UNCHANGED <<log, machines, group, assigned, acquired, held, clients, faults>>

\* The process of r ends and another replays the topic in its place, which it
\* cannot do past two transitions of one sequence.
Restart(r) ==
    /\ Fault /\ ~torn
    /\ producer' = [producer EXCEPT ![r] = "new"]
    /\ unseen' = unseen \ {r}
    /\ applied' = [applied EXCEPT ![r] = Len(decided)]
    /\ known' = [known EXCEPT ![r] = Len(announced)]
    /\ lease' = [lease EXCEPT ![r] = 0]
    /\ assigned' = [assigned EXCEPT ![r] = FALSE]
    /\ acquired' = [acquired EXCEPT ![r] = 0]
    /\ held' = [held EXCEPT ![r] = 0]
    /\ call' = [o \in OperationID |-> [k \in Slot |-> IF call[o][k].at = r THEN NoCall ELSE call[o][k]]]
    /\ request' = [o \in OperationID |->
          LET q == request[o]
          IN  IF q.step = "idle" THEN q
              ELSE IF q.at = r THEN ToSend
              ELSE IF q.step = "waiting" /\ call[o][q.slot].at = r THEN WithoutCall(q, call[o][q.slot])
              ELSE q]
    /\ UNCHANGED <<log, group, answer>>

-----------------------------------------------------------------------------
\* Steps of the forwarder that serves a request.
Serve(o) == ServePublic(o) \/ Forward(o) \/ Unavailable(o) \/ Relay(o)

\* Steps of a handler.
Handle(o, k) ==
    \/ Receive(o, k) \/ Look(o, k) \/ AnswerRecorded(o, k) \/ Refuse(o, k)
    \/ Commit(o, k) \/ CommitFails(o, k, FALSE) \/ CommitConflicts(o, k)

\* Steps of the goroutines of a replica, and of its group.
Lead(r) == Assign(r) \/ Revoke(r) \/ Activate(r) \/ AcquireReturns(r) \/ Deactivate(r)

Next ==
    \/ \E o \in OperationID : Serve(o) \/ TimeOut(o) \/ \E r \in Replica : Send(o, r)
    \/ \E o \in OperationID, k \in Slot : Handle(o, k) \/ CommitFails(o, k, TRUE) \/ Vanish(o, k)
    \/ \E r \in Replica : Follow(r) \/ Hear(r) \/ Lead(r) \/ Rebalance(r) \/ Restart(r)
    \/ \E r \in Replica, executed \in BOOLEAN : ActivateFails(r, executed)
    \/ \E r \in Replica, o \in OtherPuts \cup OtherDeletes : CommitOther(o, r) \/ OtherConflicts(o, r)

Spec == Init /\ [][Next]_vars

\* Clients repeat, handlers and goroutines go on, the group tells its members.
Fairness ==
    /\ \A o \in OperationID :
          /\ WF_vars(Serve(o) \/ \E r \in Replica : Send(o, r))
          /\ \A k \in Slot : WF_vars(Handle(o, k) \/ Vanish(o, k))
    /\ \A r \in Replica : WF_vars(Follow(r) \/ Hear(r) \/ Lead(r))

FairSpec == Spec /\ Fairness

-----------------------------------------------------------------------------
\* The shape of the replicas' and the clients' state.
TypeOK ==
    /\ mutation \in [OperationID -> Kinds]
    /\ decided \in Seq(Operation) /\ announced \in Seq(Replica)
    /\ torn \in BOOLEAN
    /\ applied \in [Replica -> 0 .. Len(decided)]
    /\ producer \in [Replica -> {"new", "ready", "fenced"}] /\ unseen \subseteq Replica
    /\ {known, lease, acquired, held} \subseteq [Replica -> 0 .. Len(announced)]
    /\ group \in Replica /\ assigned \in [Replica -> BOOLEAN]
    /\ request \in [OperationID -> Request]
    /\ call \in [OperationID -> [Slot -> Call]]
    /\ answer \in [OperationID -> Reply]
    /\ faults \in 0 .. MaxFaults

\* A mutation takes effect once, however often clients and forwarders send it,
\* to whichever replicas, while earlier calls of it are still running there.
ExecutedOnce ==
    \A m, n \in DOMAIN decided : decided[m] = decided[n] => m = n

\* A reply is true of operation o, by the list ops of the decided ones.  Success
\* names the place of the operation, and an import was allowed in that place.
\* 404 is given to a deletion, after a part of the list that leaves nothing to
\* delete; a refusal to an import, after a part without the mode in which the
\* import has not taken effect.
Truthful(ops, o, reply) ==
    LET n == reply.seq
    IN  /\ reply.code = "ok" =>
              /\ n \in DOMAIN ops /\ ops[n] = o
              /\ mutation[o] = "import" => Present(ops, n - 1)
        /\ reply.code = "missing" =>
              mutation[o] = "delete" /\ n <= Len(ops) /\ ~Present(ops, n)
        /\ reply.code = "refused" =>
              /\ mutation[o] = "import" /\ n <= Len(ops) /\ ~Present(ops, n)
              /\ \A m \in 1 .. n : ops[m] # o

\* The answer a client ends with is true of its own operation and of the order
\* in which all were decided, also when other operations changed what it is
\* about, and the replica that answers is behind or no longer primary.
AnswersAreDecided == \A o \in OperationID : Truthful(decided, o, answer[o])

\* The member that has the partition holds a lease that was superseded: Acquire
\* returns it for as long as the partition stays assigned.
Superseded ==
    \E r \in Replica : group = r /\ held[r] # 0 /\ held[r] # Len(announced)

\* The member that has the partition cannot write: another replica initialised
\* its producer after it, as when the partition goes away and comes back.
FencedMember == \E r \in Replica : group = r /\ producer[r] = "fenced"

\* Every client gets an answer other than 500 once faults have stopped, wherever
\* it sends and whoever was primary, unless the cluster is left with a member
\* whose producer is fenced, or with two transitions of one sequence.
RequestsAreAnswered ==
    \A o \in OperationID : <>(answer[o] # Nothing) \/ <>[]FencedMember \/ <>[]torn

\* After the loss of a primary the cluster comes to have one whose lease is the
\* announced one: the member of the group is not left with a superseded lease.
LeadersReturn == <>[]~Superseded
=============================================================================
