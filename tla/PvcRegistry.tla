----------------------------- MODULE PvcRegistry -----------------------------
(***************************************************************************)
(* One registry process over the bbolt store of internal/storage/bolt: the *)
(* lifecycle of app.Run (open, recover, serve, shut down, or crash at any  *)
(* point), domain.Machine executing commands against the store, and the    *)
(* restore tool initialising an empty database while the process is down.  *)
(*                                                                         *)
(* Machine holds its mutex while it commits, so at most one command is     *)
(* between planning and publication.  A bbolt transaction is atomic but    *)
(* its error is ambiguous: when the final sync fails, the write may show.  *)
(***************************************************************************)
EXTENDS RegistryState

VARIABLES
    transitions,    \* transitionsBucket: sequence -> envelope
    sequence,       \* sequenceKey of metaBucket
    snapshot,       \* snapshotKey of metaBucket, or None
    phase,          \* "down", "recovering", "serving" or "stopping"
    machine,        \* Machine.state, or the state under recovery
    inflight,       \* the envelope of the command that holds the mutex, or None
    written,        \* its transaction returned without error
    captured,       \* the snapshot shutdown is about to save, or None
    lastErr,        \* Store.lastErr is set
    history,        \* every durable state, by sequence
    acked           \* [op, result] pairs answered to clients

disk == <<transitions, sequence, snapshot>>
process == <<phase, machine, inflight, written, captured, lastErr>>
vars == <<disk, process, history, acked>>

Durable == history[sequence]

Init ==
    /\ transitions = [n \in {} |-> None]
    /\ sequence = 0
    /\ snapshot = None
    /\ phase = "down"
    /\ machine = NewState
    /\ inflight = None
    /\ written = FALSE
    /\ captured = None
    /\ lastErr = FALSE
    /\ history = [n \in {0} |-> NewState]
    /\ acked = {}

\* f with the pair n |-> v added.
Extend(f, n, v) == [m \in DOMAIN f \cup {n} |-> IF m = n THEN v ELSE f[m]]

-----------------------------------------------------------------------------
(* Start-up: Open, LoadSnapshot, Replay.                                   *)

Open ==
    /\ phase = "down"
    /\ snapshot # None => Valid(snapshot)
    /\ phase' = "recovering"
    /\ machine' = IF snapshot = None THEN NewState ELSE snapshot
    /\ lastErr' = FALSE
    /\ UNCHANGED <<disk, inflight, written, captured, history, acked>>

\* The transitions Replay has yet to hand to recoverState.
Remaining == {n \in DOMAIN transitions : n > machine.Sequence}

Replay ==
    /\ phase = "recovering"
    /\ machine.Sequence + 1 \in Remaining
    /\ Applies(machine, transitions[machine.Sequence + 1])
    /\ machine' = Apply(machine, transitions[machine.Sequence + 1])
    /\ UNCHANGED <<disk, phase, inflight, written, captured, lastErr, history, acked>>

Serve ==
    /\ phase = "recovering"
    /\ Remaining = {}
    /\ phase' = "serving"
    /\ UNCHANGED <<disk, machine, inflight, written, captured, lastErr, history, acked>>

-----------------------------------------------------------------------------
(* Commands.  Shutdown does not wait for a request that arrives on a       *)
(* connection it is closing, so a handler may still run until Exit.        *)

Running == phase \in {"serving", "stopping"}

\* A command is planned and its next state validated.
Begin(e) ==
    /\ Running
    /\ inflight = None
    /\ machine.Sequence < MaxSequence
    /\ Applies(machine, e)
    /\ inflight' = e
    /\ written' = FALSE
    /\ UNCHANGED <<disk, phase, machine, captured, lastErr, history, acked>>

Committing == Running /\ inflight # None /\ ~written

\* Mutant of AppendTransition: the sequence key is not updated.
AppendUnsequenced(ok) ==
    /\ Committing
    /\ inflight.Sequence = sequence + 1
    /\ transitions' = Extend(transitions, inflight.Sequence, inflight)
    /\ history' = Extend(history, inflight.Sequence, Apply(machine, inflight))
    /\ IF ok THEN written' = TRUE /\ UNCHANGED <<inflight, lastErr>>
             ELSE inflight' = None /\ lastErr' = TRUE /\ UNCHANGED written
    /\ UNCHANGED <<sequence, snapshot, phase, machine, captured, acked>>

\* Mutant of AppendTransition: the stored sequence is not compared.
AppendAnySequence(ok) ==
    /\ Committing
    /\ transitions' = Extend(transitions, inflight.Sequence, inflight)
    /\ sequence' = inflight.Sequence
    /\ history' = Extend(history, inflight.Sequence, Apply(machine, inflight))
    /\ IF ok THEN written' = TRUE /\ UNCHANGED <<inflight, lastErr>>
             ELSE inflight' = None /\ lastErr' = TRUE /\ UNCHANGED written
    /\ UNCHANGED <<snapshot, phase, machine, captured, acked>>

\* Mutant of AppendTransition: the error of the sync is not recorded.
AppendSilently(ok) ==
    /\ Committing
    /\ inflight.Sequence = sequence + 1
    /\ transitions' = Extend(transitions, inflight.Sequence, inflight)
    /\ sequence' = inflight.Sequence
    /\ history' = Extend(history, inflight.Sequence, Apply(machine, inflight))
    /\ IF ok THEN written' = TRUE /\ UNCHANGED inflight
             ELSE inflight' = None /\ UNCHANGED written
    /\ UNCHANGED <<snapshot, phase, machine, captured, lastErr, acked>>

\* The transaction of Store.Commit appends the next transition.  ok is what
\* it returns: the error of a failed sync leaves the write in the file.
AppendTransition(ok) ==
    /\ Committing
    /\ inflight.Sequence = sequence + 1
    /\ transitions' = Extend(transitions, inflight.Sequence, inflight)
    /\ sequence' = inflight.Sequence
    /\ history' = Extend(history, inflight.Sequence, Apply(machine, inflight))
    /\ IF ok THEN written' = TRUE /\ UNCHANGED <<inflight, lastErr>>
             ELSE inflight' = None /\ lastErr' = TRUE /\ UNCHANGED written
    /\ UNCHANGED <<snapshot, phase, machine, captured, acked>>

\* The sequence is stored with the same bytes: the retry is idempotent.
CommitAgain ==
    /\ Committing
    /\ inflight.Sequence <= sequence
    /\ inflight.OperationID # NoOperation
    /\ inflight.Sequence \in DOMAIN transitions
    /\ transitions[inflight.Sequence] = inflight
    /\ written' = TRUE
    /\ UNCHANGED <<disk, phase, machine, inflight, captured, lastErr, history, acked>>

\* Mutant of Conflict: a stored sequence counts as a retry whatever its bytes.
ConflictAccepted ==
    /\ Committing
    /\ inflight.Sequence <= sequence
    /\ written' = TRUE
    /\ UNCHANGED <<disk, phase, machine, inflight, captured, lastErr, history, acked>>

\* The sequence is stored with other bytes, or is part of a restored snapshot.
\* A registration carries the time of its request and a request without an
\* X-Request-ID gets a random one, so planning them again gives other bytes.
Conflict ==
    /\ Committing
    /\ inflight.Sequence <= sequence
    /\ inflight.Sequence \in DOMAIN transitions =>
          \/ transitions[inflight.Sequence] # inflight
          \/ inflight.Kind = "schema_registered"
          \/ inflight.OperationID = NoOperation
    /\ inflight' = None
    /\ lastErr' = TRUE
    /\ UNCHANGED <<disk, phase, machine, written, captured, history, acked>>

\* The transaction is not executed: the request's context is cancelled, which
\* Health does not report, or bbolt fails cleanly, which it does.
CommitFails(reported) ==
    /\ Committing
    /\ inflight' = None
    /\ lastErr' = (lastErr \/ reported)
    /\ UNCHANGED <<disk, phase, machine, written, captured, history, acked>>

\* Mutant of Publish: the state is published before the commit returns.
PublishEarly ==
    /\ Running
    /\ inflight # None
    /\ machine' = Apply(machine, inflight)
    /\ inflight' = None
    /\ written' = FALSE
    /\ acked' = acked \cup {[op |-> inflight.OperationID, result |-> inflight.Result]}
    /\ UNCHANGED <<disk, phase, captured, lastErr, history>>

\* commitApply publishes the state and the client gets its result.
Publish ==
    /\ Running
    /\ inflight # None /\ written
    /\ machine' = Apply(machine, inflight)
    /\ inflight' = None
    /\ written' = FALSE
    /\ acked' = acked \cup {[op |-> inflight.OperationID, result |-> inflight.Result]}
    /\ UNCHANGED <<disk, phase, captured, lastErr, history>>

\* A retry of a recorded operation is answered from Operations.
AnswerRetry(o) ==
    /\ Running
    /\ inflight = None
    /\ IsRecorded(machine, o)
    /\ acked' = acked \cup {[op |-> o, result |-> machine.Operations[o]]}
    /\ UNCHANGED <<disk, process, history>>

-----------------------------------------------------------------------------
(* Shutdown, crash, restore.                                               *)

Stop ==
    /\ phase = "serving"
    /\ phase' = "stopping"
    /\ UNCHANGED <<disk, machine, inflight, written, captured, lastErr, history, acked>>

\* Machine.State waits for the mutex.
Capture ==
    /\ phase = "stopping"
    /\ captured = None
    /\ inflight = None
    /\ captured' = machine
    /\ UNCHANGED <<disk, phase, machine, inflight, written, lastErr, history, acked>>

\* Mutant of SaveSnapshot: the transitions are truncated with the snapshot,
\* those after it too.
SaveSnapshotTruncating ==
    /\ phase = "stopping"
    /\ captured # None
    /\ Valid(captured)
    /\ captured.Sequence <= sequence
    /\ snapshot' = captured
    /\ transitions' = [n \in {} |-> None]
    /\ UNCHANGED <<sequence, process, history, acked>>

SaveSnapshot ==
    /\ phase = "stopping"
    /\ captured # None
    /\ Valid(captured)
    /\ captured.Sequence <= sequence
    /\ snapshot' = captured
    /\ UNCHANGED <<transitions, sequence, process, history, acked>>

\* The process ends, by Close or by a crash: what is not on disk is lost.
Exit ==
    /\ phase # "down"
    /\ phase' = "down"
    /\ machine' = NewState
    /\ inflight' = None
    /\ written' = FALSE
    /\ captured' = None
    /\ lastErr' = FALSE
    /\ UNCHANGED <<disk, history, acked>>

\* RestoreSnapshot accepts an empty database only.
RestoreSnapshot(b) ==
    /\ phase = "down"
    /\ Valid(b)
    /\ sequence = 0 /\ DOMAIN transitions = {} /\ snapshot = None
    /\ snapshot' = b
    /\ sequence' = b.Sequence
    /\ history' = [n \in {b.Sequence} |-> b]
    /\ UNCHANGED <<transitions, process, acked>>

\* One of the ways Store.Commit ends.
CommitStep ==
    \/ \E ok \in BOOLEAN : AppendTransition(ok)
    \/ CommitAgain
    \/ Conflict
    \/ \E reported \in BOOLEAN : CommitFails(reported)

Next ==
    \/ Open \/ Replay \/ Serve
    \/ \E e \in Plans(machine) : Begin(e)
    \/ CommitStep
    \/ Publish
    \/ \E o \in OperationID : AnswerRetry(o)
    \/ Stop \/ Capture \/ SaveSnapshot \/ Exit
    \/ \E b \in Backups : RestoreSnapshot(b)

Spec == Init /\ [][Next]_vars

\* The process is restarted when it is down and a goroutine goes on with what
\* it has begun.  A client that saw no answer keeps repeating its request.
Fairness ==
    /\ WF_vars(Open) /\ WF_vars(Replay) /\ WF_vars(Serve)
    /\ WF_vars(CommitStep) /\ WF_vars(Publish)
    /\ \A o \in OperationID : SF_vars(AnswerRetry(o))

FairSpec == Spec /\ Fairness

-----------------------------------------------------------------------------
(* Properties.                                                             *)

\* The shape of the store and of the process.
TypeOK ==
    /\ sequence \in Nat
    /\ DOMAIN transitions \subseteq 1 .. sequence
    /\ sequence \in DOMAIN history
    /\ \A n \in DOMAIN history : history[n] \in Snapshot
    /\ snapshot \in Snapshot \cup {None}
    /\ captured \in Snapshot \cup {None}
    /\ machine \in Snapshot
    /\ phase \in {"down", "recovering", "serving", "stopping"}
    /\ written \in BOOLEAN /\ lastErr \in BOOLEAN
    /\ acked \subseteq [op : Operation, result : Result]

R == INSTANCE Registry WITH state <- Durable

\* What the file holds changes as the registry a client was promised: every
\* commit, failed sync, crash, recovery and restore is one step of Registry or
\* leaves the durable registry alone.
ImplementsRegistry == R!Spec

\* A result answered to a client is in the durable registry from then on: no
\* crash between commit and publication, failed sync, snapshot or recovery
\* loses it or answers the operation differently.
AckedIsDurable ==
    \A r \in acked : r.op # NoOperation => Durable.Operations[r.op] = r.result

\* Readers never see a transition that is not durable, and always see one of
\* the states the registry went through.
PublishedIsDurable ==
    phase # "down" => /\ machine.Sequence \in DOMAIN history
                      /\ machine.Sequence <= sequence
                      /\ machine = history[machine.Sequence]

\* Whatever the process was doing when it ended, the next recovery reads the
\* file without a corruption or gap error and ends with the durable registry.
RecoveryCompletes ==
    /\ snapshot # None => Valid(snapshot)
    /\ phase = "recovering" =>
          IF Remaining = {} THEN machine = Durable
          ELSE /\ machine.Sequence + 1 \in Remaining
               /\ Applies(machine, transitions[machine.Sequence + 1])

\* An operation takes effect at most once, however often it is repeated and
\* whichever of its attempts failed, crashed or answered late.
ExecutedOnce ==
    \A m, n \in DOMAIN transitions :
        m # n /\ transitions[m].OperationID = transitions[n].OperationID
            => transitions[m].OperationID = NoOperation

\* A machine that is behind its store, and so refuses every further write,
\* is never reported healthy.
StallIsReported ==
    Running /\ inflight = None /\ machine.Sequence < sequence => lastErr

\* Once the process stops crashing, a client that repeats an operation the
\* file holds gets its result, unless the store reports itself unhealthy.
RetriesAreAnswered ==
    <>[][~Exit]_vars =>
        \A o \in OperationID :
            Durable.Operations[o] # None
                ~> (lastErr \/ \E r \in acked : r.op = o)
=============================================================================
