------------------------------ MODULE PvcProofs ------------------------------
(***************************************************************************)
(* Proofs about PvcRegistry: the file, the snapshot and the process agree  *)
(* on one history of the registry, and that history is a Registry.         *)
(***************************************************************************)
EXTENDS PvcRegistry, RegistryStateProofs

-----------------------------------------------------------------------------
(* The inductive invariant.                                                *)

\* transitions[n] was planned in history[n-1] and led to history[n].
LogStep(n) ==
    /\ n \in Nat /\ n - 1 \in DOMAIN history /\ n \in DOMAIN history
    /\ Planned(history[n - 1], transitions[n])
    /\ Applies(history[n - 1], transitions[n])
    /\ transitions[n].Result # None
    /\ history[n] = Apply(history[n - 1], transitions[n])

\* The log leads from the oldest state of the history to the durable one.
LogIsHistory ==
    /\ sequence \in Nat
    /\ sequence \in DOMAIN history
    /\ \A n \in DOMAIN history : /\ n \in 0 .. sequence
                                 /\ WellFormed(history[n])
                                 /\ history[n].Sequence = n
    /\ \A n \in DOMAIN history : n < sequence => n + 1 \in DOMAIN transitions
    /\ \A n \in DOMAIN transitions : LogStep(n)

\* A result, once recorded, is in every later state of the history.
ResultsStay ==
    \A m, n \in DOMAIN history : m <= n =>
        \A o \in OperationID : history[m].Operations[o] # None =>
            history[n].Operations[o] = history[m].Operations[o]

InHistory(st) == st.Sequence \in DOMAIN history /\ st = history[st.Sequence]

SnapshotOK ==
    IF snapshot = None THEN 0 \in DOMAIN history /\ history[0] = NewState
    ELSE InHistory(snapshot)

CapturedOK == captured # None => InHistory(captured) /\ phase = "stopping"

\* The machine is at most one transition behind the file while it serves.
MachineOK ==
    /\ phase \in {"down", "recovering", "serving", "stopping"}
    /\ phase # "down" => InHistory(machine)
    /\ Running => machine.Sequence >= sequence - 1

\* The command that holds the mutex was planned in the machine's state, and
\* what its transaction wrote is the durable state.
InflightOK ==
    /\ written \in BOOLEAN
    /\ inflight # None =>
          /\ Running
          /\ inflight \in Plans(machine)
          /\ Applies(machine, inflight)
          /\ machine.Sequence < MaxSequence
          /\ written => inflight.Sequence = sequence /\ history[sequence] = Apply(machine, inflight)

\* Answered operations are recorded in the durable state.
AckedOK ==
    \A r \in acked : r.op # NoOperation =>
        /\ r.op \in OperationID
        /\ r.result # None
        /\ Durable.Operations[r.op] = r.result

\* A machine behind the file has seen its commit fail.
StallOK ==
    /\ lastErr \in BOOLEAN
    /\ Running /\ machine.Sequence < sequence /\ ~(inflight # None /\ written) => lastErr

PvcInv ==
    /\ LogIsHistory
    /\ ResultsStay
    /\ SnapshotOK
    /\ CapturedOK
    /\ MachineOK
    /\ InflightOK
    /\ AckedOK
    /\ StallOK


-----------------------------------------------------------------------------
(* The invariant holds initially and every action preserves it.            *)

\* A fresh database file and a process that is down satisfy the invariant.
LEMMA InitInv == Init => PvcInv
<1> SUFFICES ASSUME Init PROVE PvcInv
  OBVIOUS
<1>1. WellFormed(NewState) /\ NewState.Sequence = 0
  BY NewStateWellFormed DEF NewState
<1>2. LogIsHistory
  BY <1>1 DEF Init, LogIsHistory
<1>3. ResultsStay
  BY DEF Init, ResultsStay
<1>4. SnapshotOK /\ CapturedOK /\ MachineOK /\ InflightOK /\ AckedOK /\ StallOK
  BY DEF Init, SnapshotOK, CapturedOK, MachineOK, InflightOK, AckedOK, StallOK, Running
<1> QED
  BY <1>2, <1>3, <1>4 DEF PvcInv

\* A machine that is not behind the file holds the durable state.
LEMMA CaughtUp ==
  ASSUME PvcInv, phase # "down", machine.Sequence >= sequence
  PROVE  machine = Durable /\ machine.Sequence = sequence
BY DEF PvcInv, MachineOK, InHistory, LogIsHistory, Durable

\* The state of a running machine is well formed.
LEMMA MachineWellFormed ==
  ASSUME PvcInv, phase # "down"
  PROVE  WellFormed(machine) /\ machine.Sequence \in 0 .. sequence
BY DEF PvcInv, MachineOK, InHistory, LogIsHistory

\* Appending the transition of the running command extends the history.
LEMMA AppendExtends ==
  ASSUME PvcInv, NEW ok \in BOOLEAN, AppendTransition(ok)
  PROVE  /\ LogIsHistory' /\ ResultsStay'
         /\ machine = Durable /\ machine.Sequence = sequence
         /\ inflight.Sequence = sequence + 1 /\ sequence' = sequence + 1
         /\ Durable' = Apply(machine, inflight)
         /\ DOMAIN history \subseteq DOMAIN history'
         /\ \A n \in DOMAIN history : history'[n] = history[n]
         /\ \A o \in OperationID : Durable.Operations[o] # None =>
               Durable'.Operations[o] = Durable.Operations[o]
<1> DEFINE e == inflight
           k == sequence + 1
           st == Apply(machine, e)
<1>1. /\ Running /\ e # None /\ e.Sequence = k /\ sequence' = k
      /\ transitions' = Extend(transitions, k, e)
      /\ history' = Extend(history, k, st)
  BY DEF AppendTransition, Committing
<1>2. WellFormed(machine) /\ e \in Plans(machine) /\ Applies(machine, e)
  BY <1>1, MachineWellFormed DEF PvcInv, InflightOK, Running
<1>3. Planned(machine, e) /\ WellFormed(st) /\ e.Result \in Result
  BY <1>2, PlansAreSafe
<1>4. sequence \in Nat /\ machine.Sequence \in Nat
  BY <1>1, MachineWellFormed DEF PvcInv, LogIsHistory, Running
<1>5. machine.Sequence = sequence
  BY <1>1, <1>3, <1>4 DEF Planned
<1>6. machine = Durable
  BY <1>1, <1>4, <1>5, CaughtUp DEF Running
<1>7. st.Sequence = k
  BY <1>1 DEF Apply
<1> HIDE DEF e, st
<1>8. /\ DOMAIN history' = DOMAIN history \cup {k} /\ history'[k] = st
      /\ \A n \in DOMAIN history : n # k /\ history'[n] = history[n]
  BY <1>1, <1>4 DEF Extend, PvcInv, LogIsHistory
<1>9. /\ DOMAIN transitions' = DOMAIN transitions \cup {k} /\ transitions'[k] = e
      /\ \A n \in DOMAIN transitions : n # k /\ transitions'[n] = transitions[n]
  BY <1>1, <1>4 DEF Extend, PvcInv, LogIsHistory, LogStep
<1>10. LogIsHistory'
  <2>1. k \in Nat /\ k - 1 = sequence /\ e.Result # None
    BY <1>3, <1>4, NoneAssumption
  <2>2. LogStep(sequence)'
    BY <1>1, <1>2, <1>3, <1>6, <1>8, <1>9, <2>1 DEF LogStep, Durable, PvcInv, LogIsHistory, st
  <2>3. ASSUME NEW n \in DOMAIN transitions
        PROVE  LogStep(n)'
    BY <1>8, <1>9 DEF LogStep, PvcInv, LogIsHistory
  <2>4. \A n \in DOMAIN history' : n \in 0 .. k /\ WellFormed(history'[n]) /\ history'[n].Sequence = n
    BY <1>3, <1>4, <1>7, <1>8 DEF PvcInv, LogIsHistory
  <2>5. \A n \in DOMAIN history' : n < k => n + 1 \in DOMAIN transitions'
    BY <1>4, <1>8, <1>9 DEF PvcInv, LogIsHistory
  <2> QED
    BY <1>1, <1>8, <1>9, <2>1, <2>2, <2>3, <2>4, <2>5 DEF LogIsHistory
<1>11. \A o \in OperationID : Durable.Operations[o] # None => st.Operations[o] = Durable.Operations[o]
  BY <1>2, <1>3, <1>6, ResultsKept DEF st, WellFormed
<1>12. ResultsStay'
  <2> SUFFICES ASSUME NEW m \in DOMAIN history', NEW n \in DOMAIN history', m <= n,
                      NEW o \in OperationID, history'[m].Operations[o] # None
               PROVE  history'[n].Operations[o] = history'[m].Operations[o]
    BY DEF ResultsStay
  <2>1. CASE n \in DOMAIN history
    <3>1. m \in DOMAIN history
      BY <1>4, <1>8, <2>1 DEF PvcInv, LogIsHistory
    <3> QED
      BY <1>8, <2>1, <3>1 DEF PvcInv, ResultsStay
  <2>2. CASE n = k /\ m \in DOMAIN history
    <3>1. m <= sequence /\ sequence \in DOMAIN history
      BY <2>2 DEF PvcInv, LogIsHistory
    <3>2. Durable.Operations[o] = history[m].Operations[o]
      BY <1>8, <2>2, <3>1 DEF PvcInv, ResultsStay, Durable
    <3> QED
      BY <1>8, <1>11, <2>2, <3>2
  <2> QED
    BY <1>8, <2>1, <2>2
<1> QED
  BY <1>1, <1>4, <1>5, <1>6, <1>8, <1>10, <1>11, <1>12 DEF Durable, e, st

\* A failed or successful append preserves the invariant.
LEMMA AppendInv ==
  ASSUME PvcInv, NEW ok \in BOOLEAN, AppendTransition(ok)
  PROVE  PvcInv'
<1>1. /\ LogIsHistory' /\ ResultsStay'
      /\ machine = Durable /\ machine.Sequence = sequence
      /\ inflight.Sequence = sequence + 1 /\ sequence' = sequence + 1
      /\ Durable' = Apply(machine, inflight)
      /\ DOMAIN history \subseteq DOMAIN history'
      /\ \A n \in DOMAIN history : history'[n] = history[n]
      /\ \A o \in OperationID : Durable.Operations[o] # None =>
            Durable'.Operations[o] = Durable.Operations[o]
  BY AppendExtends
<1>2. sequence \in Nat
  BY DEF PvcInv, LogIsHistory
<1>3. /\ UNCHANGED <<snapshot, phase, machine, captured, acked>>
      /\ Running /\ inflight # None /\ ~written
      /\ IF ok THEN written' = TRUE /\ inflight' = inflight /\ lastErr' = lastErr
               ELSE inflight' = None /\ lastErr' = TRUE /\ written' = written
  BY DEF AppendTransition, Committing
<1>4. SnapshotOK' /\ CapturedOK'
  BY <1>1, <1>3 DEF PvcInv, SnapshotOK, CapturedOK, InHistory
<1>5. MachineOK'
  BY <1>1, <1>2, <1>3 DEF PvcInv, MachineOK, InHistory, Running
<1>6. InflightOK'
  BY <1>1, <1>3 DEF PvcInv, InflightOK, Running, Durable
<1>7. AckedOK'
  BY <1>1, <1>3 DEF PvcInv, AckedOK
<1>8. StallOK'
  BY <1>1, <1>3 DEF PvcInv, StallOK, Running
<1> QED
  BY <1>1, <1>4, <1>5, <1>6, <1>7, <1>8 DEF PvcInv

\* What an action that leaves the log alone has to preserve.
LEMMA SameLog ==
  ASSUME PvcInv, UNCHANGED <<transitions, sequence, history>>
  PROVE  LogIsHistory' /\ ResultsStay'
         /\ (acked' = acked => AckedOK')
         /\ (snapshot' = snapshot => SnapshotOK')
<1>1. LogIsHistory'
  BY DEF PvcInv, LogIsHistory, LogStep
<1>2. ResultsStay'
  BY DEF PvcInv, ResultsStay
<1> QED
  BY <1>1, <1>2 DEF PvcInv, AckedOK, Durable, SnapshotOK, InHistory

\* Start-up preserves the invariant.
LEMMA StartInv ==
  ASSUME PvcInv, Open \/ Replay \/ Serve
  PROVE  PvcInv'
<1>1. UNCHANGED <<disk, inflight, written, captured, history, acked>>
  BY DEF Open, Replay, Serve
<1>2. LogIsHistory' /\ ResultsStay' /\ AckedOK' /\ SnapshotOK'
  BY <1>1, SameLog DEF disk
<1>3. ~Running /\ inflight = None /\ captured = None
  BY DEF PvcInv, InflightOK, CapturedOK, Open, Replay, Serve, Running
<1>4. CapturedOK' /\ InflightOK'
  BY <1>1, <1>3 DEF CapturedOK, InflightOK, PvcInv
<1>5. CASE Open
  <2>1. phase' = "recovering" /\ machine' = (IF snapshot = None THEN NewState ELSE snapshot)
        /\ lastErr' = FALSE
    BY <1>5 DEF Open
  <2>2. InHistory(machine)'
    BY <1>1, <2>1 DEF PvcInv, SnapshotOK, InHistory, NewState
  <2>3. MachineOK' /\ StallOK'
    BY <2>1, <2>2 DEF MachineOK, StallOK, Running
  <2> QED
    BY <1>2, <1>4, <2>3 DEF PvcInv
<1>6. CASE Replay
  <2> DEFINE n == machine.Sequence + 1
  <2>1. /\ phase = "recovering" /\ phase' = phase /\ lastErr' = lastErr
        /\ n \in DOMAIN transitions
        /\ machine' = Apply(machine, transitions[n])
    BY <1>6 DEF Replay, Remaining
  <2>2. LogStep(n) /\ InHistory(machine) /\ machine.Sequence \in Nat
    BY <2>1, MachineWellFormed DEF PvcInv, LogIsHistory, MachineOK
  <2>3. machine' = history[n] /\ history[n].Sequence = n /\ n \in DOMAIN history
    BY <2>1, <2>2 DEF LogStep, InHistory, PvcInv, LogIsHistory
  <2>4. MachineOK' /\ StallOK'
    BY <1>1, <2>1, <2>3 DEF PvcInv, MachineOK, StallOK, Running, InHistory
  <2> QED
    BY <1>2, <1>4, <2>4 DEF PvcInv
<1>7. CASE Serve
  <2>1. phase = "recovering" /\ phase' = "serving" /\ machine' = machine /\ lastErr' = lastErr
        /\ Remaining = {}
    BY <1>7 DEF Serve
  <2>2. InHistory(machine) /\ machine.Sequence \in 0 .. sequence /\ sequence \in Nat
    BY <2>1, MachineWellFormed DEF PvcInv, LogIsHistory, MachineOK
  <2>3. machine.Sequence = sequence
    <3> SUFFICES ASSUME machine.Sequence < sequence PROVE FALSE
      BY <2>2
    <3>1. machine.Sequence + 1 \in DOMAIN transitions
      BY <2>2 DEF PvcInv, LogIsHistory, InHistory
    <3> QED
      BY <2>1, <2>2, <3>1 DEF Remaining
  <2>4. MachineOK' /\ StallOK'
    BY <1>1, <2>1, <2>2, <2>3 DEF PvcInv, MachineOK, StallOK, Running, InHistory, disk
  <2> QED
    BY <1>2, <1>4, <2>4 DEF PvcInv
<1> QED
  BY <1>5, <1>6, <1>7

\* Planning a command and the commits that write nothing preserve it.
LEMMA CommitInv ==
  ASSUME PvcInv,
         \/ \E e \in Plans(machine) : Begin(e)
         \/ CommitAgain \/ Conflict \/ \E reported \in BOOLEAN : CommitFails(reported)
  PROVE  PvcInv'
<1>1. UNCHANGED <<disk, phase, machine, captured, history, acked>> /\ Running
  BY DEF Begin, CommitAgain, Conflict, CommitFails, Committing
<1>2. LogIsHistory' /\ ResultsStay' /\ AckedOK' /\ SnapshotOK'
  BY <1>1, SameLog DEF disk
<1>3. CapturedOK' /\ MachineOK'
  BY <1>1 DEF PvcInv, CapturedOK, MachineOK, InHistory, Running, disk
<1>4. ASSUME NEW e \in Plans(machine), Begin(e)
      PROVE  InflightOK' /\ StallOK'
  BY <1>1, <1>4 DEF Begin, PvcInv, InflightOK, StallOK, Running, disk
<1>5. ASSUME Conflict \/ \E reported \in BOOLEAN : CommitFails(reported)
      PROVE  InflightOK' /\ StallOK'
  <2>1. inflight' = None /\ written' = written /\ ~written /\ lastErr' \in BOOLEAN /\ (lastErr => lastErr')
    BY <1>5 DEF Conflict, CommitFails, Committing, PvcInv, StallOK
  <2> QED
    BY <1>1, <2>1 DEF PvcInv, InflightOK, StallOK, Running, disk
<1>6. ASSUME CommitAgain
      PROVE  InflightOK' /\ StallOK'
  <2>1. /\ inflight # None /\ ~written /\ inflight.Sequence <= sequence
        /\ inflight.Sequence \in DOMAIN transitions
        /\ transitions[inflight.Sequence] = inflight
        /\ written' = TRUE /\ inflight' = inflight /\ lastErr' = lastErr
    BY <1>6 DEF CommitAgain, Committing
  <2>2. Applies(machine, inflight) /\ InHistory(machine) /\ sequence \in Nat
        /\ machine.Sequence \in Nat /\ machine.Sequence >= sequence - 1
    BY <1>1, <2>1, MachineWellFormed DEF PvcInv, InflightOK, MachineOK, LogIsHistory, Running
  <2>3. inflight.Sequence = machine.Sequence + 1 /\ inflight.Sequence = sequence
    BY <2>1, <2>2 DEF Applies
  <2>4. LogStep(sequence)
    BY <2>1, <2>3 DEF PvcInv, LogIsHistory
  <2>5. history[sequence] = Apply(machine, inflight)
    BY <2>1, <2>2, <2>3, <2>4 DEF LogStep, InHistory
  <2>6. InflightOK' /\ StallOK'
    BY <1>1, <2>1, <2>3, <2>5 DEF PvcInv, InflightOK, StallOK, Running, disk
  <2> QED
    BY <2>6
<1>7. InflightOK' /\ StallOK'
  BY <1>4, <1>5, <1>6
<1> QED
  BY <1>2, <1>3, <1>7 DEF PvcInv

\* Publishing and answering a retry preserve it.
LEMMA AnswerInv ==
  ASSUME PvcInv, Publish \/ \E o \in OperationID : AnswerRetry(o)
  PROVE  PvcInv'
<1>1. UNCHANGED <<disk, phase, captured, lastErr, history>> /\ Running
  BY DEF Publish, AnswerRetry, process
<1>2. LogIsHistory' /\ ResultsStay' /\ SnapshotOK'
  BY <1>1, SameLog DEF disk
<1>3. CapturedOK'
  BY <1>1 DEF PvcInv, CapturedOK, InHistory, disk
<1>4. WellFormed(machine) /\ machine.Sequence \in 0 .. sequence /\ sequence \in Nat
  BY <1>1, MachineWellFormed DEF Running, PvcInv, LogIsHistory
<1>5. CASE Publish
  <2>1. /\ inflight # None /\ written
        /\ machine' = Apply(machine, inflight) /\ inflight' = None /\ written' = FALSE
        /\ acked' = acked \cup {[op |-> inflight.OperationID, result |-> inflight.Result]}
    BY <1>5 DEF Publish
  <2>2. /\ inflight \in Plans(machine) /\ Applies(machine, inflight)
        /\ inflight.Sequence = sequence /\ Durable = Apply(machine, inflight)
    BY <2>1 DEF PvcInv, InflightOK, Durable
  <2>3. Planned(machine, inflight) /\ inflight.Result \in Result /\ machine \in Snapshot
    BY <1>4, <2>2, PlansAreSafe DEF WellFormed
  <2>4. inflight.OperationID # NoOperation =>
          /\ inflight.OperationID \in OperationID /\ inflight.Result # None
          /\ Durable.Operations[inflight.OperationID] = inflight.Result
    BY <2>2, <2>3, ResultsKept, NoneAssumption DEF Planned, Operation
  <2>5. AckedOK'
    BY <1>1, <2>1, <2>4 DEF PvcInv, AckedOK, Durable, disk
  <2>6. machine' = history[sequence] /\ machine'.Sequence = sequence /\ sequence \in DOMAIN history
    BY <2>1, <2>2 DEF Durable, PvcInv, LogIsHistory
  <2>7. MachineOK'
    <3>1. InHistory(machine)'
      BY <1>1, <2>6 DEF InHistory, disk
    <3>2. sequence' = sequence /\ phase' = phase
      BY <1>1 DEF disk
    <3> QED
      BY <1>4, <2>6, <3>1, <3>2 DEF PvcInv, MachineOK, Running
  <2>8. InflightOK' /\ StallOK'
    <3>1. InflightOK'
      BY <2>1 DEF InflightOK
    <3>2. ~(machine'.Sequence < sequence') /\ lastErr' \in BOOLEAN
      BY <1>1, <1>4, <2>6 DEF disk, PvcInv, StallOK
    <3> QED
      BY <3>1, <3>2 DEF StallOK
  <2> QED
    BY <1>2, <1>3, <2>5, <2>7, <2>8 DEF PvcInv
<1>6. ASSUME NEW o \in OperationID, AnswerRetry(o)
      PROVE  PvcInv'
  <2>1. /\ machine.Operations[o] # None /\ UNCHANGED <<disk, process, history>>
        /\ acked' = acked \cup {[op |-> o, result |-> machine.Operations[o]]}
    BY <1>6 DEF AnswerRetry, IsRecorded
  <2>2. InHistory(machine) /\ sequence \in DOMAIN history
    BY <1>1 DEF PvcInv, MachineOK, LogIsHistory, Running
  <2>3. Durable.Operations[o] = machine.Operations[o]
    BY <1>4, <2>1, <2>2 DEF PvcInv, ResultsStay, InHistory, Durable
  <2>4. AckedOK'
    BY <2>1, <2>3 DEF PvcInv, AckedOK, Durable, disk
  <2>5. MachineOK' /\ InflightOK' /\ StallOK'
    BY <2>1 DEF PvcInv, MachineOK, InflightOK, StallOK, InHistory, Running, disk, process
  <2> QED
    BY <1>2, <1>3, <2>4, <2>5 DEF PvcInv
<1> QED
  BY <1>5, <1>6

\* Shutdown, its snapshot and the end of the process preserve it.
LEMMA StopInv ==
  ASSUME PvcInv, Stop \/ Capture \/ SaveSnapshot \/ Exit
  PROVE  PvcInv'
<1>1. UNCHANGED <<transitions, sequence, history, acked>>
  BY DEF Stop, Capture, SaveSnapshot, Exit, disk
<1>2. LogIsHistory' /\ ResultsStay' /\ AckedOK'
  BY <1>1, SameLog
<1>3. SnapshotOK'
  BY <1>1 DEF PvcInv, SnapshotOK, CapturedOK, InHistory, Stop, Capture, SaveSnapshot, Exit, disk
<1>4. CapturedOK'
  BY <1>1 DEF PvcInv, CapturedOK, MachineOK, InHistory, Stop, Capture, SaveSnapshot, Exit, process
<1>5. MachineOK'
  BY <1>1 DEF PvcInv, MachineOK, InHistory, Running, Stop, Capture, SaveSnapshot, Exit, process
<1>6. InflightOK' /\ StallOK'
  <2>1. CASE Exit
    BY <2>1 DEF Exit, InflightOK, StallOK, Running
  <2>2. CASE Stop \/ Capture \/ SaveSnapshot
    <3>1. UNCHANGED <<machine, inflight, written, lastErr>> /\ Running /\ Running'
      BY <2>2 DEF Stop, Capture, SaveSnapshot, Running, process
    <3> QED
      BY <1>1, <3>1 DEF PvcInv, InflightOK, StallOK
  <2> QED
    BY <2>1, <2>2
<1> QED
  BY <1>2, <1>3, <1>4, <1>5, <1>6 DEF PvcInv

\* Restoring a backup into the empty file preserves it, and nothing that was
\* answered is replaced.
LEMMA RestoreInv ==
  ASSUME PvcInv, NEW b \in Backups, RestoreSnapshot(b)
  PROVE  PvcInv' /\ Durable = NewState /\ Durable' = b
<1>1. /\ phase = "down" /\ sequence = 0 /\ DOMAIN transitions = {} /\ snapshot = None
      /\ snapshot' = b /\ sequence' = b.Sequence /\ history' = [n \in {b.Sequence} |-> b]
      /\ UNCHANGED <<transitions, process, acked>>
  BY DEF RestoreSnapshot
<1>2. WellFormed(b) /\ b.Sequence \in Nat /\ b # None
  BY BackupsAssumption, NoneAssumption DEF WellFormed, Snapshot
<1>3. Durable = NewState /\ Durable' = b
  BY <1>1 DEF PvcInv, SnapshotOK, Durable
<1>4. LogIsHistory' /\ ResultsStay'
  BY <1>1, <1>2 DEF LogIsHistory, ResultsStay
<1>5. SnapshotOK'
  BY <1>1, <1>2 DEF SnapshotOK, InHistory
<1>6. \A r \in acked : r.op = NoOperation
  BY <1>3 DEF PvcInv, AckedOK, NewState
<1>7. captured = None /\ inflight = None
  BY <1>1 DEF PvcInv, CapturedOK, InflightOK, Running
<1>8. CapturedOK' /\ MachineOK' /\ InflightOK' /\ AckedOK' /\ StallOK'
  BY <1>1, <1>6, <1>7 DEF PvcInv, CapturedOK, MachineOK, InflightOK, AckedOK, StallOK, Running, process
<1> QED
  BY <1>3, <1>4, <1>5, <1>8 DEF PvcInv

\* Every step preserves the invariant.
LEMMA StepInv == PvcInv /\ [Next]_vars => PvcInv'
<1> SUFFICES ASSUME PvcInv, [Next]_vars PROVE PvcInv'
  OBVIOUS
<1>1. CASE UNCHANGED vars
  <2>1. UNCHANGED <<transitions, sequence, snapshot, phase, machine, inflight, written, captured, lastErr, history, acked>>
    BY <1>1 DEF vars, disk, process
  <2>2. LogIsHistory' /\ ResultsStay' /\ AckedOK' /\ SnapshotOK'
    BY <2>1, SameLog
  <2> QED
    BY <2>1, <2>2 DEF PvcInv, CapturedOK, MachineOK, InflightOK, StallOK, InHistory, Running
<1> QED
  BY <1>1, StartInv, AppendInv, CommitInv, AnswerInv, StopInv, RestoreInv DEF Next, CommitStep

-----------------------------------------------------------------------------
(* The theorems.                                                           *)

\* The file, the snapshot, the machine and the answers always agree on one
\* history of the registry.
THEOREM InvariantHolds == Spec => []PvcInv
BY InitInv, StepInv, PTL DEF Spec

\* No crash, failed sync or recovery loses or changes an answered operation.
THEOREM AnswersAreDurable == Spec => []AckedIsDurable
<1>1. PvcInv => AckedIsDurable
  BY DEF PvcInv, AckedOK, AckedIsDurable
<1> QED
  BY <1>1, InvariantHolds, PTL

\* Machine never publishes a state that the file does not hold.
THEOREM ReadsAreDurable == Spec => []PublishedIsDurable
<1>1. PvcInv => PublishedIsDurable
  BY DEF PvcInv, MachineOK, InHistory, LogIsHistory, PublishedIsDurable
<1> QED
  BY <1>1, InvariantHolds, PTL

\* Every file the process can leave behind is recovered, to its durable state.
THEOREM RecoveryIsSound == Spec => []RecoveryCompletes
<1>1. PvcInv => RecoveryCompletes
  <2> SUFFICES ASSUME PvcInv PROVE RecoveryCompletes
    OBVIOUS
  <2>1. snapshot # None => Valid(snapshot)
    BY DEF PvcInv, SnapshotOK, InHistory, LogIsHistory, WellFormed
  <2>2. ASSUME phase = "recovering"
        PROVE  IF Remaining = {} THEN machine = Durable
               ELSE /\ machine.Sequence + 1 \in Remaining
                    /\ Applies(machine, transitions[machine.Sequence + 1])
    <3> DEFINE n == machine.Sequence + 1
    <3>1. machine.Sequence \in 0 .. sequence /\ InHistory(machine) /\ sequence \in Nat
      BY <2>2, MachineWellFormed DEF PvcInv, MachineOK, LogIsHistory
    <3>2. CASE machine.Sequence = sequence
      <4>1. Remaining = {}
        BY <3>1, <3>2 DEF Remaining, PvcInv, LogIsHistory, LogStep
      <4> QED
        BY <3>1, <3>2, <4>1 DEF InHistory, Durable
    <3>3. CASE machine.Sequence < sequence
      <4>1. n \in DOMAIN transitions
        BY <3>1, <3>3 DEF PvcInv, LogIsHistory, InHistory
      <4>2. LogStep(n) /\ n - 1 = machine.Sequence /\ n > machine.Sequence
        BY <3>1, <4>1 DEF PvcInv, LogIsHistory
      <4>3. Applies(machine, transitions[n])
        BY <3>1, <4>2 DEF LogStep, InHistory
      <4> QED
        BY <4>1, <4>2, <4>3 DEF Remaining
    <3> QED
      BY <3>1, <3>2, <3>3
  <2> QED
    BY <2>1, <2>2 DEF RecoveryCompletes
<1> QED
  BY <1>1, InvariantHolds, PTL

\* A repeated operation is in the log at most once.
THEOREM OperationsRunOnce == Spec => []ExecutedOnce
<1>1. PvcInv => ExecutedOnce
  <2> SUFFICES ASSUME PvcInv, NEW m \in DOMAIN transitions, NEW n \in DOMAIN transitions,
                      m < n, transitions[m].OperationID = transitions[n].OperationID,
                      transitions[m].OperationID # NoOperation
               PROVE  FALSE
    BY DEF ExecutedOnce, PvcInv, LogIsHistory, LogStep
  <2> DEFINE o == transitions[m].OperationID
  <2>1. LogStep(m) /\ LogStep(n)
    BY DEF PvcInv, LogIsHistory
  <2>2. history[m - 1] \in Snapshot
    BY <2>1 DEF LogStep, PvcInv, LogIsHistory, WellFormed
  <2>3. o \in OperationID /\ history[m].Operations[o] = transitions[m].Result
    BY <2>1, <2>2, ResultsKept DEF LogStep, Planned, Operation
  <2>4. history[m].Operations[o] # None
    BY <2>1, <2>3 DEF LogStep
  <2>5. history[n - 1].Operations[o] # None
    BY <2>1, <2>3, <2>4 DEF LogStep, PvcInv, ResultsStay
  <2> QED
    BY <2>1, <2>5 DEF LogStep, Planned, IsRecorded
<1> QED
  BY <1>1, InvariantHolds, PTL

\* A machine that lags behind its file is never reported healthy.
THEOREM StallsAreReported == Spec => []StallIsReported
<1>1. PvcInv => StallIsReported
  BY DEF PvcInv, StallOK, StallIsReported
<1> QED
  BY <1>1, InvariantHolds, PTL

-----------------------------------------------------------------------------
(* Refinement.                                                             *)

\* A step applies a planned transition to the durable registry, restores a
\* backup into the empty one, or leaves it alone.
LEMMA DurableStep ==
  ASSUME PvcInv, [Next]_vars
  PROVE  \/ Durable' = Durable
         \/ \E e \in Plans(Durable) : /\ Durable.Sequence < MaxSequence
                                      /\ Applies(Durable, e)
                                      /\ Durable' = Apply(Durable, e)
         \/ \E b \in Backups : Durable = NewState /\ Valid(b) /\ Durable' = b
<1>1. ASSUME NEW ok \in BOOLEAN, AppendTransition(ok)
      PROVE  \E e \in Plans(Durable) : /\ Durable.Sequence < MaxSequence
                                       /\ Applies(Durable, e)
                                       /\ Durable' = Apply(Durable, e)
  BY <1>1, AppendExtends DEF PvcInv, InflightOK, AppendTransition, Committing
<1>2. ASSUME NEW b \in Backups, RestoreSnapshot(b)
      PROVE  Durable = NewState /\ Valid(b) /\ Durable' = b
  BY <1>2, RestoreInv DEF RestoreSnapshot
<1>3. CASE UNCHANGED <<sequence, history>>
  BY <1>3 DEF Durable
<1> QED
  BY <1>1, <1>2, <1>3 DEF Next, CommitStep, vars, disk, process, Open, Replay, Serve, Begin,
     CommitAgain, Conflict, CommitFails, Publish, AnswerRetry, Stop, Capture, SaveSnapshot, Exit

(* R takes its own copies of the operators of RegistryState.  They are the *)
(* same operators.                                                         *)

\* The commands the transport builds are those of the abstract registry.
LEMMA SameCommands ==
  /\ R!RegisterCommand = RegisterCommand /\ R!DeleteVersionCommand = DeleteVersionCommand
  /\ R!DeleteSubjectCommand = DeleteSubjectCommand /\ R!InheritCommand = InheritCommand
  /\ R!SetCompatibilityCommand = SetCompatibilityCommand /\ R!SetModeCommand = SetModeCommand
  /\ R!NewState = NewState
BY DEF R!RegisterCommand, RegisterCommand, R!DeleteVersionCommand, DeleteVersionCommand,
   R!DeleteSubjectCommand, DeleteSubjectCommand, R!InheritCommand, InheritCommand,
   R!SetCompatibilityCommand, SetCompatibilityCommand, R!SetModeCommand, SetModeCommand,
   R!Operation, Operation, R!Scope, Scope, R!NewState, NewState, R!Int64, Int64

\* planRegister plans the same registration in both.
LEMMA SameRegister ==
  ASSUME NEW st, NEW c
  PROVE  /\ R!RegisterAllowed(st, c) <=> RegisterAllowed(st, c)
         /\ R!RegisterEnvelope(st, c) = RegisterEnvelope(st, c)
BY DEF R!RegisterAllowed, RegisterAllowed, R!IsRecorded, IsRecorded, R!EffectiveMode,
   EffectiveMode, R!HasVersion, HasVersion, R!Versions, Versions, R!Visible, Visible,
   R!IsDuplicate, IsDuplicate, R!IsActive, IsActive, R!RegisterID, RegisterID,
   R!RegisterVersion, RegisterVersion, R!NextVersion, NextVersion, R!Increment, Increment,
   R!PolicyAccepts, PolicyAccepts, R!EffectiveCompatibility, EffectiveCompatibility,
   R!ComparedItems, ComparedItems, R!Transitive, Transitive, R!Parses, Parses,
   R!PairCompatible, PairCompatible, R!RegisterEnvelope, RegisterEnvelope, R!Envelope,
   Envelope, R!ResultOf, ResultOf

\* DeleteVersion and DeleteSubject plan the same deletions in both.
LEMMA SameDeletions ==
  ASSUME NEW st, NEW c
  PROVE  /\ R!DeleteVersionAllowed(st, c) <=> DeleteVersionAllowed(st, c)
         /\ R!DeleteVersionEnvelope(st, c) = DeleteVersionEnvelope(st, c)
         /\ R!DeleteSubjectAllowed(st, c) <=> DeleteSubjectAllowed(st, c)
         /\ R!DeleteSubjectEnvelope(st, c) = DeleteSubjectEnvelope(st, c)
BY DEF R!DeleteVersionAllowed, DeleteVersionAllowed, R!DeleteVersionEnvelope,
   DeleteVersionEnvelope, R!DeleteSubjectAllowed, DeleteSubjectAllowed,
   R!DeleteSubjectEnvelope, DeleteSubjectEnvelope, R!IsRecorded, IsRecorded,
   R!EffectiveMode, EffectiveMode, R!HasVersion, HasVersion, R!Versions, Versions,
   R!Visible, Visible, R!MayDestroy, MayDestroy, R!IsReferenced, IsReferenced, R!IsActive,
   IsActive, R!Envelope, Envelope, R!ResultOf, ResultOf

\* simpleMutation plans the same configuration and mode changes in both.
LEMMA SameSettings ==
  ASSUME NEW st, NEW c
  PROVE  /\ R!SimpleAllowed(st, c) <=> SimpleAllowed(st, c)
         /\ R!SetCompatibilityEnvelope(st, c) = SetCompatibilityEnvelope(st, c)
         /\ R!DeleteCompatibilityEnvelope(st, c) = DeleteCompatibilityEnvelope(st, c)
         /\ R!SetModeEnvelope(st, c) = SetModeEnvelope(st, c)
         /\ R!DeleteModeEnvelope(st, c) = DeleteModeEnvelope(st, c)
BY DEF R!SimpleAllowed, SimpleAllowed, R!IsRecorded, IsRecorded, R!SetCompatibilityEnvelope,
   SetCompatibilityEnvelope, R!DeleteCompatibilityEnvelope, DeleteCompatibilityEnvelope,
   R!SetModeEnvelope, SetModeEnvelope, R!DeleteModeEnvelope, DeleteModeEnvelope, R!Envelope,
   Envelope, R!EmptyResult, EmptyResult, R!ResultOf, ResultOf

\* State.Apply computes the same state in both.
LEMMA SameApply ==
  ASSUME NEW st, NEW e
  PROVE  R!Apply(st, e) = Apply(st, e)
BY DEF R!Apply, Apply, R!NextSchemaIDAfter, NextSchemaIDAfter, R!SchemasAfter, SchemasAfter,
   R!IdentityToIDAfter, IdentityToIDAfter, R!SubjectsAfter, SubjectsAfter,
   R!GlobalCompatibilityAfter, GlobalCompatibilityAfter, R!SubjectCompatibilityAfter,
   SubjectCompatibilityAfter, R!GlobalModeAfter, GlobalModeAfter, R!SubjectModesAfter,
   SubjectModesAfter, R!OperationsAfter, OperationsAfter, R!SetsGlobal, SetsGlobal,
   R!SetsSubject, SetsSubject, R!NewVersion, NewVersion, R!MarkDeleted, MarkDeleted,
   R!Deletions, Deletions, R!Increment, Increment

\* State.Apply and State.validate refuse the same transitions in both.
LEMMA SameApplies ==
  ASSUME NEW st, NEW e
  PROVE  /\ R!Applies(st, e) <=> Applies(st, e)
         /\ R!Valid(st) <=> Valid(st)
BY SameApply DEF R!Applies, Applies, R!PayloadFits, PayloadFits, R!Valid, Valid, R!Deletions,
   Deletions

\* A planned transition of the durable state is a step of Registry.
LEMMA PlannedStepRefines ==
  ASSUME NEW e \in Plans(Durable), Durable.Sequence < MaxSequence,
         Applies(Durable, e), Durable' = Apply(Durable, e)
  PROVE  R!Next
<1>1. R!CommitApply(e)
  BY SameApply, SameApplies DEF R!CommitApply
<1>2. ASSUME NEW c \in RegisterCommand, RegisterAllowed(Durable, c), e = RegisterEnvelope(Durable, c)
      PROVE  R!Next
  BY <1>1, <1>2, SameRegister, SameCommands DEF R!Next, R!Register
<1>3. ASSUME NEW c \in DeleteVersionCommand, DeleteVersionAllowed(Durable, c),
             e = DeleteVersionEnvelope(Durable, c)
      PROVE  R!Next
  BY <1>1, <1>3, SameDeletions, SameCommands DEF R!Next, R!DeleteVersion
<1>4. ASSUME NEW c \in DeleteSubjectCommand, DeleteSubjectAllowed(Durable, c),
             e = DeleteSubjectEnvelope(Durable, c)
      PROVE  R!Next
  BY <1>1, <1>4, SameDeletions, SameCommands DEF R!Next, R!DeleteSubject
<1>5. ASSUME NEW c \in SetCompatibilityCommand, SimpleAllowed(Durable, c),
             e = SetCompatibilityEnvelope(Durable, c)
      PROVE  R!Next
  BY <1>1, <1>5, SameSettings, SameCommands DEF R!Next, R!SetCompatibility
<1>6. ASSUME NEW c \in InheritCommand, SimpleAllowed(Durable, c),
             e = DeleteCompatibilityEnvelope(Durable, c)
      PROVE  R!Next
  BY <1>1, <1>6, SameSettings, SameCommands DEF R!Next, R!DeleteCompatibility
<1>7. ASSUME NEW c \in SetModeCommand, SimpleAllowed(Durable, c), e = SetModeEnvelope(Durable, c)
      PROVE  R!Next
  BY <1>1, <1>7, SameSettings, SameCommands DEF R!Next, R!SetMode
<1>8. ASSUME NEW c \in InheritCommand, SimpleAllowed(Durable, c), e = DeleteModeEnvelope(Durable, c)
      PROVE  R!Next
  BY <1>1, <1>8, SameSettings, SameCommands DEF R!Next, R!DeleteMode
<1> QED
  BY <1>2, <1>3, <1>4, <1>5, <1>6, <1>7, <1>8 DEF Plans

\* The registry the file holds behaves as Registry: whatever commits, failed
\* syncs, crashes, recoveries and restores do, it takes one command at a time.
THEOREM PvcImplementsRegistry == Spec => ImplementsRegistry
<1>1. Init => R!Init
  BY SameCommands DEF Init, R!Init, Durable
<1>2. PvcInv /\ [Next]_vars => [R!Next]_Durable
  <2> SUFFICES ASSUME PvcInv, [Next]_vars
               PROVE  R!Next \/ Durable' = Durable
    OBVIOUS
  <2>1. ASSUME NEW b \in Backups, Durable = NewState, Valid(b), Durable' = b
        PROVE  R!Next
    BY <2>1, SameApplies, SameCommands DEF R!Next, R!RestoreBackup
  <2> QED
    BY <2>1, DurableStep, PlannedStepRefines
<1> QED
  BY <1>1, <1>2, InvariantHolds, PTL DEF Spec, R!Spec, ImplementsRegistry

-----------------------------------------------------------------------------
(* Types.                                                                  *)

\* A process that is down knows nothing, and clients get typed answers.
AnswersTyped ==
    /\ phase = "down" => machine = NewState
    /\ acked \subseteq [op : Operation, result : Result]

\* Answers given to clients name an operation and a result of it.
LEMMA StepAnswersTyped == PvcInv /\ AnswersTyped /\ [Next]_vars => AnswersTyped'
<1> SUFFICES ASSUME PvcInv, AnswersTyped, [Next]_vars
             PROVE  AnswersTyped'
  OBVIOUS
<1> USE DEF AnswersTyped
<1>1. CASE Publish
  <2>1. /\ Running /\ inflight # None /\ phase' = phase
        /\ acked' = acked \cup {[op |-> inflight.OperationID, result |-> inflight.Result]}
    BY <1>1 DEF Publish
  <2>2. WellFormed(machine) /\ inflight \in Plans(machine) /\ Applies(machine, inflight)
    BY <2>1, MachineWellFormed DEF PvcInv, InflightOK, Running
  <2>3. inflight.OperationID \in Operation /\ inflight.Result \in Result
    BY <2>2, PlansAreSafe DEF Planned
  <2> QED
    BY <2>1, <2>3 DEF Running
<1>2. ASSUME NEW o \in OperationID, AnswerRetry(o)
      PROVE  AnswersTyped'
  <2>1. /\ Running /\ IsRecorded(machine, o) /\ phase' = phase
        /\ acked' = acked \cup {[op |-> o, result |-> machine.Operations[o]]}
    BY <1>2 DEF AnswerRetry, process
  <2>2. machine.Operations[o] \in Result
    BY <2>1, MachineWellFormed DEF Running, IsRecorded, WellFormed, Snapshot
  <2>3. o \in Operation
    BY DEF Operation
  <2> QED
    BY <2>1, <2>2, <2>3 DEF Running
<1>3. CASE acked' = acked /\ (phase' # "down" \/ (phase' = phase /\ machine' = machine) \/ machine' = NewState)
  BY <1>3
<1>4. CASE Open \/ Replay \/ Serve \/ Stop \/ Capture \/ SaveSnapshot \/ Exit
  BY <1>3, <1>4 DEF Open, Replay, Serve, Stop, Capture, SaveSnapshot, Exit, process
<1>5. CASE (\E e \in Plans(machine) : Begin(e)) \/ CommitStep
  BY <1>3, <1>5 DEF Begin, CommitStep, AppendTransition, CommitAgain, Conflict, CommitFails
<1>6. CASE \E b \in Backups : RestoreSnapshot(b)
  BY <1>3, <1>6 DEF RestoreSnapshot, process
<1>7. CASE UNCHANGED vars
  BY <1>3, <1>7 DEF vars, process
<1> QED
  BY <1>1, <1>2, <1>4, <1>5, <1>6, <1>7 DEF Next

\* The file and the process always have their declared types.
THEOREM TypeCorrect == Spec => []TypeOK
<1>1. Init => AnswersTyped
  BY DEF Init, AnswersTyped
<1>2. PvcInv /\ AnswersTyped => TypeOK
  <2> SUFFICES ASSUME PvcInv, AnswersTyped
               PROVE  TypeOK
    OBVIOUS
  <2>1. /\ sequence \in Nat /\ sequence \in DOMAIN history
        /\ \A n \in DOMAIN history : n \in 0 .. sequence /\ history[n] \in Snapshot
    BY DEF PvcInv, LogIsHistory, WellFormed
  <2>2. DOMAIN transitions \subseteq 1 .. sequence
    <3> SUFFICES ASSUME NEW n \in DOMAIN transitions
                 PROVE  n \in 1 .. sequence
      OBVIOUS
    <3>1. n \in Nat /\ n - 1 \in DOMAIN history /\ n \in DOMAIN history
      BY DEF PvcInv, LogIsHistory, LogStep
    <3> QED
      BY <3>1, <2>1
  <2>3. snapshot \in Snapshot \cup {None} /\ captured \in Snapshot \cup {None}
    BY <2>1 DEF PvcInv, SnapshotOK, CapturedOK, InHistory
  <2>4. machine \in Snapshot
    <3>1. CASE phase = "down"
      BY <3>1, NewStateWellFormed DEF AnswersTyped, WellFormed
    <3>2. CASE phase # "down"
      BY <3>2, <2>1 DEF PvcInv, MachineOK, InHistory
    <3> QED
      BY <3>1, <3>2
  <2> QED
    BY <2>1, <2>2, <2>3, <2>4 DEF TypeOK, AnswersTyped, PvcInv, MachineOK, InflightOK, StallOK
<1> QED
  BY <1>1, <1>2, InitInv, StepInv, StepAnswersTyped, PTL DEF Spec
=============================================================================
