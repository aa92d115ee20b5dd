------------------------------ MODULE KafkaTopic ------------------------------
(***************************************************************************)
(* The state topic as a database: transitions, snapshots and the restore   *)
(* checkpoint under their record keys (layout.go), a broker that compacts  *)
(* the topic at any time, the process that opens, extends and closes it,   *)
(* and the restore tool on an empty installation.  Transactions commit     *)
(* here, KafkaCluster is about those that do not.  One process runs at a   *)
(* time, so a registry state is known by its sequence.                     *)
(***************************************************************************)
EXTENDS Integers, FiniteSets, FiniteSetsExt

CONSTANTS
    Backup,         \* sequences of the logical backups an operator may restore
    None,           \* absence of a snapshot
    MaxSequence,    \* bound on transitions
    MaxOffset       \* bound on records written

ASSUME TopicAssumption ==
    /\ Backup \subseteq Nat
    /\ None \notin Nat
    /\ MaxSequence \in Nat /\ MaxOffset \in Nat

VARIABLES
    topic,      \* offset -> record, the committed records that are left
    end,        \* the offset of the last record written
    sequence,   \* the sequence of the registry the clients were promised
    phase,      \* "down", "opening" or "serving"
    position,   \* Store.position
    items,      \* the sequences in Store.items
    snapshot,   \* Store.snapshot, or None
    base,       \* Store.base
    machine     \* the sequence of Machine.state

broker == <<topic, end>>
store == <<position, items, snapshot, base>>
vars == <<broker, sequence, phase, store, machine>>

Record == [key : {"transition", "snapshot", "checkpoint"}, seq : Nat]

Init ==
    /\ topic = [i \in {} |-> None]
    /\ end = 0
    /\ sequence = 0
    /\ phase = "down"
    /\ position = 0
    /\ items = {}
    /\ snapshot = None
    /\ base = 0
    /\ machine = 0

\* A transaction of the records of a list.
Write(records) ==
    LET offsets == end + 1 .. end + Cardinality(DOMAIN records)
    IN  /\ end' = end + Cardinality(DOMAIN records)
        /\ end' <= MaxOffset
        /\ topic' = [i \in DOMAIN topic \cup offsets |->
                        IF i \in offsets THEN records[i - end] ELSE topic[i]]

Entry(key, seq) == [key |-> key, seq |-> seq]

\* Mutant of SameKey: the key of a transition does not contain its sequence.
SamePrefix(a, b) == a.key = b.key

SameKey(a, b) == a.key = b.key /\ (a.key = "transition" => a.seq = b.seq)

\* The cleaner drops a record that has a later one under its key.
Compact(i) ==
    /\ \E j \in DOMAIN topic : j > i /\ SameKey(topic[i], topic[j])
    /\ topic' = [j \in DOMAIN topic \ {i} |-> topic[j]]
    /\ UNCHANGED <<end, sequence, phase, store, machine>>

-----------------------------------------------------------------------------
(* Opening the topic.                                                      *)

Open ==
    /\ phase = "down"
    /\ phase' = "opening"
    /\ position' = 0 /\ items' = {} /\ snapshot' = None /\ base' = 0 /\ machine' = 0
    /\ UNCHANGED <<broker, sequence>>

Unread == {i \in DOMAIN topic : i > position}

\* The checkpoint is valid if it names the snapshot read last.
Acceptable(record) ==
    record.key = "checkpoint" => record.seq # 0 /\ record.seq = snapshot

\* applyRecordLocked on the next record.
Consume ==
    LET i == Min(Unread)
    IN  /\ phase # "down"
        /\ Unread # {}
        /\ Acceptable(topic[i])
        /\ position' = i
        /\ items' = IF topic[i].key = "transition" THEN items \cup {topic[i].seq} ELSE items
        /\ snapshot' = IF topic[i].key = "snapshot" THEN topic[i].seq ELSE snapshot
        /\ base' = IF topic[i].key = "checkpoint" THEN topic[i].seq ELSE base
        /\ UNCHANGED <<broker, sequence, phase, machine>>

LastSequence == Max(items \cup {base})

\* validateReplay, LoadSnapshot and Replay find what they need.
Recoverable ==
    LET after == IF snapshot = None THEN 0 ELSE snapshot
    IN  /\ base + 1 .. LastSequence \subseteq items
        /\ after >= base

\* Mutant of Recover: only the snapshot is loaded.
RecoverSnapshotOnly ==
    /\ phase = "opening"
    /\ Unread = {}
    /\ Recoverable
    /\ machine' = IF snapshot = None THEN 0 ELSE snapshot
    /\ phase' = "serving"
    /\ UNCHANGED <<broker, sequence, store>>

\* recoverState ends with the last transition and the process serves.
Recover ==
    /\ phase = "opening"
    /\ Unread = {}
    /\ Recoverable
    /\ machine' = LastSequence
    /\ phase' = "serving"
    /\ UNCHANGED <<broker, sequence, store>>

-----------------------------------------------------------------------------
(* Running and closing.                                                    *)

\* commitMu is held until the record is observed, so the store has read what
\* this process wrote before.
Commit ==
    /\ phase = "serving"
    /\ machine = LastSequence /\ Unread = {}
    /\ sequence < MaxSequence
    /\ Write(<<Entry("transition", machine + 1)>>)
    /\ sequence' = machine + 1
    /\ UNCHANGED <<phase, store, machine>>

\* Commit or Follow hands the observed transition to the machine.
Publish ==
    /\ phase = "serving"
    /\ machine + 1 \in items
    /\ machine' = machine + 1
    /\ UNCHANGED <<broker, sequence, phase, store>>

\* Mutant of SaveSnapshot: the snapshot is stored under the sequence of the
\* next transition.
SaveSnapshotAhead ==
    /\ phase = "serving"
    /\ Write(<<Entry("snapshot", machine + 1)>>)
    /\ phase' = "down"
    /\ UNCHANGED <<sequence, store, machine>>

\* A clean shutdown of the primary saves its state.
SaveSnapshot ==
    /\ phase = "serving"
    /\ machine <= LastSequence
    /\ Write(<<Entry("snapshot", machine)>>)
    /\ phase' = "down"
    /\ UNCHANGED <<sequence, store, machine>>

\* The process ends without a snapshot.
Exit ==
    /\ phase # "down"
    /\ phase' = "down"
    /\ UNCHANGED <<broker, sequence, store, machine>>

\* RestoreSnapshot, by the restore tool, on a topic without a transition and a
\* snapshot.
RestoreSnapshot(b) ==
    /\ phase = "down"
    /\ DOMAIN topic = {}
    /\ Write(<<Entry("snapshot", b), Entry("checkpoint", b)>>)
    /\ sequence' = b
    /\ UNCHANGED <<phase, store, machine>>

Next ==
    \/ Open \/ Consume \/ Recover
    \/ Commit \/ Publish \/ SaveSnapshot \/ Exit
    \/ \E b \in Backup : RestoreSnapshot(b)
    \/ \E i \in DOMAIN topic : Compact(i)

Spec == Init /\ [][Next]_vars

-----------------------------------------------------------------------------
(* Properties.                                                             *)

\* What a serving process knows, once it has read the topic, is the whole
\* promised registry: no compaction, snapshot or restart hides a transition.
ServesEverything ==
    phase = "serving" /\ Unread = {} => LastSequence = sequence /\ machine >= sequence - 1

\* The latest snapshot and the transitions after it, as the topic holds them,
\* make up the promised registry, whatever the cleaner dropped.
NothingIsLost ==
    LET snapshots == {i \in DOMAIN topic : topic[i].key = "snapshot"}
        covered == IF snapshots = {} THEN 0 ELSE topic[Max(snapshots)].seq
    IN  /\ covered <= sequence
        /\ \A n \in covered + 1 .. sequence :
              \E i \in DOMAIN topic : topic[i] = Entry("transition", n)

\* The checkpoint of a restored backup names a snapshot that is not there any
\* more, or one of sequence 0.
BackupIsGone ==
    \E i \in DOMAIN topic :
        /\ topic[i].key = "checkpoint"
        /\ topic[i].seq = 0 \/ \A j \in DOMAIN topic : j < i => topic[j] # Entry("snapshot", topic[i].seq)

\* Open never fails on a topic this program wrote, whatever the cleaner drops
\* before or while a process reads it: the registry can be rebuilt at any time,
\* except from a restored topic whose checkpoint has lost its snapshot.
TopicOpensUnlessBackupIsGone ==
    phase = "opening" =>
        \/ IF Unread = {} THEN Recoverable ELSE Acceptable(topic[Min(Unread)])
        \/ BackupIsGone
=============================================================================
