--------------------------- MODULE KafkaTopicProofs ---------------------------
(***************************************************************************)
(* Proofs about KafkaTopic, for any backups, transitions and records: the  *)
(* cleaner, a crash and a restart lose nothing that was promised.          *)
(***************************************************************************)
EXTENDS KafkaTopic, FiniteSetTheorems, WellFoundedInduction, TLAPS

(* Offsets and sequences have a least element, and a greatest one if       *)
(* bounded.                                                                *)

\* A set of natural numbers has a least element.
LEMMA LeastElement ==
    ASSUME NEW S \in SUBSET Nat, S # {}
    PROVE  \E x \in S : \A y \in S : x <= y
<1>1. \E x \in S : \A y \in S : ~ (<<y, x>> \in OpToRel(<, Nat))
    BY NatLessThanWellFounded, WFMin, Zenon
<1>2. \A x, y \in Nat : ~ (<<y, x>> \in OpToRel(<, Nat)) => x <= y
    BY DEF OpToRel
<1>. QED BY <1>1, <1>2

\* It is what Min returns.
LEMMA MinIsLeast ==
    ASSUME NEW S \in SUBSET Nat, S # {}
    PROVE  Min(S) \in S /\ \A y \in S : Min(S) <= y
BY LeastElement DEF Min

\* A bounded set of integers has a greatest element, which is what Max returns.
LEMMA MaxIsGreatest ==
    ASSUME NEW b \in Int, NEW S \in SUBSET Int, S # {}, \A x \in S : x <= b
    PROVE  Max(S) \in S /\ \A y \in S : Max(S) >= y
<1>. DEFINE T == {b - x : x \in S}
<1>1. T \in SUBSET Nat
    <2>1. \A x \in S : b - x \in Nat
        OBVIOUS
    <2>. QED BY <2>1
<1>2. T # {}
    OBVIOUS
<1>3. PICK t \in T : \A y \in T : t <= y
    BY <1>1, <1>2, LeastElement
<1>4. PICK x \in S : t = b - x
    BY <1>3
<1>5. \A y \in S : x >= y
    BY <1>3, <1>4
<1>. QED BY <1>5 DEF Max

-----------------------------------------------------------------------------
(* The inductive invariant.                                                *)

\* The sequence of the backup that the topic t was restored from, or 0.
Restored(t) == IF 2 \in DOMAIN t /\ t[2].key = "checkpoint" THEN t[2].seq ELSE 0

\* A topic t of e records for a registry of q transitions: the last record is
\* there, a checkpoint stands where RestoreSnapshot wrote it, after its snapshot
\* unless a later one replaced that, and every transition since is there.
TopicInv(t, e, q) ==
    /\ e \in Nat /\ q \in Nat
    /\ DOMAIN t \subseteq 1 .. e
    /\ \A i \in DOMAIN t : t[i] \in Record
    /\ e # 0 => e \in DOMAIN t
    /\ e = 0 => q = 0
    /\ \A i \in DOMAIN t : t[i].key = "checkpoint" =>
          /\ i = 2
          /\ \E j \in DOMAIN t : t[j].key = "snapshot"
          /\ 1 \in DOMAIN t => t[1] = Entry("snapshot", t[2].seq)
    /\ \A i \in DOMAIN t : t[i].key = "transition" => Restored(t) < t[i].seq /\ t[i].seq <= q
    /\ \A i \in DOMAIN t : t[i].key = "snapshot" => Restored(t) <= t[i].seq /\ t[i].seq <= q
    /\ \A n \in Restored(t) + 1 .. q : \E i \in DOMAIN t : t[i] = Entry("transition", n)

\* What a process that has read the topic up to p knows: its transitions ns, its
\* snapshot s and the checkpoint b.
ReaderInv(t, e, q, p, ns, s, b) ==
    /\ p \in 0 .. e
    /\ \A n \in ns : n \in Nat /\ Restored(t) < n /\ n <= q
    /\ \A i \in DOMAIN t : i <= p /\ t[i].key = "transition" => t[i].seq \in ns
    /\ b = IF p >= 2 THEN Restored(t) ELSE 0
    /\ s # None => s \in Nat /\ Restored(t) <= s
    /\ b # 0 => s # None
    /\ p = 1 /\ 1 \in DOMAIN t /\ t[1].key = "snapshot" => s = t[1].seq

\* A process that serves is at most the transition behind that it is committing.
ServingInv(t, q, m) == m \in Nat /\ Restored(t) <= m /\ m <= q /\ q <= m + 1

Inv ==
    /\ TopicInv(topic, end, sequence)
    /\ phase \in {"down", "opening", "serving"}
    /\ phase # "down" => ReaderInv(topic, end, sequence, position, items, snapshot, base)
    /\ phase = "serving" => ServingInv(topic, sequence, machine)

-----------------------------------------------------------------------------
(* Writing the topic.                                                      *)

\* u is the topic t of e records with the record x written after them.
Appended(t, e, u, x) ==
    /\ DOMAIN u = DOMAIN t \cup {e + 1}
    /\ u[e + 1] = x
    /\ \A i \in DOMAIN t : u[i] = t[i]

\* There are n transitions up to sequence n.
LEMMA UpTo ==
    ASSUME NEW n \in Nat
    PROVE  Cardinality(1 .. n) = n
<1>1. Cardinality(1 .. n) = IF 1 > n THEN 0 ELSE n - 1 + 1
    BY FS_Interval
<1>. QED BY <1>1

\* Writing one record appends it at the end of the topic.
LEMMA WriteOne ==
    ASSUME end \in Nat, DOMAIN topic \subseteq 1 .. end, NEW x, Write(<<x>>)
    PROVE  end' = end + 1 /\ Appended(topic, end, topic', x)
<1>1. DOMAIN <<x>> = 1 .. 1
    OBVIOUS
<1>2. Cardinality(1 .. 1) = 1
    <2>1. 1 \in Nat
        OBVIOUS
    <2>. QED BY <2>1, UpTo, Zenon
<1>3. /\ end' = end + 1
      /\ topic' = [i \in DOMAIN topic \cup (end + 1 .. end + 1) |->
                      IF i \in end + 1 .. end + 1 THEN <<x>>[i - end] ELSE topic[i]]
    BY <1>1, <1>2 DEF Write
<1>4. end + 1 .. end + 1 = {end + 1}
    OBVIOUS
<1>5. DOMAIN topic' = DOMAIN topic \cup {end + 1}
    BY <1>3, <1>4
<1>6. topic'[end + 1] = x
    <2>1. topic'[end + 1] = <<x>>[(end + 1) - end]
        BY <1>3, <1>4
    <2>2. (end + 1) - end = 1
        OBVIOUS
    <2>. QED BY <2>1, <2>2
<1>7. \A i \in DOMAIN topic : topic'[i] = topic[i]
    BY <1>3, <1>4
<1>. QED BY <1>3, <1>5, <1>6, <1>7 DEF Appended

\* A restore writes the snapshot and the checkpoint into an empty topic.
LEMMA WriteTwo ==
    ASSUME end = 0, DOMAIN topic = {}, NEW x, NEW y, Write(<<x, y>>)
    PROVE  end' = 2 /\ DOMAIN topic' = {1, 2} /\ topic'[1] = x /\ topic'[2] = y
<1>1. DOMAIN <<x, y>> = 1 .. 2
    OBVIOUS
<1>2. Cardinality(1 .. 2) = 2
    <2>1. 2 \in Nat
        OBVIOUS
    <2>. QED BY <2>1, UpTo, Zenon
<1>3. /\ end' = 2
      /\ topic' = [i \in 1 .. 2 |-> IF i \in 1 .. 2 THEN <<x, y>>[i - 0] ELSE topic[i]]
    BY <1>1, <1>2 DEF Write
<1>4. 1 .. 2 = {1, 2}
    OBVIOUS
<1>. QED BY <1>3, <1>4

\* A transition that extends the registry, and a snapshot of it, keep the topic
\* well formed, and the backup it was restored from.
LEMMA AppendTopicInv ==
    ASSUME NEW t, NEW e, NEW q, NEW u, NEW x, NEW r,
           TopicInv(t, e, q), Appended(t, e, u, x), x \in Record,
           \/ x.key = "transition" /\ x.seq = q + 1 /\ r = q + 1 /\ Restored(t) <= q
           \/ x.key = "snapshot" /\ Restored(t) <= x.seq /\ x.seq <= q /\ r = q
    PROVE  TopicInv(u, e + 1, r) /\ Restored(u) = Restored(t)
<1>1. e \in Nat /\ q \in Nat /\ r \in Nat /\ x.seq \in Nat
    BY DEF TopicInv, Record
<1>2. DOMAIN u = DOMAIN t \cup {e + 1} /\ u[e + 1] = x /\ \A i \in DOMAIN t : u[i] = t[i]
    BY DEF Appended
<1>3. DOMAIN t \subseteq 1 .. e
    BY DEF TopicInv
<1>4. Restored(u) = Restored(t)
    <2>1. CASE e + 1 = 2
        <3>1. 2 \notin DOMAIN t /\ u[2].key # "checkpoint"
            BY <2>1, <1>1, <1>2, <1>3
        <3>. QED BY <3>1 DEF Restored
    <2>2. CASE e + 1 # 2
        BY <2>2, <1>2 DEF Restored
    <2>. QED BY <2>1, <2>2
<1>5. DOMAIN u \subseteq 1 .. e + 1 /\ e + 1 \in DOMAIN u /\ e + 1 \in Nat /\ e + 1 # 0
    BY <1>1, <1>2, <1>3
<1>6. \A i \in DOMAIN u : u[i] \in Record
    BY <1>2 DEF TopicInv
<1>7. ASSUME NEW i \in DOMAIN u, u[i].key = "checkpoint"
      PROVE  /\ i = 2
             /\ \E j \in DOMAIN u : u[j].key = "snapshot"
             /\ 1 \in DOMAIN u => u[1] = Entry("snapshot", u[2].seq)
    <2>1. i \in DOMAIN t /\ t[i].key = "checkpoint"
        BY <1>7, <1>2
    <2>2. /\ i = 2 /\ \E j \in DOMAIN t : t[j].key = "snapshot"
          /\ 1 \in DOMAIN t => t[1] = Entry("snapshot", t[2].seq)
        BY <2>1 DEF TopicInv
    <2>3. e + 1 # 1
        BY <1>1, <1>3, <2>1, <2>2
    <2>. QED BY <2>1, <2>2, <2>3, <1>2
<1>8. \A i \in DOMAIN t :
        /\ t[i].key = "transition" => Restored(t) < t[i].seq /\ t[i].seq <= q
        /\ t[i].key = "snapshot" => Restored(t) <= t[i].seq /\ t[i].seq <= q
    BY DEF TopicInv
<1>9. \A i \in DOMAIN t : t[i].seq \in Nat
    BY DEF TopicInv, Record
<1>10. Restored(t) \in Nat
    BY <1>9 DEF Restored
<1>11. \A i \in DOMAIN u : u[i].key = "transition" => Restored(t) < u[i].seq /\ u[i].seq <= r
    <2>1. CASE x.key = "transition" /\ x.seq = q + 1 /\ r = q + 1 /\ Restored(t) <= q
        BY <2>1, <1>1, <1>2, <1>8, <1>9, <1>10
    <2>2. CASE x.key = "snapshot" /\ r = q
        BY <2>2, <1>2, <1>8
    <2>. QED BY <2>1, <2>2
<1>12. \A i \in DOMAIN u : u[i].key = "snapshot" => Restored(t) <= u[i].seq /\ u[i].seq <= r
    <2>1. CASE x.key = "transition" /\ r = q + 1
        BY <2>1, <1>1, <1>2, <1>8, <1>9, <1>10
    <2>2. CASE x.key = "snapshot" /\ Restored(t) <= x.seq /\ x.seq <= q /\ r = q
        BY <2>2, <1>2, <1>8
    <2>. QED BY <2>1, <2>2
<1>13. ASSUME NEW n \in Restored(t) + 1 .. r
       PROVE  \E i \in DOMAIN u : u[i] = Entry("transition", n)
    <2>1. CASE n \in Restored(t) + 1 .. q
        <3>1. \E i \in DOMAIN t : t[i] = Entry("transition", n)
            BY <2>1 DEF TopicInv
        <3>. QED BY <3>1, <1>2
    <2>2. CASE n \notin Restored(t) + 1 .. q
        <3>1. n = q + 1 /\ x.key = "transition" /\ x.seq = q + 1
            BY <2>2, <1>13, <1>1, <1>10
        <3>2. x = Entry("transition", n)
            BY <3>1 DEF Record, Entry
        <3>. QED BY <3>2, <1>2
    <2>. QED BY <2>1, <2>2
<1>. QED BY <1>1, <1>4, <1>5, <1>6, <1>7, <1>11, <1>12, <1>13 DEF TopicInv

\* What a process has read of the topic is not touched by records after it.
LEMMA AppendReaderInv ==
    ASSUME NEW t, NEW e, NEW q, NEW u, NEW x, NEW r, NEW p, NEW ns, NEW s, NEW b,
           e \in Nat, q \in Nat, r \in Nat, q <= r, DOMAIN t \subseteq 1 .. e,
           e # 0 => e \in DOMAIN t,
           Appended(t, e, u, x), Restored(u) = Restored(t),
           ReaderInv(t, e, q, p, ns, s, b)
    PROVE  ReaderInv(u, e + 1, r, p, ns, s, b)
<1>1. p \in 0 .. e
    BY DEF ReaderInv
<1>2. p \in 0 .. e + 1
    BY <1>1
<1>3. \A n \in ns : n \in Nat /\ Restored(u) < n /\ n <= r
    <2>1. \A n \in ns : n \in Nat /\ Restored(t) < n /\ n <= q
        BY DEF ReaderInv
    <2>. QED BY <2>1
<1>4. \A i \in DOMAIN u : i <= p => i \in DOMAIN t /\ u[i] = t[i]
    BY <1>1 DEF Appended
<1>5. \A i \in DOMAIN u : i <= p /\ u[i].key = "transition" => u[i].seq \in ns
    BY <1>4 DEF ReaderInv
<1>6. p = 1 /\ 1 \in DOMAIN u /\ u[1].key = "snapshot" => s = u[1].seq
    BY <1>4 DEF ReaderInv
<1>. QED BY <1>2, <1>3, <1>5, <1>6 DEF ReaderInv

\* u is the topic t without the record at i, which has a later one under its key.
Compacted(t, u, i) ==
    /\ i \in DOMAIN t
    /\ \E j \in DOMAIN t : j > i /\ SameKey(t[i], t[j])
    /\ DOMAIN u = DOMAIN t \ {i}
    /\ \A j \in DOMAIN u : u[j] = t[j]

\* The cleaner keeps the topic well formed: it never drops the checkpoint, the
\* last record, the only snapshot or the only record of a transition.
LEMMA CompactTopicInv ==
    ASSUME NEW t, NEW e, NEW q, NEW u, NEW i, TopicInv(t, e, q), Compacted(t, u, i)
    PROVE  TopicInv(u, e, q) /\ Restored(u) = Restored(t)
<1>1. PICK k \in DOMAIN t : k > i /\ SameKey(t[i], t[k])
    BY DEF Compacted
<1>2. i \in DOMAIN t /\ DOMAIN u = DOMAIN t \ {i} /\ \A j \in DOMAIN u : u[j] = t[j]
    BY DEF Compacted
<1>3. e \in Nat /\ DOMAIN t \subseteq 1 .. e /\ e \in DOMAIN t
    BY <1>2 DEF TopicInv
<1>4. k \in DOMAIN u /\ u[k] = t[k] /\ e \in DOMAIN u
    BY <1>1, <1>2, <1>3
<1>5. \A j \in DOMAIN t : t[j].key = "checkpoint" => j = 2
    BY DEF TopicInv
<1>6. t[i].key # "checkpoint"
    <2>. SUFFICES ASSUME t[i].key = "checkpoint" PROVE FALSE
        OBVIOUS
    <2>1. t[k].key = "checkpoint"
        BY <1>1 DEF SameKey
    <2>. QED BY <2>1, <1>1, <1>2, <1>5
<1>7. Restored(u) = Restored(t)
    BY <1>2, <1>6 DEF Restored
<1>8. \A j \in DOMAIN u : u[j] \in Record
    BY <1>2 DEF TopicInv
<1>9. ASSUME NEW j \in DOMAIN u, u[j].key = "checkpoint"
      PROVE  /\ j = 2
             /\ \E m \in DOMAIN u : u[m].key = "snapshot"
             /\ 1 \in DOMAIN u => u[1] = Entry("snapshot", u[2].seq)
    <2>1. j \in DOMAIN t /\ t[j].key = "checkpoint"
        BY <1>9, <1>2
    <2>2. /\ j = 2 /\ \E m \in DOMAIN t : t[m].key = "snapshot"
          /\ 1 \in DOMAIN t => t[1] = Entry("snapshot", t[2].seq)
        BY <2>1 DEF TopicInv
    <2>3. PICK m \in DOMAIN t : t[m].key = "snapshot"
        BY <2>2
    <2>4. \E l \in DOMAIN u : u[l].key = "snapshot"
        <3>1. CASE m = i
            <4>1. t[k].key = "snapshot"
                BY <3>1, <2>3, <1>1 DEF SameKey
            <4>. QED BY <4>1, <1>4
        <3>2. CASE m # i
            BY <3>2, <2>3, <1>2
        <3>. QED BY <3>1, <3>2
    <2>. QED BY <2>1, <2>2, <2>4, <1>2
<1>10. \A j \in DOMAIN u : u[j].key = "transition" => Restored(u) < u[j].seq /\ u[j].seq <= q
    BY <1>2, <1>7 DEF TopicInv
<1>11. \A j \in DOMAIN u : u[j].key = "snapshot" => Restored(u) <= u[j].seq /\ u[j].seq <= q
    BY <1>2, <1>7 DEF TopicInv
<1>12. ASSUME NEW n \in Restored(u) + 1 .. q
       PROVE  \E j \in DOMAIN u : u[j] = Entry("transition", n)
    <2>1. PICK j \in DOMAIN t : t[j] = Entry("transition", n)
        BY <1>7 DEF TopicInv
    <2>2. CASE j = i
        <3>1. t[k].key = "transition" /\ t[k].seq = n
            BY <2>2, <2>1, <1>1 DEF SameKey, Entry
        <3>2. t[k] \in Record
            BY DEF TopicInv
        <3>3. t[k] = Entry("transition", n)
            BY <3>1, <3>2 DEF Record, Entry
        <3>. QED BY <3>3, <1>4
    <2>3. CASE j # i
        BY <2>3, <2>1, <1>2
    <2>. QED BY <2>2, <2>3
<1>13. q \in Nat /\ DOMAIN u \subseteq 1 .. e /\ (e = 0 => q = 0)
    BY <1>2, <1>3 DEF TopicInv
<1>. QED BY <1>3, <1>4, <1>7, <1>8, <1>9, <1>10, <1>11, <1>12, <1>13 DEF TopicInv

\* What a reader has read so far is still true of the compacted topic.
LEMMA CompactReaderInv ==
    ASSUME NEW t, NEW e, NEW q, NEW u, NEW i, NEW p, NEW ns, NEW s, NEW b,
           Compacted(t, u, i), Restored(u) = Restored(t), ReaderInv(t, e, q, p, ns, s, b)
    PROVE  ReaderInv(u, e, q, p, ns, s, b)
<1>1. \A j \in DOMAIN u : j \in DOMAIN t /\ u[j] = t[j]
    BY DEF Compacted
<1>2. \A j \in DOMAIN u : j <= p /\ u[j].key = "transition" => u[j].seq \in ns
    BY <1>1 DEF ReaderInv
<1>3. p = 1 /\ 1 \in DOMAIN u /\ u[1].key = "snapshot" => s = u[1].seq
    BY <1>1 DEF ReaderInv
<1>. QED BY <1>2, <1>3 DEF ReaderInv

-----------------------------------------------------------------------------
(* Reading the topic.                                                      *)

\* The sequence a topic was restored to is one it has reached.
LEMMA RestoredIsNatural ==
    ASSUME NEW t, NEW e, NEW q, TopicInv(t, e, q)
    PROVE  Restored(t) \in Nat /\ Restored(t) <= q
<1>1. \A i \in DOMAIN t : t[i].seq \in Nat
    BY DEF TopicInv, Record
<1>2. q \in Nat
    BY DEF TopicInv
<1>3. CASE 2 \in DOMAIN t /\ t[2].key = "checkpoint"
    <2>1. PICK j \in DOMAIN t : t[j].key = "snapshot"
        BY <1>3 DEF TopicInv
    <2>2. Restored(t) <= t[j].seq /\ t[j].seq <= q
        BY <2>1 DEF TopicInv
    <2>3. Restored(t) \in Nat
        BY <1>1, <1>3 DEF Restored
    <2>. QED BY <2>2, <2>3, <1>1, <1>2
<1>4. CASE ~ (2 \in DOMAIN t /\ t[2].key = "checkpoint")
    BY <1>2, <1>4 DEF Restored
<1>. QED BY <1>3, <1>4

\* A process that has read the whole topic knows the backup and every transition.
LEMMA ReadEverything ==
    ASSUME Inv, phase # "down", Unread = {}
    PROVE  /\ base = Restored(topic)
           /\ \A n \in items : n \in Nat /\ base < n /\ n <= sequence
           /\ base + 1 .. sequence \subseteq items
           /\ LastSequence = sequence
<1>1. /\ TopicInv(topic, end, sequence)
      /\ ReaderInv(topic, end, sequence, position, items, snapshot, base)
    BY DEF Inv
<1>2. Restored(topic) \in Nat /\ Restored(topic) <= sequence
    BY <1>1, RestoredIsNatural
<1>3. sequence \in Nat /\ end \in Nat /\ DOMAIN topic \subseteq 1 .. end
    BY <1>1 DEF TopicInv
<1>4. position \in 0 .. end
    BY <1>1 DEF ReaderInv
<1>5. \A i \in DOMAIN topic : i <= position
    BY <1>3, <1>4 DEF Unread
<1>6. base = Restored(topic)
    <2>1. CASE position >= 2
        BY <2>1, <1>1 DEF ReaderInv
    <2>2. CASE ~ (position >= 2)
        <3>1. 2 \notin DOMAIN topic
            BY <2>2, <1>5
        <3>. QED BY <2>2, <3>1, <1>1 DEF ReaderInv, Restored
    <2>. QED BY <2>1, <2>2
<1>7. \A n \in items : n \in Nat /\ base < n /\ n <= sequence
    BY <1>1, <1>6 DEF ReaderInv
<1>8. ASSUME NEW n \in base + 1 .. sequence
      PROVE  n \in items
    <2>1. PICK i \in DOMAIN topic : topic[i] = Entry("transition", n)
        BY <1>1, <1>6 DEF TopicInv
    <2>2. i <= position /\ topic[i].key = "transition" /\ topic[i].seq = n
        BY <2>1, <1>5 DEF Entry
    <2>. QED BY <2>2, <1>1 DEF ReaderInv
<1>9. LastSequence = sequence
    <2>. DEFINE S == items \cup {base}
    <2>1. S \in SUBSET Int /\ S # {} /\ \A x \in S : x <= sequence
        BY <1>2, <1>6, <1>7
    <2>2. sequence \in Int
        BY <1>3
    <2>3. sequence \in S
        <3>1. sequence = base \/ sequence \in base + 1 .. sequence
            BY <1>2, <1>3, <1>6
        <3>. QED BY <3>1, <1>8
    <2>. HIDE DEF S
    <2>4. Max(S) \in S /\ \A y \in S : Max(S) >= y
        BY <2>1, <2>2, MaxIsGreatest, Zenon
    <2>5. Max(S) = sequence
        <3>1. Max(S) \in Int /\ Max(S) <= sequence
            BY <2>1, <2>4, Zenon
        <3>2. Max(S) >= sequence
            BY <2>3, <2>4, Zenon
        <3>. QED BY <3>1, <3>2, <2>2
    <2>. QED BY <2>5 DEF S, LastSequence
<1>. QED BY <1>6, <1>7, <1>8, <1>9

-----------------------------------------------------------------------------
(* Every step keeps the invariant.                                         *)

\* An empty topic satisfies the invariant.
LEMMA InitInv ==
    Init => Inv
<1>. SUFFICES ASSUME Init PROVE Inv
    OBVIOUS
<1>1. DOMAIN topic = {} /\ end = 0 /\ sequence = 0 /\ phase = "down"
    BY DEF Init
<1>2. TopicInv(topic, end, sequence)
    BY <1>1 DEF TopicInv, Restored
<1>. QED BY <1>1, <1>2 DEF Inv

\* A process that starts has read nothing.
LEMMA OpenInv ==
    ASSUME Inv, Open
    PROVE  Inv'
<1>1. /\ phase' = "opening" /\ position' = 0 /\ items' = {} /\ snapshot' = None /\ base' = 0
      /\ topic' = topic /\ end' = end /\ sequence' = sequence
    BY DEF Open, broker
<1>2. TopicInv(topic, end, sequence)
    BY DEF Inv
<1>3. end \in Nat /\ DOMAIN topic \subseteq 1 .. end
    BY <1>2 DEF TopicInv
<1>4. ReaderInv(topic, end, sequence, 0, {}, None, 0)
    BY <1>3 DEF ReaderInv
<1>. QED BY <1>1, <1>2, <1>4 DEF Inv

\* The consumer reads the next record that compaction has left.
LEMMA ConsumeInv ==
    ASSUME Inv, Consume
    PROVE  Inv'
<1>. DEFINE i == Min(Unread)
<1>1. /\ TopicInv(topic, end, sequence)
      /\ ReaderInv(topic, end, sequence, position, items, snapshot, base)
    BY DEF Inv, Consume
<1>2. end \in Nat /\ DOMAIN topic \subseteq 1 .. end /\ position \in 0 .. end
    BY <1>1 DEF TopicInv, ReaderInv
<1>3. i \in Unread /\ \A j \in Unread : i <= j
    <2>1. Unread \in SUBSET Nat /\ Unread # {}
        BY <1>2 DEF Unread, Consume
    <2>. QED BY <2>1, MinIsLeast
<1>4. /\ Acceptable(topic[i])
      /\ position' = i
      /\ items' = IF topic[i].key = "transition" THEN items \cup {topic[i].seq} ELSE items
      /\ snapshot' = IF topic[i].key = "snapshot" THEN topic[i].seq ELSE snapshot
      /\ base' = IF topic[i].key = "checkpoint" THEN topic[i].seq ELSE base
      /\ topic' = topic /\ end' = end /\ sequence' = sequence /\ phase' = phase /\ machine' = machine
    BY DEF Consume, broker
<1>. HIDE DEF i
<1>5. i \in DOMAIN topic /\ i > position /\ i \in 1 .. end
    BY <1>2, <1>3 DEF Unread
<1>6. \A j \in DOMAIN topic : j <= position \/ i <= j
    BY <1>2, <1>3 DEF Unread
<1>7. Restored(topic) \in Nat /\ Restored(topic) <= sequence /\ sequence \in Nat
    BY <1>1, RestoredIsNatural DEF TopicInv
<1>8. topic[i].key \in {"transition", "snapshot", "checkpoint"} /\ topic[i].seq \in Nat
    BY <1>1, <1>5 DEF TopicInv, Record
<1>9. \A n \in items' : n \in Nat /\ Restored(topic) < n /\ n <= sequence
    <2>1. topic[i].key = "transition" => Restored(topic) < topic[i].seq /\ topic[i].seq <= sequence
        BY <1>1, <1>5 DEF TopicInv
    <2>2. \A n \in items : n \in Nat /\ Restored(topic) < n /\ n <= sequence
        BY <1>1 DEF ReaderInv
    <2>. QED BY <2>1, <2>2, <1>4, <1>8
<1>10. ASSUME NEW j \in DOMAIN topic, j <= i, topic[j].key = "transition"
       PROVE  topic[j].seq \in items'
    <2>1. CASE j <= position
        BY <2>1, <1>1, <1>4, <1>10 DEF ReaderInv
    <2>2. CASE i <= j
        <3>1. j = i
            BY <2>2, <1>10, <1>2, <1>5
        <3>. QED BY <3>1, <1>4, <1>10
    <2>. QED BY <2>1, <2>2, <1>6
<1>11. topic[i].key = "checkpoint" => i = 2
    BY <1>1, <1>5 DEF TopicInv
<1>12. base' = IF i >= 2 THEN Restored(topic) ELSE 0
    <2>1. base = IF position >= 2 THEN Restored(topic) ELSE 0
        BY <1>1 DEF ReaderInv
    <2>2. CASE topic[i].key = "checkpoint"
        BY <2>2, <1>4, <1>5, <1>11 DEF Restored
    <2>3. CASE topic[i].key # "checkpoint" /\ position >= 2
        BY <2>1, <2>3, <1>2, <1>4, <1>5
    <2>4. CASE topic[i].key # "checkpoint" /\ ~ (position >= 2)
        <3>1. base' = 0
            BY <2>1, <2>4, <1>4
        <3>2. CASE i >= 2
            <4>1. 2 \in DOMAIN topic => i = 2
                BY <3>2, <2>4, <1>2, <1>5, <1>6
            <4>2. Restored(topic) = 0
                BY <4>1, <2>4 DEF Restored
            <4>. QED BY <3>1, <3>2, <4>2
        <3>3. CASE ~ (i >= 2)
            BY <3>1, <3>3
        <3>. QED BY <3>2, <3>3
    <2>. QED BY <2>2, <2>3, <2>4
<1>13. snapshot' # None => snapshot' \in Nat /\ Restored(topic) <= snapshot'
    <2>1. topic[i].key = "snapshot" => Restored(topic) <= topic[i].seq
        BY <1>1, <1>5 DEF TopicInv
    <2>2. snapshot # None => snapshot \in Nat /\ Restored(topic) <= snapshot
        BY <1>1 DEF ReaderInv
    <2>. QED BY <2>1, <2>2, <1>4, <1>8
<1>14. base' # 0 => snapshot' # None
    <2>1. base # 0 => snapshot # None
        BY <1>1 DEF ReaderInv
    <2>2. topic[i].key = "checkpoint" => snapshot = topic[i].seq
        BY <1>4 DEF Acceptable
    <2>. QED BY <2>1, <2>2, <1>4, <1>8, TopicAssumption
<1>15. i = 1 /\ 1 \in DOMAIN topic /\ topic[1].key = "snapshot" => snapshot' = topic[1].seq
    BY <1>4
<1>16. i \in 0 .. end
    BY <1>5, <1>2
<1>17. ReaderInv(topic, end, sequence, i, items', snapshot', base')
    BY <1>9, <1>10, <1>12, <1>13, <1>14, <1>15, <1>16 DEF ReaderInv
<1>. QED BY <1>1, <1>4, <1>17 DEF Inv

\* Recovery takes the snapshot and the transitions after it, if they join.
LEMMA RecoverInv ==
    ASSUME Inv, Recover
    PROVE  Inv'
<1>1. /\ phase = "opening" /\ Unread = {} /\ machine' = LastSequence /\ phase' = "serving"
      /\ topic' = topic /\ end' = end /\ sequence' = sequence
      /\ position' = position /\ items' = items /\ snapshot' = snapshot /\ base' = base
    BY DEF Recover, broker, store
<1>2. machine' = sequence
    BY <1>1, ReadEverything
<1>3. /\ TopicInv(topic, end, sequence)
      /\ ReaderInv(topic, end, sequence, position, items, snapshot, base)
    BY <1>1 DEF Inv
<1>4. Restored(topic) \in Nat /\ Restored(topic) <= sequence /\ sequence \in Nat
    BY <1>3, RestoredIsNatural DEF TopicInv
<1>5. ServingInv(topic, sequence, sequence)
    BY <1>4 DEF ServingInv
<1>. QED BY <1>1, <1>2, <1>3, <1>5 DEF Inv

\* A commit appends the transition after the last one.
LEMMA CommitInv ==
    ASSUME Inv, Commit
    PROVE  Inv'
<1>. DEFINE x == Entry("transition", machine + 1)
<1>1. /\ phase = "serving" /\ machine = LastSequence /\ Unread = {}
      /\ Write(<<x>>) /\ sequence' = machine + 1 /\ phase' = phase /\ machine' = machine
      /\ position' = position /\ items' = items /\ snapshot' = snapshot /\ base' = base
    BY DEF Commit, store
<1>2. machine = sequence
    BY <1>1, ReadEverything
<1>3. /\ TopicInv(topic, end, sequence)
      /\ ReaderInv(topic, end, sequence, position, items, snapshot, base)
      /\ ServingInv(topic, sequence, machine)
    BY <1>1 DEF Inv
<1>4. end \in Nat /\ sequence \in Nat /\ DOMAIN topic \subseteq 1 .. end /\ (end # 0 => end \in DOMAIN topic)
    BY <1>3 DEF TopicInv
<1>5. Restored(topic) \in Nat /\ Restored(topic) <= sequence
    BY <1>3, RestoredIsNatural
<1>6. x.key = "transition" /\ x.seq = sequence + 1 /\ x \in Record
    BY <1>2, <1>4 DEF Entry, Record
<1>. HIDE DEF x
<1>7. end' = end + 1 /\ Appended(topic, end, topic', x)
    BY <1>1, <1>4, WriteOne
<1>8. sequence' = sequence + 1 /\ sequence' \in Nat /\ sequence <= sequence'
    BY <1>1, <1>2, <1>4
<1>9. TopicInv(topic', end + 1, sequence') /\ Restored(topic') = Restored(topic)
    BY <1>3, <1>5, <1>6, <1>7, <1>8, AppendTopicInv
<1>10. ReaderInv(topic', end + 1, sequence', position, items, snapshot, base)
    BY <1>3, <1>4, <1>7, <1>8, <1>9, AppendReaderInv
<1>11. ServingInv(topic', sequence', machine)
    BY <1>2, <1>4, <1>5, <1>8, <1>9 DEF ServingInv
<1>. QED BY <1>1, <1>7, <1>9, <1>10, <1>11 DEF Inv

\* The consumer reads it and the machine publishes.
LEMMA PublishInv ==
    ASSUME Inv, Publish
    PROVE  Inv'
<1>1. /\ phase = "serving" /\ machine + 1 \in items /\ machine' = machine + 1
      /\ topic' = topic /\ end' = end /\ sequence' = sequence /\ phase' = phase
      /\ position' = position /\ items' = items /\ snapshot' = snapshot /\ base' = base
    BY DEF Publish, broker, store
<1>2. /\ TopicInv(topic, end, sequence)
      /\ ReaderInv(topic, end, sequence, position, items, snapshot, base)
      /\ ServingInv(topic, sequence, machine)
    BY <1>1 DEF Inv
<1>3. Restored(topic) \in Nat /\ sequence \in Nat
    BY <1>2, RestoredIsNatural DEF TopicInv
<1>4. machine + 1 <= sequence
    BY <1>1, <1>2 DEF ReaderInv
<1>5. ServingInv(topic, sequence, machine')
    BY <1>1, <1>2, <1>3, <1>4 DEF ServingInv
<1>. QED BY <1>1, <1>2, <1>5 DEF Inv

\* A snapshot of the served state is appended.
LEMMA SaveSnapshotInv ==
    ASSUME Inv, SaveSnapshot
    PROVE  Inv'
<1>. DEFINE x == Entry("snapshot", machine)
<1>1. phase = "serving" /\ Write(<<x>>) /\ phase' = "down" /\ sequence' = sequence
    BY DEF SaveSnapshot
<1>2. TopicInv(topic, end, sequence) /\ ServingInv(topic, sequence, machine)
    BY <1>1 DEF Inv
<1>3. end \in Nat /\ DOMAIN topic \subseteq 1 .. end
    BY <1>2 DEF TopicInv
<1>4. x.key = "snapshot" /\ Restored(topic) <= x.seq /\ x.seq <= sequence /\ x \in Record
    BY <1>2 DEF Entry, Record, ServingInv
<1>. HIDE DEF x
<1>5. end' = end + 1 /\ Appended(topic, end, topic', x)
    BY <1>1, <1>3, WriteOne
<1>6. TopicInv(topic', end + 1, sequence)
    BY <1>2, <1>4, <1>5, AppendTopicInv
<1>. QED BY <1>1, <1>5, <1>6 DEF Inv

\* A backup is written into an empty topic.
LEMMA RestoreSnapshotInv ==
    ASSUME Inv, NEW b \in Backup, RestoreSnapshot(b)
    PROVE  Inv'
<1>1. /\ phase' = "down" /\ DOMAIN topic = {} /\ sequence' = b
      /\ Write(<<Entry("snapshot", b), Entry("checkpoint", b)>>)
    BY DEF RestoreSnapshot
<1>2. end = 0
    BY <1>1 DEF Inv, TopicInv
<1>3. /\ end' = 2 /\ DOMAIN topic' = {1, 2}
      /\ topic'[1] = Entry("snapshot", b) /\ topic'[2] = Entry("checkpoint", b)
    BY <1>1, <1>2, WriteTwo
<1>4. b \in Nat
    BY TopicAssumption
<1>5. Restored(topic') = b
    BY <1>3 DEF Restored, Entry
<1>6. b + 1 .. b = {}
    BY <1>4
<1>7. TopicInv(topic', 2, b)
    BY <1>3, <1>4, <1>5, <1>6 DEF TopicInv, Record, Entry
<1>. QED BY <1>1, <1>3, <1>7 DEF Inv

\* Compaction drops a record that has a later one under its key.
LEMMA CompactInv ==
    ASSUME Inv, NEW i \in DOMAIN topic, Compact(i)
    PROVE  Inv'
<1>1. /\ end' = end /\ sequence' = sequence /\ phase' = phase /\ machine' = machine
      /\ position' = position /\ items' = items /\ snapshot' = snapshot /\ base' = base
    BY DEF Compact, store
<1>2. Compacted(topic, topic', i)
    BY DEF Compact, Compacted
<1>3. TopicInv(topic', end, sequence) /\ Restored(topic') = Restored(topic)
    BY <1>2, CompactTopicInv DEF Inv
<1>4. phase # "down" => ReaderInv(topic', end, sequence, position, items, snapshot, base)
    BY <1>2, <1>3, CompactReaderInv DEF Inv
<1>5. phase = "serving" => ServingInv(topic', sequence, machine)
    BY <1>3 DEF Inv, ServingInv
<1>. QED BY <1>1, <1>3, <1>4, <1>5 DEF Inv

\* Every step keeps the invariant.
LEMMA StepInv ==
    Inv /\ [Next]_vars => Inv'
<1>. SUFFICES ASSUME Inv, [Next]_vars PROVE Inv'
    OBVIOUS
<1>1. CASE Open
    BY <1>1, OpenInv
<1>2. CASE Consume
    BY <1>2, ConsumeInv
<1>3. CASE Recover
    BY <1>3, RecoverInv
<1>4. CASE Commit
    BY <1>4, CommitInv
<1>5. CASE Publish
    BY <1>5, PublishInv
<1>6. CASE SaveSnapshot
    BY <1>6, SaveSnapshotInv
<1>7. CASE Exit
    BY <1>7 DEF Exit, broker, Inv
<1>8. CASE \E b \in Backup : RestoreSnapshot(b)
    BY <1>8, RestoreSnapshotInv
<1>9. CASE \E i \in DOMAIN topic : Compact(i)
    BY <1>9, CompactInv
<1>10. CASE UNCHANGED vars
    BY <1>10 DEF vars, broker, store, Inv
<1>. QED BY <1>1, <1>2, <1>3, <1>4, <1>5, <1>6, <1>7, <1>8, <1>9, <1>10 DEF Next

\* The invariant holds for ever.
LEMMA InvariantHolds ==
    Spec => []Inv
BY InitInv, StepInv, PTL DEF Spec

-----------------------------------------------------------------------------
(* What the runs check, for every topic.                                   *)

\* Wherever the cleaner, a crash or a restart strikes, the latest snapshot and
\* the transitions after it make up the promised registry.
THEOREM TheTopicKeepsEverything ==
    Spec => []NothingIsLost
<1>1. Inv => NothingIsLost
    <2>. SUFFICES ASSUME Inv PROVE NothingIsLost
        OBVIOUS
    <2>. DEFINE snapshots == {i \in DOMAIN topic : topic[i].key = "snapshot"}
                covered == IF snapshots = {} THEN 0 ELSE topic[Max(snapshots)].seq
    <2>1. TopicInv(topic, end, sequence)
        BY DEF Inv
    <2>2. /\ end \in Nat /\ sequence \in Nat /\ DOMAIN topic \subseteq 1 .. end
          /\ Restored(topic) \in Nat /\ Restored(topic) <= sequence
        BY <2>1, RestoredIsNatural DEF TopicInv
    <2>3. covered \in Nat /\ covered <= sequence /\ Restored(topic) <= covered
        <3>1. CASE snapshots = {}
            <4>1. ~ (2 \in DOMAIN topic /\ topic[2].key = "checkpoint")
                BY <3>1, <2>1 DEF TopicInv
            <4>2. Restored(topic) = 0
                BY <4>1 DEF Restored
            <4>. QED BY <3>1, <4>2, <2>2
        <3>2. CASE snapshots # {}
            <4>1. snapshots \in SUBSET Int /\ \A i \in snapshots : i <= end
                BY <2>2
            <4>2. end \in Int
                BY <2>2
            <4>3. Max(snapshots) \in snapshots
                <5>. HIDE DEF snapshots
                <5>. QED BY <3>2, <4>1, <4>2, MaxIsGreatest, Zenon
            <4>4. \A i \in snapshots :
                    topic[i].seq \in Nat /\ Restored(topic) <= topic[i].seq /\ topic[i].seq <= sequence
                BY <2>1 DEF TopicInv, Record
            <4>. HIDE DEF snapshots
            <4>. QED BY <3>2, <4>3, <4>4
        <3>. QED BY <3>1, <3>2
    <2>. HIDE DEF covered
    <2>4. ASSUME NEW n \in covered + 1 .. sequence
          PROVE  \E i \in DOMAIN topic : topic[i] = Entry("transition", n)
        <3>1. n \in Restored(topic) + 1 .. sequence
            BY <2>2, <2>3
        <3>. QED BY <3>1, <2>1 DEF TopicInv
    <2>. QED BY <2>3, <2>4 DEF NothingIsLost, covered
<1>. QED BY <1>1, InvariantHolds, PTL

\* A process that serves and has read the topic knows every promised transition,
\* and its machine has applied all of them but the one being committed.
THEOREM NothingIsHidden ==
    Spec => []ServesEverything
<1>1. Inv => ServesEverything
    <2>. SUFFICES ASSUME Inv, phase = "serving", Unread = {}
                  PROVE  LastSequence = sequence /\ machine >= sequence - 1
        BY DEF ServesEverything
    <2>1. LastSequence = sequence
        BY ReadEverything
    <2>2. ServingInv(topic, sequence, machine) /\ sequence \in Nat
        BY DEF Inv, TopicInv
    <2>. QED BY <2>1, <2>2 DEF ServingInv
<1>. QED BY <1>1, InvariantHolds, PTL

\* Open fails on a topic this program wrote only where a checkpoint has lost the
\* snapshot it names, or is one of sequence 0.
THEOREM OpeningFailsOnlyWithoutTheBackup ==
    Spec => []TopicOpensUnlessBackupIsGone
<1>1. Inv => TopicOpensUnlessBackupIsGone
    <2>. SUFFICES ASSUME Inv, phase = "opening", ~ BackupIsGone
                  PROVE  IF Unread = {} THEN Recoverable ELSE Acceptable(topic[Min(Unread)])
        BY DEF TopicOpensUnlessBackupIsGone
    <2>1. /\ TopicInv(topic, end, sequence)
          /\ ReaderInv(topic, end, sequence, position, items, snapshot, base)
        BY DEF Inv
    <2>2. CASE Unread = {}
        <3>1. base + 1 .. LastSequence \subseteq items /\ base = Restored(topic)
            BY <2>2, ReadEverything
        <3>2. Restored(topic) \in Nat
            BY <2>1, RestoredIsNatural
        <3>3. (IF snapshot = None THEN 0 ELSE snapshot) >= base
            BY <2>1, <3>1, <3>2 DEF ReaderInv
        <3>. QED BY <2>2, <3>1, <3>3 DEF Recoverable
    <2>3. CASE Unread # {}
        <3>. DEFINE i == Min(Unread)
        <3>1. end \in Nat /\ DOMAIN topic \subseteq 1 .. end /\ position \in 0 .. end
            BY <2>1 DEF TopicInv, ReaderInv
        <3>2. i \in Unread /\ \A j \in Unread : i <= j
            <4>1. Unread \in SUBSET Nat
                BY <3>1 DEF Unread
            <4>. QED BY <2>3, <4>1, MinIsLeast
        <3>. HIDE DEF i
        <3>3. ASSUME topic[i].key = "checkpoint"
              PROVE  topic[i].seq # 0 /\ topic[i].seq = snapshot
            <4>1. i \in DOMAIN topic /\ i > position
                BY <3>2 DEF Unread
            <4>2. i = 2
                BY <2>1, <4>1, <3>3 DEF TopicInv
            <4>3. topic[i].seq # 0 /\ \E j \in DOMAIN topic : j < i /\ topic[j] = Entry("snapshot", topic[i].seq)
                BY <4>1, <3>3 DEF BackupIsGone
            <4>4. PICK j \in DOMAIN topic : j < i /\ topic[j] = Entry("snapshot", topic[i].seq)
                BY <4>3
            <4>5. j = 1
                BY <4>2, <4>4, <3>1
            <4>6. position = 1
                BY <4>1, <4>2, <4>5, <3>1, <3>2 DEF Unread
            <4>7. snapshot = topic[1].seq
                BY <2>1, <4>4, <4>5, <4>6 DEF ReaderInv, Entry
            <4>. QED BY <4>3, <4>4, <4>5, <4>7 DEF Entry
        <3>. QED BY <2>3, <3>3 DEF Acceptable, i
    <2>. QED BY <2>2, <2>3
<1>. QED BY <1>1, InvariantHolds, PTL
=============================================================================
