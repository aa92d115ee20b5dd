-------------------------- MODULE KafkaClusterProofs --------------------------
(***************************************************************************)
(* Proofs about KafkaCluster, for any replicas, operations and faults.     *)
(***************************************************************************)
EXTENDS KafkaCluster, SequenceTheorems, FunctionTheorems, FiniteSetTheorems, WellFoundedInduction, TLAPS

(* Offsets and sequences have a least element, and a greatest one if       *)
(* bounded.                                                                *)

\* A set of natural numbers has a least element.
LEMMA LeastElement ==
    ASSUME NEW S \in SUBSET Nat, S # {}
    PROVE  \E x \in S : \A y \in S : x <= y
<1>1. \E x \in S : \A y \in S : ~ (<<y, x>> \in OpToRel(<, Nat))
    BY NatLessThanWellFounded, WFMin, Zenon
<1>2. \A x, y \in Nat : ~ (<<y, x>> \in OpToRel(<, Nat)) => x <= y
    BY DEF OpToRel
<1>. QED BY <1>1, <1>2

\* A bounded set of integers has a greatest element, which is what Max returns.
LEMMA MaxIsGreatest ==
    ASSUME NEW b \in Int, NEW S \in SUBSET Int, S # {}, \A x \in S : x <= b
    PROVE  Max(S) \in S /\ \A y \in S : Max(S) >= y
<1>. DEFINE T == {b - x : x \in S}
<1>1. T \in SUBSET Nat
    <2>1. \A x \in S : b - x \in Nat
        OBVIOUS
    <2>. QED BY <2>1
<1>2. T # {}
    OBVIOUS
<1>3. PICK t \in T : \A y \in T : t <= y
    BY <1>1, <1>2, LeastElement
<1>4. PICK x \in S : t = b - x
    BY <1>3
<1>5. \A y \in S : x >= y
    BY <1>3, <1>4
<1>. QED BY <1>5 DEF Max

-----------------------------------------------------------------------------
(* The inductive invariant.  Its parts are about a log, so that they can be *)
(* said of the log before and after each half of a step.                    *)

\* Committed and Chosen, for the records of a log l.
CommittedIn(l, kind) == {i \in DOMAIN l : l[i].status = "committed" /\ l[i].kind = kind}

ChosenIn(l) ==
    {i \in CommittedIn(l, "transition") :
        \A j \in 1 .. i - 1 :
            l[j].status = "committed" /\ l[j].kind = "transition" => l[j].num # l[i].num}

\* The records of a transaction that has not ended are the last ones.
OpenRecordsAreLast(l) ==
    \A i, j \in DOMAIN l : i < j /\ l[i].status = "open" => l[j].status = "open"

\* Sequences and epochs begin with 1; a transition is an operation's, and there
\* are not fewer records than its sequence says.
RecordsAreNumbered(l) ==
    \A i \in DOMAIN l :
        /\ l[i].num # 0
        /\ l[i].kind = "transition" => l[i].op \in OperationID /\ l[i].num <= i

\* The announcements between records j and i are aborted.
NoneBetween(l, j, i) ==
    \A k \in DOMAIN l : j < k /\ k < i /\ l[k].kind = "primary" => l[k].status = "aborted"

\* A transition that is not aborted was written under the announcement of a
\* primary that was committed then, and was the last one.
WrittenInTerm(l) ==
    \A i \in DOMAIN l : l[i].kind = "transition" /\ l[i].status # "aborted" =>
        \E j \in CommittedIn(l, "primary") :
            j < i /\ l[j].by = l[i].by /\ l[j].num = l[i].epoch /\ NoneBetween(l, j, i)

\* The places before that of a transition are taken, by other operations.
PlacesBefore(l, num, op) ==
    \A m \in 1 .. num - 1 : \E j \in ChosenIn(l) : l[j].num = m /\ l[j].op # op

PredecessorsAreChosen(l) ==
    \A i \in DOMAIN l : l[i].kind = "transition" => PlacesBefore(l, l[i].num, l[i].op)

LogInv(l) ==
    /\ l \in Seq(Record)
    /\ OpenRecordsAreLast(l)
    /\ RecordsAreNumbered(l)
    /\ WrittenInTerm(l)
    /\ PredecessorsAreChosen(l)

-----------------------------------------------------------------------------
(* How the log changes.                                                    *)

\* Log m is log l some steps later.
Follows(l, m) ==
    /\ Len(l) <= Len(m)
    /\ \A i \in DOMAIN l :
          /\ m[i].kind = l[i].kind /\ m[i].num = l[i].num /\ m[i].op = l[i].op
          /\ m[i].by = l[i].by /\ m[i].epoch = l[i].epoch
          /\ l[i].status # "open" => m[i].status = l[i].status

\* A log is a function from places to records.
LEMMA LogIsFunction ==
    ASSUME NEW l \in Seq(Record)
    PROVE  /\ Len(l) \in Nat /\ DOMAIN l = 1 .. Len(l)
           /\ \A i \in DOMAIN l : l[i] \in Record
BY LenProperties, ElementOfSeq

\* The end of a transaction gives open records their fate and changes nothing else.
LEMMA SettleShape ==
    ASSUME NEW l \in Seq(Record), NEW fate \in {"committed", "aborted"}
    PROVE  LET m == Settle(l, fate)
           IN  /\ m \in Seq(Record)
               /\ Len(m) = Len(l)
               /\ \A i \in DOMAIN l :
                     /\ m[i].kind = l[i].kind /\ m[i].num = l[i].num /\ m[i].op = l[i].op
                     /\ m[i].by = l[i].by /\ m[i].epoch = l[i].epoch
                     /\ m[i].status = IF l[i].status = "open" THEN fate ELSE l[i].status
<1>. DEFINE m == Settle(l, fate)
            new(i) == IF l[i].status = "open" THEN [l[i] EXCEPT !.status = fate] ELSE l[i]
<1>1. Len(l) \in Nat /\ DOMAIN l = 1 .. Len(l) /\ \A i \in DOMAIN l : l[i] \in Record
    BY LogIsFunction
<1>2. m = [i \in 1 .. Len(l) |-> new(i)]
    BY <1>1 DEF Settle
<1>3. \A i \in 1 .. Len(l) :
          /\ new(i) \in Record
          /\ new(i).kind = l[i].kind /\ new(i).num = l[i].num /\ new(i).op = l[i].op
          /\ new(i).by = l[i].by /\ new(i).epoch = l[i].epoch
          /\ new(i).status = IF l[i].status = "open" THEN fate ELSE l[i].status
    BY <1>1 DEF Record
<1>. HIDE DEF new
<1>4. m \in [1 .. Len(l) -> Record]
    BY <1>2, <1>3
<1>5. m \in Seq(Record)
    BY <1>4, <1>1, SeqDef
<1>6. Len(m) = Len(l)
    BY <1>4, <1>1, <1>5, LenProperties
<1>. QED BY <1>1, <1>2, <1>3, <1>5, <1>6

\* A record that is produced is the last one.
LEMMA AppendShape ==
    ASSUME NEW l \in Seq(Record), NEW rec \in Record
    PROVE  LET m == Append(l, rec)
           IN  /\ m \in Seq(Record)
               /\ Len(m) = Len(l) + 1 /\ DOMAIN m = DOMAIN l \cup {Len(l) + 1}
               /\ \A i \in DOMAIN l : m[i] = l[i]
               /\ m[Len(l) + 1] = rec
<1>1. Len(l) \in Nat /\ DOMAIN l = 1 .. Len(l)
    BY LogIsFunction
<1>2. Append(l, rec) \in Seq(Record) /\ Len(Append(l, rec)) = Len(l) + 1
    BY AppendProperties
<1>3. DOMAIN Append(l, rec) = 1 .. Len(l) + 1
    BY <1>2, LogIsFunction
<1>. QED BY <1>1, <1>2, <1>3, AppendProperties

\* The end of a transaction leads to a later log.
LEMMA SettleFollows ==
    ASSUME NEW l \in Seq(Record), NEW fate \in {"committed", "aborted"}
    PROVE  Follows(l, Settle(l, fate))
BY SettleShape, LogIsFunction DEF Follows

\* So does a record that is produced.
LEMMA AppendFollows ==
    ASSUME NEW l \in Seq(Record), NEW rec \in Record
    PROVE  Follows(l, Append(l, rec))
BY AppendShape, LogIsFunction DEF Follows

\* And so do several such steps.
LEMMA FollowsIsTransitive ==
    ASSUME NEW l \in Seq(Record), NEW m \in Seq(Record), NEW n \in Seq(Record),
           Follows(l, m), Follows(m, n)
    PROVE  Follows(l, n)
<1>1. Len(l) \in Nat /\ Len(m) \in Nat /\ Len(n) \in Nat /\ DOMAIN l \subseteq DOMAIN m
    BY LogIsFunction DEF Follows
<1>. QED BY <1>1 DEF Follows

\* A chosen transition stays chosen.
LEMMA ChosenStay ==
    ASSUME NEW l \in Seq(Record), NEW m \in Seq(Record), Follows(l, m), OpenRecordsAreLast(l)
    PROVE  /\ DOMAIN l \subseteq DOMAIN m
           /\ \A kind : CommittedIn(l, kind) \subseteq CommittedIn(m, kind)
           /\ ChosenIn(l) \subseteq ChosenIn(m)
<1>1. /\ DOMAIN l = 1 .. Len(l) /\ DOMAIN m = 1 .. Len(m)
      /\ DOMAIN l \subseteq DOMAIN m /\ Len(l) \in Nat /\ Len(m) \in Nat
    BY LogIsFunction DEF Follows
<1>2. \A kind : CommittedIn(l, kind) \subseteq CommittedIn(m, kind)
    BY <1>1 DEF Follows, CommittedIn
<1>3. ASSUME NEW i \in ChosenIn(l)
      PROVE  i \in ChosenIn(m)
    <2>1. i \in CommittedIn(l, "transition") /\ i \in DOMAIN l /\ l[i].status = "committed"
        BY <1>3 DEF ChosenIn, CommittedIn
    <2>2. \A j \in 1 .. i - 1 : j \in DOMAIN l /\ l[j].status # "open" /\ j < i
        BY <1>1, <2>1 DEF OpenRecordsAreLast
    <2>3. \A j \in 1 .. i - 1 :
              m[j].status = "committed" /\ m[j].kind = "transition" => m[j].num # m[i].num
        BY <1>3, <2>1, <2>2 DEF Follows, ChosenIn
    <2>. QED BY <1>2, <2>1, <2>3 DEF ChosenIn
<1>. QED BY <1>1, <1>2, <1>3

\* A chosen transition stays chosen: nothing is committed before it any more.
LEMMA ChosenKeep ==
    ASSUME NEW l \in Seq(Record), NEW m \in Seq(Record), Follows(l, m), OpenRecordsAreLast(l)
    PROVE  \A i \in ChosenIn(l) : i \in ChosenIn(m) /\ m[i].num = l[i].num /\ m[i].op = l[i].op
<1>1. ChosenIn(l) \subseteq ChosenIn(m)
    BY ChosenStay
<1>2. ChosenIn(l) \subseteq DOMAIN l
    BY DEF ChosenIn, CommittedIn
<1>3. \A i \in DOMAIN l : m[i].num = l[i].num /\ m[i].op = l[i].op
    BY DEF Follows
<1>. QED BY <1>1, <1>2, <1>3

\* So the places before a transition stay taken by the same operations.
LEMMA PlacesStay ==
    ASSUME NEW l \in Seq(Record), NEW m \in Seq(Record), Follows(l, m), OpenRecordsAreLast(l),
           NEW num \in Nat, NEW op, PlacesBefore(l, num, op)
    PROVE  PlacesBefore(m, num, op)
BY ChosenKeep DEF PlacesBefore

\* Every committed sequence has its chosen transition.
LEMMA FirstIsChosen ==
    ASSUME NEW l \in Seq(Record), NEW i \in CommittedIn(l, "transition")
    PROVE  \E j \in ChosenIn(l) : l[j].num = l[i].num
<1>. DEFINE S == {j \in CommittedIn(l, "transition") : l[j].num = l[i].num}
<1>1. DOMAIN l = 1 .. Len(l) /\ Len(l) \in Nat
    BY LogIsFunction
<1>2. S \in SUBSET Nat /\ S # {}
    BY <1>1 DEF CommittedIn
<1>3. PICK j \in S : \A k \in S : j <= k
    BY <1>2, LeastElement
<1>4. j \in DOMAIN l /\ j \in CommittedIn(l, "transition") /\ l[j].num = l[i].num
    BY <1>3 DEF CommittedIn
<1>5. \A k \in 1 .. j - 1 :
          l[k].status = "committed" /\ l[k].kind = "transition" => l[k].num # l[j].num
    <2>. SUFFICES ASSUME NEW k \in 1 .. j - 1,
                         l[k].status = "committed", l[k].kind = "transition", l[k].num = l[j].num
                  PROVE  FALSE
        OBVIOUS
    <2>1. k \in DOMAIN l /\ ~ (j <= k)
        BY <1>1, <1>4
    <2>2. k \in S
        BY <2>1, <1>4 DEF CommittedIn
    <2>. QED BY <2>1, <2>2, <1>3
<1>. QED BY <1>4, <1>5 DEF ChosenIn

\* The end of a transaction, with either fate.
LEMMA SettleInv ==
    ASSUME NEW l, LogInv(l), NEW fate \in {"committed", "aborted"}
    PROVE  LogInv(Settle(l, fate))
<1>. DEFINE m == Settle(l, fate)
<1>1. l \in Seq(Record)
    BY DEF LogInv
<1>2. /\ m \in Seq(Record) /\ Len(m) = Len(l) /\ DOMAIN m = DOMAIN l
      /\ Len(l) \in Nat /\ DOMAIN l = 1 .. Len(l)
      /\ \A i \in DOMAIN l :
            /\ m[i].kind = l[i].kind /\ m[i].num = l[i].num /\ m[i].op = l[i].op
            /\ m[i].by = l[i].by /\ m[i].epoch = l[i].epoch
            /\ m[i].status = IF l[i].status = "open" THEN fate ELSE l[i].status
    BY <1>1, SettleShape, LogIsFunction
<1>3. Follows(l, m)
    BY <1>1, SettleFollows
<1>. HIDE DEF m
<1>4. OpenRecordsAreLast(m)
    BY <1>2 DEF OpenRecordsAreLast
<1>5. RecordsAreNumbered(m)
    BY <1>2 DEF RecordsAreNumbered, LogInv
<1>6. WrittenInTerm(m)
    <2>. SUFFICES ASSUME NEW i \in DOMAIN m, m[i].kind = "transition", m[i].status # "aborted"
                  PROVE  \E j \in CommittedIn(m, "primary") :
                            /\ j < i /\ m[j].by = m[i].by /\ m[j].num = m[i].epoch
                            /\ NoneBetween(m, j, i)
        BY DEF WrittenInTerm
    <2>1. i \in DOMAIN l /\ l[i].kind = "transition" /\ l[i].status # "aborted"
        BY <1>2
    <2>2. PICK j \in CommittedIn(l, "primary") :
                j < i /\ l[j].by = l[i].by /\ l[j].num = l[i].epoch /\ NoneBetween(l, j, i)
        BY <2>1 DEF LogInv, WrittenInTerm
    <2>3. j \in DOMAIN l /\ j \in CommittedIn(m, "primary")
        BY <1>2, <2>2 DEF CommittedIn
    <2>4. NoneBetween(m, j, i)
        BY <1>2, <2>2 DEF NoneBetween
    <2>. QED BY <1>2, <2>1, <2>2, <2>3, <2>4
<1>7. PredecessorsAreChosen(m)
    <2>. SUFFICES ASSUME NEW i \in DOMAIN m, m[i].kind = "transition"
                  PROVE  PlacesBefore(m, m[i].num, m[i].op)
        BY DEF PredecessorsAreChosen
    <2>1. i \in DOMAIN l /\ m[i].num = l[i].num /\ m[i].op = l[i].op /\ l[i].num \in Nat
        BY <1>1, <1>2, LogIsFunction DEF Record
    <2>2. PlacesBefore(l, l[i].num, l[i].op)
        BY <1>2, <2>1 DEF LogInv, PredecessorsAreChosen
    <2>3. PlacesBefore(m, l[i].num, l[i].op)
        BY <1>1, <1>2, <1>3, <2>1, <2>2, PlacesStay DEF LogInv
    <2>. QED BY <2>1, <2>3
<1>. QED BY <1>2, <1>4, <1>5, <1>6, <1>7 DEF LogInv, m

\* A record is produced: for a transition, under the last announcement.
LEMMA AppendInv ==
    ASSUME NEW l, LogInv(l), NEW rec \in Record,
           rec.status = "open", rec.num # 0,
           rec.kind = "transition" =>
              /\ rec.op \in OperationID /\ rec.num <= Len(l) + 1
              /\ PlacesBefore(l, rec.num, rec.op)
              /\ \E j \in CommittedIn(l, "primary") :
                    l[j].by = rec.by /\ l[j].num = rec.epoch /\ NoneBetween(l, j, Len(l) + 1)
    PROVE  LogInv(Append(l, rec))
<1>. DEFINE m == Append(l, rec)
<1>1. l \in Seq(Record)
    BY DEF LogInv
<1>2. /\ m \in Seq(Record) /\ Len(m) = Len(l) + 1 /\ DOMAIN m = DOMAIN l \cup {Len(l) + 1}
      /\ Len(l) \in Nat /\ DOMAIN l = 1 .. Len(l)
      /\ \A i \in DOMAIN l : m[i] = l[i]
      /\ m[Len(l) + 1] = rec
    BY <1>1, AppendShape, LogIsFunction
<1>3. Follows(l, m)
    BY <1>1, AppendFollows
<1>. HIDE DEF m
<1>4. OpenRecordsAreLast(m)
    <2>. SUFFICES ASSUME NEW i \in DOMAIN m, NEW j \in DOMAIN m, i < j, m[i].status = "open"
                  PROVE  m[j].status = "open"
        BY DEF OpenRecordsAreLast
    <2>1. CASE j = Len(l) + 1
        BY <1>2, <2>1
    <2>2. CASE j # Len(l) + 1
        <3>1. i \in DOMAIN l /\ j \in DOMAIN l
            BY <1>2, <2>2
        <3>. QED BY <1>2, <3>1 DEF LogInv, OpenRecordsAreLast
    <2>. QED BY <2>1, <2>2
<1>5. RecordsAreNumbered(m)
    BY <1>2 DEF RecordsAreNumbered, LogInv
<1>6. WrittenInTerm(m)
    <2>. SUFFICES ASSUME NEW i \in DOMAIN m, m[i].kind = "transition", m[i].status # "aborted"
                  PROVE  \E j \in CommittedIn(m, "primary") :
                            /\ j < i /\ m[j].by = m[i].by /\ m[j].num = m[i].epoch
                            /\ NoneBetween(m, j, i)
        BY DEF WrittenInTerm
    <2>1. \E j \in CommittedIn(l, "primary") :
                /\ j < i /\ l[j].by = m[i].by /\ l[j].num = m[i].epoch /\ NoneBetween(l, j, i)
        <3>1. CASE i = Len(l) + 1
            BY <1>2, <3>1 DEF CommittedIn
        <3>2. CASE i # Len(l) + 1
            BY <1>2, <3>2 DEF LogInv, WrittenInTerm
        <3>. QED BY <3>1, <3>2
    <2>2. PICK j \in CommittedIn(l, "primary") :
                j < i /\ l[j].by = m[i].by /\ l[j].num = m[i].epoch /\ NoneBetween(l, j, i)
        BY <2>1
    <2>3. j \in DOMAIN l /\ j \in CommittedIn(m, "primary")
        BY <1>2, <2>2 DEF CommittedIn
    <2>4. NoneBetween(m, j, i)
        BY <1>2, <2>2 DEF NoneBetween
    <2>. QED BY <1>2, <2>2, <2>3, <2>4
<1>7. PredecessorsAreChosen(m)
    <2>. SUFFICES ASSUME NEW i \in DOMAIN m, m[i].kind = "transition"
                  PROVE  PlacesBefore(m, m[i].num, m[i].op)
        BY DEF PredecessorsAreChosen
    <2>1. m[i].num \in Nat
        BY <1>2, LogIsFunction DEF Record
    <2>2. PlacesBefore(l, m[i].num, m[i].op)
        <3>1. CASE i = Len(l) + 1
            BY <1>2, <3>1
        <3>2. CASE i # Len(l) + 1
            BY <1>2, <3>2 DEF LogInv, PredecessorsAreChosen
        <3>. QED BY <3>1, <3>2
    <2>. QED BY <1>1, <1>2, <1>3, <2>1, <2>2, PlacesStay DEF LogInv
<1>. QED BY <1>2, <1>4, <1>5, <1>6, <1>7 DEF LogInv, m

-----------------------------------------------------------------------------
(* The replicas.                                                           *)

\* A store that has read p records of log l holds the chosen transitions among
\* them, and the machine those of the store it was given.
ReadBy(l, p, its, mach) ==
    /\ p \in 0 .. Len(l)
    /\ \A i \in 1 .. p : l[i].status # "open"
    /\ \A i \in 1 .. p : i \in CommittedIn(l, "transition") => l[i].num \in DOMAIN its
    /\ \A n \in DOMAIN its : its[n] \in 1 .. p /\ its[n] \in ChosenIn(l) /\ l[its[n]].num = n
    /\ \A n \in DOMAIN mach : n \in DOMAIN its /\ mach[n] = its[n]

\* The job of replica r: a command is planned for the place after the machine's
\* state, which does not hold its operation; the record it wrote is its own.
JobIs(l, r, j, mach) ==
    /\ j.kind = "none" <=> j.step \in {"open", "idle"}
    /\ j.step = "catchup" => j.kind = "primary"
    /\ j.step \in {"init", "produce", "end", "wait"} => j.num # 0
    /\ j.step \in {"open", "idle", "catchup", "init", "produce"} => j.rec = 0
    /\ j.step = "end" => j.rec # 0
    /\ j.kind = "transition" =>
          /\ j.step \in {"produce", "end", "wait"}
          /\ j.num = Len(mach) + 1
          /\ j.op \in OperationID
          /\ \A n \in DOMAIN mach : l[mach[n]].op # j.op
    /\ j.rec # 0 =>
          /\ j.rec \in DOMAIN l
          /\ l[j.rec].kind = j.kind /\ l[j.rec].num = j.num /\ l[j.rec].op = j.op
          /\ l[j.rec].by = r

\* A lease of the store is known to the coordinator, which announces itself only
\* without one, and the producer that announced it is the one that commits.
LeaseIs(j, ls, hl, aq, dr, prod) ==
    /\ ls # None => prod /\ ls \in {hl, aq} \cup dr
    /\ aq # None => hl = None
    /\ j.kind = "primary" => ls = None /\ hl = None /\ aq = None /\ dr = {}
    /\ j.kind = "transition" => ls # None
    /\ j.step = "init" => ~prod
    /\ j.kind = "primary" /\ j.step \in {"produce", "end", "wait"} => prod

\* The last announcement that is not aborted is committed: epoch e of replica r.
LastAnnounced(l, r, e) ==
    \E i \in CommittedIn(l, "primary") :
        l[i].by = r /\ l[i].num = e /\ NoneBetween(l, i, Len(l) + 1)

\* While the transactional ID belongs to replica r, the last announcement is the
\* one its lease is from, or the one it waits for, and the record of the
\* transaction it is ending is the last one.
TermIs(l, own, exp, r, j, ls) ==
    own = r =>
        /\ ls # None => LastAnnounced(l, r, ls.epoch)
        /\ j.kind = "primary" /\ j.step = "wait" =>
              /\ Len(l) \in CommittedIn(l, "primary")
              /\ l[Len(l)].by = r /\ l[Len(l)].num = j.num
        /\ j.step = "end" /\ ~exp => j.rec = Len(l) /\ l[j.rec].status = "open"

Shape ==
    /\ owner \in Replica \cup {None} /\ expired \in BOOLEAN
    /\ position \in [Replica -> Nat]
    /\ DOMAIN items = Replica
    /\ {primary, lease, held, acquired} \subseteq [Replica -> Lease \cup {None}]
    /\ {producing, assigned} \subseteq [Replica -> BOOLEAN]
    /\ job \in [Replica -> Job]
    /\ machine \in [Replica -> Seq(Nat)]
    /\ dropping \in [Replica -> SUBSET Lease]
    /\ faults \in 0 .. MaxFaults

\* Every answer names the place of a chosen transition and its operation.
AnswersAre(l, answers) ==
    \A a \in answers : \E i \in ChosenIn(l) : a = [seq |-> l[i].num, op |-> l[i].op]

ReplicaInv(r) ==
    /\ ReadBy(log, position[r], items[r], machine[r])
    /\ JobIs(log, r, job[r], machine[r])
    /\ LeaseIs(job[r], lease[r], held[r], acquired[r], dropping[r], producing[r])
    /\ TermIs(log, owner, expired, r, job[r], lease[r])

\* The inductive invariant.
Inv ==
    /\ Shape
    /\ LogInv(log)
    /\ AnswersAre(log, acked)
    /\ \A r \in Replica : ReplicaInv(r)

\* Nothing of replica s changes.
Kept(s) ==
    /\ position'[s] = position[s] /\ items'[s] = items[s] /\ machine'[s] = machine[s]
    /\ job'[s] = job[s] /\ lease'[s] = lease[s] /\ producing'[s] = producing[s]
    /\ held'[s] = held[s] /\ acquired'[s] = acquired[s] /\ dropping'[s] = dropping[s]

-----------------------------------------------------------------------------
(* What a longer log leaves true.                                          *)

\* What a consumer has read does not change under it.
LEMMA ReadStays ==
    ASSUME NEW l \in Seq(Record), NEW m \in Seq(Record), Follows(l, m), OpenRecordsAreLast(l),
           NEW p, NEW its, NEW mach, ReadBy(l, p, its, mach)
    PROVE  ReadBy(m, p, its, mach)
<1>1. /\ Len(l) \in Nat /\ DOMAIN l = 1 .. Len(l) /\ Len(m) \in Nat /\ DOMAIN m = 1 .. Len(m)
      /\ Len(l) <= Len(m) /\ p \in 0 .. Len(l)
    BY LogIsFunction DEF Follows, ReadBy
<1>2. p \in 0 .. Len(m) /\ \A i \in 1 .. p : i \in DOMAIN l
    BY <1>1
<1>3. \A i \in 1 .. p : m[i].status = l[i].status /\ m[i].kind = l[i].kind /\ m[i].num = l[i].num
    BY <1>2 DEF Follows, ReadBy
<1>4. \A i \in 1 .. p : m[i].status # "open"
    BY <1>3 DEF ReadBy
<1>5. \A i \in 1 .. p : i \in CommittedIn(m, "transition") => m[i].num \in DOMAIN its
    BY <1>2, <1>3 DEF ReadBy, CommittedIn
<1>6. \A n \in DOMAIN its : its[n] \in 1 .. p /\ its[n] \in ChosenIn(m) /\ m[its[n]].num = n
    BY <1>3, ChosenStay DEF ReadBy
<1>. QED BY <1>2, <1>4, <1>5, <1>6 DEF ReadBy

\* What a commit or an activation knows of the log survives the steps of others.
LEMMA JobStays ==
    ASSUME NEW l \in Seq(Record), NEW m \in Seq(Record), Follows(l, m),
           NEW p, NEW its, NEW mach, ReadBy(l, p, its, mach),
           NEW r, NEW j, JobIs(l, r, j, mach)
    PROVE  JobIs(m, r, j, mach)
<1>1. DOMAIN l = 1 .. Len(l) /\ DOMAIN m = 1 .. Len(m) /\ DOMAIN l \subseteq DOMAIN m
    BY LogIsFunction DEF Follows
<1>2. \A n \in DOMAIN mach : mach[n] \in DOMAIN l
    BY <1>1, LogIsFunction DEF ReadBy, ChosenIn, CommittedIn
<1>3. \A n \in DOMAIN mach : m[mach[n]].op = l[mach[n]].op
    BY <1>2 DEF Follows
<1>4. j.rec # 0 =>
          /\ j.rec \in DOMAIN m
          /\ m[j.rec].kind = j.kind /\ m[j.rec].num = j.num /\ m[j.rec].op = j.op
          /\ m[j.rec].by = r
    BY <1>1 DEF JobIs, Follows
<1>. QED BY <1>3, <1>4 DEF JobIs

\* Answers stay true.
LEMMA AnswersStay ==
    ASSUME NEW l \in Seq(Record), NEW m \in Seq(Record), Follows(l, m), OpenRecordsAreLast(l),
           NEW answers, AnswersAre(l, answers)
    PROVE  AnswersAre(m, answers)
BY ChosenKeep DEF AnswersAre

\* A log that did not change is a later log.
LEMMA FollowsItself ==
    ASSUME NEW l \in Seq(Record)
    PROVE  Follows(l, l)
BY LogIsFunction DEF Follows

\* A replica that does not take part in a step keeps its invariant.
LEMMA OthersKeep ==
    ASSUME Inv, NEW s \in Replica, Kept(s), log' \in Seq(Record), Follows(log, log'),
           owner' = s => owner = s /\ log' = log /\ expired' = expired
    PROVE  ReplicaInv(s)'
<1>1. log \in Seq(Record) /\ OpenRecordsAreLast(log) /\ ReplicaInv(s)
    BY DEF Inv, LogInv
<1>2. ReadBy(log', position[s], items[s], machine[s])
    BY <1>1, ReadStays DEF ReplicaInv
<1>3. JobIs(log', s, job[s], machine[s])
    BY <1>1, JobStays DEF ReplicaInv
<1>4. TermIs(log', owner', expired', s, job[s], lease[s])
    BY <1>1 DEF ReplicaInv, TermIs
<1>. QED BY <1>1, <1>2, <1>3, <1>4 DEF ReplicaInv, Kept

\* A step of replica r.
LEMMA StepKeeps ==
    ASSUME Inv, NEW r \in Replica, Shape', LogInv(log'), Follows(log, log'),
           \A s \in Replica \ {r} : Kept(s),
           log' # log \/ owner' # owner \/ expired' # expired => owner' = r,
           AnswersAre(log', acked'), ReplicaInv(r)'
    PROVE  Inv'
<1>1. log' \in Seq(Record)
    BY DEF LogInv
<1>2. ASSUME NEW s \in Replica \ {r}
      PROVE  ReplicaInv(s)'
    <2>1. owner' = s => owner = s /\ log' = log /\ expired' = expired
        OBVIOUS
    <2>. QED BY <1>1, <2>1, OthersKeep
<1>3. \A s \in Replica : ReplicaInv(s)'
    BY <1>2
<1>. QED BY <1>3 DEF Inv

-----------------------------------------------------------------------------
(* Steps that leave the broker alone.                                      *)

\* At sets the step of a job alone.
LEMMA AtIs ==
    ASSUME NEW j \in Job,
           NEW step \in {"open", "idle", "catchup", "init", "produce", "end", "wait"}
    PROVE  /\ At(j, step) \in Job
           /\ At(j, step).step = step /\ At(j, step).kind = j.kind
           /\ At(j, step).num = j.num /\ At(j, step).op = j.op
           /\ At(j, step).rec = j.rec
BY DEF At, Job

\* Numbered sets the sequence or epoch of a job alone.
LEMMA NumberedIs ==
    ASSUME NEW j \in Job, NEW num \in Nat
    PROVE  /\ Numbered(j, num) \in Job
           /\ Numbered(j, num).step = j.step /\ Numbered(j, num).kind = j.kind
           /\ Numbered(j, num).num = num /\ Numbered(j, num).op = j.op
           /\ Numbered(j, num).rec = j.rec
BY DEF Numbered, Job

\* Written sets the place of the record of a job alone.
LEMMA WrittenIs ==
    ASSUME NEW j \in Job, NEW rec \in Nat
    PROVE  /\ Written(j, rec) \in Job
           /\ Written(j, rec).step = j.step /\ Written(j, rec).kind = j.kind
           /\ Written(j, rec).num = j.num /\ Written(j, rec).op = j.op
           /\ Written(j, rec).rec = rec
BY DEF Written, Job

\* A job can end at any time: nothing is required of an idle replica.
LEMMA IdleFits ==
    /\ Idle \in Job
    /\ \A l, r, mach : JobIs(l, r, Idle, mach)
    /\ \A j, ls, hl, aq, dr, prod : LeaseIs(j, ls, hl, aq, dr, prod) => LeaseIs(Idle, ls, hl, aq, dr, prod)
    /\ \A l, own, exp, r, j, ls : TermIs(l, own, exp, r, j, ls) => TermIs(l, own, exp, r, Idle, ls)
<1>1. Idle \in Job
    BY DEF Idle, Job
<1>2. Idle.step = "idle" /\ Idle.kind = "none" /\ Idle.rec = 0
    BY DEF Idle
<1>3. \A l, r, mach : JobIs(l, r, Idle, mach)
    BY <1>2 DEF JobIs
<1>4. \A j, ls, hl, aq, dr, prod : LeaseIs(j, ls, hl, aq, dr, prod) => LeaseIs(Idle, ls, hl, aq, dr, prod)
    BY <1>2 DEF LeaseIs
<1>5. \A l, own, exp, r, j, ls : TermIs(l, own, exp, r, j, ls) => TermIs(l, own, exp, r, Idle, ls)
    BY <1>2 DEF TermIs
<1>. QED BY <1>1, <1>3, <1>4, <1>5

\* A step of one replica that leaves the broker alone concerns that replica only.
LEMMA QuietStep ==
    ASSUME Inv, NEW r \in Replica, Shape', UNCHANGED broker,
           \A s \in Replica \ {r} : Kept(s),
           AnswersAre(log, acked'), ReplicaInv(r)'
    PROVE  Inv'
<1>1. log' = log /\ owner' = owner /\ expired' = expired
    BY DEF broker
<1>2. LogInv(log') /\ Follows(log, log')
    BY <1>1, FollowsItself DEF Inv, LogInv
<1>. QED BY <1>1, <1>2, StepKeeps

\* A job that ends without an effect.
LEMMA GivesUp ==
    ASSUME Inv, NEW r \in Replica, job' = [job EXCEPT ![r] = Idle],
           UNCHANGED <<broker, store, producing, machine, coordinator, acked>>,
           faults' \in 0 .. MaxFaults
    PROVE  Inv'
<1>. USE DEF broker, store, coordinator
<1>1. Shape'
    BY IdleFits DEF Inv, Shape
<1>2. job'[r] = Idle /\ \A s \in Replica \ {r} : Kept(s)
    BY DEF Inv, Shape, Kept
<1>3. ReplicaInv(r)'
    BY <1>2, IdleFits DEF Inv, ReplicaInv
<1>. QED BY <1>1, <1>2, <1>3, QuietStep DEF Inv

\* The number of faults stays within its bound.
LEMMA FaultIsCounted ==
    ASSUME Inv, Fault \/ UNCHANGED faults
    PROVE  faults' \in 0 .. MaxFaults
BY SentinelAssumption DEF Inv, Shape, Fault

\* The consumer applies the next stable record or refuses it.
LEMMA ConsumeInv ==
    ASSUME Inv, NEW r \in Replica, Consume(r)
    PROVE  Inv'
<1>. DEFINE i == position[r] + 1
<1>1. /\ log \in Seq(Record) /\ Len(log) \in Nat /\ DOMAIN log = 1 .. Len(log)
      /\ \A k \in DOMAIN log : log[k] \in Record /\ log[k].num # 0
    BY LogIsFunction DEF Inv, LogInv, RecordsAreNumbered
<1>2. i \in DOMAIN log /\ i \in Nat /\ \A k \in 1 .. i : log[k].status # "open"
    BY <1>1 DEF Consume, Consumable, Stable, Inv, Shape
<1>3. ReadBy(log, position[r], items[r], machine[r])
    BY DEF Inv, ReplicaInv
<1>4. position' = [position EXCEPT ![r] = i]
    BY DEF Consume
<1>5. ReadBy(log, i, items'[r], machine[r])
    <2>1. CASE log[i].status = "committed" /\ log[i].kind = "transition" /\ log[i].num \notin DOMAIN items[r]
        <3>1. items'[r] = [n \in DOMAIN items[r] \cup {log[i].num} |->
                              IF n = log[i].num THEN i ELSE items[r][n]]
            BY <2>1 DEF Consume, Inv, Shape
        <3>2. i \in CommittedIn(log, "transition")
            BY <1>2, <2>1 DEF CommittedIn
        <3>3. \A k \in 1 .. i - 1 :
                  log[k].status = "committed" /\ log[k].kind = "transition" => log[k].num # log[i].num
            <4>1. \A k \in 1 .. i - 1 : k \in 1 .. position[r] /\ k \in DOMAIN log
                BY <1>1, <1>2, <1>3 DEF ReadBy
            <4>. QED BY <1>3, <2>1, <4>1 DEF ReadBy, CommittedIn
        <3>4. i \in ChosenIn(log)
            BY <3>2, <3>3 DEF ChosenIn
        <3>5. \A k \in 1 .. i : k = i \/ k \in 1 .. position[r]
            BY <1>2, <1>3 DEF ReadBy
        <3>6. \A k \in 1 .. position[r] : k \in 1 .. i
            BY <1>2, <1>3 DEF ReadBy
        <3>7. \A k \in 1 .. i : k \in CommittedIn(log, "transition") => log[k].num \in DOMAIN items'[r]
            BY <1>3, <3>1, <3>5 DEF ReadBy
        <3>8. \A n \in DOMAIN items'[r] :
                  items'[r][n] \in 1 .. i /\ items'[r][n] \in ChosenIn(log) /\ log[items'[r][n]].num = n
            <4>1. i \in 1 .. i
                BY <1>2, <1>1
            <4>. QED BY <1>3, <3>1, <3>4, <3>6, <4>1 DEF ReadBy
        <3>9. \A n \in DOMAIN machine[r] : n \in DOMAIN items'[r] /\ machine[r][n] = items'[r][n]
            BY <1>3, <2>1, <3>1 DEF ReadBy
        <3>10. i \in 0 .. Len(log)
            BY <1>1, <1>2
        <3>. QED BY <1>2, <3>7, <3>8, <3>9, <3>10 DEF ReadBy
    <2>2. CASE ~ (log[i].status = "committed" /\ log[i].kind = "transition" /\ log[i].num \notin DOMAIN items[r])
        <3>1. items'[r] = items[r]
            BY <2>2 DEF Consume
        <3>5. \A k \in 1 .. i : k = i \/ k \in 1 .. position[r]
            BY <1>2, <1>3 DEF ReadBy
        <3>6. \A k \in 1 .. position[r] : k \in 1 .. i
            BY <1>2, <1>3 DEF ReadBy
        <3>7. \A k \in 1 .. i : k \in CommittedIn(log, "transition") => log[k].num \in DOMAIN items'[r]
            BY <1>3, <2>2, <3>1, <3>5 DEF ReadBy, CommittedIn
        <3>10. i \in 0 .. Len(log)
            BY <1>1, <1>2
        <3>. QED BY <1>2, <1>3, <3>1, <3>6, <3>7, <3>10 DEF ReadBy
    <2>. QED BY <2>1, <2>2
<1>6. Shape'
    <2>1. [holder |-> log[i].by, epoch |-> log[i].num] \in Lease
        BY <1>1, <1>2 DEF Lease, Record
    <2>2. primary' \in [Replica -> Lease \cup {None}]
        BY <2>1 DEF Consume, Inv, Shape
    <2>3. DOMAIN items' = Replica
        BY DEF Consume, Inv, Shape
    <2>. QED BY <1>2, <1>4, <2>2, <2>3 DEF Consume, Inv, Shape, broker, coordinator
<1>7. position'[r] = i /\ UNCHANGED <<broker, job, machine, lease, producing, coordinator, acked>>
    BY <1>4 DEF Consume, Inv, Shape
<1>8. \A s \in Replica \ {r} : Kept(s)
    BY <1>4, <1>7 DEF Consume, Inv, Shape, Kept, coordinator
<1>9. ReplicaInv(r)'
    BY <1>5, <1>7 DEF ReplicaInv, Inv, broker, coordinator
<1>. QED BY <1>6, <1>7, <1>8, <1>9, QuietStep DEF Inv

\* The keys of a store are its chosen sequences, which are not more than the
\* records of the log.
LEMMA KeysAreSequences ==
    ASSUME NEW l, LogInv(l), NEW p, NEW its, NEW mach, ReadBy(l, p, its, mach)
    PROVE  /\ Len(l) \in Nat /\ DOMAIN l = 1 .. Len(l)
           /\ \A n \in DOMAIN its :
                 /\ n \in 1 .. Len(l) /\ its[n] \in DOMAIN l /\ its[n] \in Nat
                 /\ l[its[n]].op \in OperationID
<1>1. /\ l \in Seq(Record) /\ Len(l) \in Nat /\ DOMAIN l = 1 .. Len(l)
      /\ \A i \in DOMAIN l : l[i].num \in Nat \ {0}
    BY LogIsFunction DEF LogInv, RecordsAreNumbered, Record
<1>2. ASSUME NEW n \in DOMAIN its
      PROVE  /\ n \in 1 .. Len(l) /\ its[n] \in DOMAIN l /\ its[n] \in Nat
             /\ l[its[n]].op \in OperationID
    <2>1. its[n] \in ChosenIn(l) /\ l[its[n]].num = n
        BY DEF ReadBy
    <2>2. its[n] \in DOMAIN l /\ l[its[n]].kind = "transition"
        BY <2>1 DEF ChosenIn, CommittedIn
    <2>3. l[its[n]].op \in OperationID /\ l[its[n]].num <= its[n]
        BY <2>2 DEF LogInv, RecordsAreNumbered
    <2>. QED BY <1>1, <2>1, <2>2, <2>3
<1>. QED BY <1>1, <1>2

\* The sequence of a store is the largest it has read.
LEMMA LastSequenceIsMax ==
    ASSUME Inv, NEW r \in Replica
    PROVE  LastSequence(r) \in Nat /\ \A n \in DOMAIN items[r] : n <= LastSequence(r)
<1>. DEFINE S == DOMAIN items[r] \cup {0}
<1>1. Len(log) \in Nat /\ \A n \in DOMAIN items[r] : n \in 1 .. Len(log)
    BY KeysAreSequences DEF Inv, ReplicaInv
<1>2. S \in SUBSET Int /\ S # {} /\ \A x \in S : x <= Len(log)
    BY <1>1
<1>3. LastSequence(r) = Max(S)
    BY DEF LastSequence
<1>4. DOMAIN items[r] \subseteq S /\ S \subseteq Nat
    BY <1>1
<1>. HIDE DEF S
<1>5. Max(S) \in S /\ \A y \in S : Max(S) >= y
    <2>1. Len(log) \in Int
        BY <1>1
    <2>. QED BY <1>2, <2>1, MaxIsGreatest, Zenon
<1>. QED BY <1>3, <1>4, <1>5

\* A replica has caught up and starts to serve.
LEMMA OpenInv ==
    ASSUME Inv, NEW r \in Replica, Open(r)
    PROVE  Inv'
<1>. DEFINE N == LastSequence(r)
            mach == [n \in 1 .. N |-> items[r][n]]
<1>1. N \in Nat /\ DOMAIN items[r] = 1 .. N
    BY LastSequenceIsMax DEF Open, Complete
<1>2. \A n \in 1 .. N : items[r][n] \in Nat
    BY <1>1, KeysAreSequences DEF Inv, ReplicaInv
<1>3. mach \in [1 .. N -> Nat]
    BY <1>2
<1>4. mach \in Seq(Nat)
    BY <1>1, <1>3, SeqDef
<1>5. machine' = [machine EXCEPT ![r] = mach] /\ job' = [job EXCEPT ![r] = Idle]
    BY DEF Open
<1>6. ReadBy(log, position[r], items[r], mach)
    BY <1>1 DEF Inv, ReplicaInv, ReadBy
<1>. HIDE DEF mach
<1>7. Shape'
    <2>1. job' \in [Replica -> Job] /\ machine' \in [Replica -> Seq(Nat)]
        BY <1>4, <1>5, IdleFits DEF Inv, Shape
    <2>2. UNCHANGED <<owner, expired, position, items, primary, lease, held, acquired,
                      producing, assigned, dropping, faults>>
        BY DEF Open, broker, store, coordinator
    <2>. QED BY <2>1, <2>2 DEF Inv, Shape
<1>8. machine'[r] = mach /\ job'[r] = Idle
    BY <1>5 DEF Inv, Shape
<1>9. \A s \in Replica \ {r} : Kept(s)
    BY <1>5 DEF Open, Inv, Shape, Kept, store, coordinator
<1>10. /\ JobIs(log, r, Idle, mach)
       /\ LeaseIs(Idle, lease[r], held[r], acquired[r], dropping[r], producing[r])
       /\ TermIs(log, owner, expired, r, Idle, lease[r])
    BY IdleFits DEF Inv, ReplicaInv
<1>11. ReplicaInv(r)'
    BY <1>6, <1>8, <1>10 DEF Open, ReplicaInv, broker, store, coordinator
<1>. QED BY <1>7, <1>9, <1>11, QuietStep DEF Open, Inv

\* The machine is handed the next transition of the store: by Follow, or for an
\* operation that was found in the topic.
LEMMA Published ==
    ASSUME Inv, NEW r \in Replica, Len(machine[r]) + 1 \in DOMAIN items[r],
           machine' = [machine EXCEPT ![r] = Append(@, items[r][Len(machine[r]) + 1])],
           (job' = job /\ job[r].kind # "transition") \/ job' = [job EXCEPT ![r] = Idle],
           UNCHANGED <<broker, store, producing, coordinator, faults>>,
           AnswersAre(log, acked')
    PROVE  Inv'
<1>. DEFINE n == Len(machine[r]) + 1
            e == items[r][n]
            mach == Append(machine[r], e)
<1>. USE DEF broker, store, coordinator
<1>1. machine[r] \in Seq(Nat) /\ Len(machine[r]) \in Nat /\ DOMAIN machine[r] = 1 .. Len(machine[r])
    BY LenProperties DEF Inv, Shape
<1>2. ReadBy(log, position[r], items[r], machine[r])
    BY DEF Inv, ReplicaInv
<1>3. e \in Nat
    BY <1>2, KeysAreSequences DEF Inv
<1>4. /\ mach \in Seq(Nat) /\ Len(mach) = n /\ DOMAIN mach = 1 .. n
      /\ \A k \in 1 .. Len(machine[r]) : mach[k] = machine[r][k]
      /\ mach[n] = e
    BY <1>1, <1>3, AppendProperties, LenProperties
<1>5. \A k \in 1 .. n : k = n \/ k \in DOMAIN machine[r]
    BY <1>1
<1>. HIDE DEF mach
<1>6. ReadBy(log, position[r], items[r], mach)
    BY <1>1, <1>2, <1>4, <1>5 DEF ReadBy
<1>7. Shape'
    BY <1>4, IdleFits DEF Inv, Shape, mach
<1>8. machine'[r] = mach /\ (job'[r] = Idle \/ (job'[r] = job[r] /\ job[r].kind # "transition"))
    <2>1. machine'[r] = mach
        BY DEF Inv, Shape, mach
    <2>2. job'[r] = Idle \/ (job'[r] = job[r] /\ job[r].kind # "transition")
        BY DEF Inv, Shape
    <2>. QED BY <2>1, <2>2
<1>9. \A s \in Replica \ {r} : Kept(s)
    BY DEF Inv, Shape, Kept
<1>10. JobIs(log, r, job'[r], mach)
    <2>1. JobIs(log, r, Idle, mach)
        BY IdleFits
    <2>2. CASE job'[r] = job[r] /\ job[r].kind # "transition"
        <3>1. JobIs(log, r, job[r], machine[r])
            BY DEF Inv, ReplicaInv
        <3>2. \A j : j.kind # "transition" /\ JobIs(log, r, j, machine[r]) => JobIs(log, r, j, mach)
            BY DEF JobIs
        <3>. QED BY <2>2, <3>1, <3>2
    <2>. QED BY <1>8, <2>1, <2>2
<1>11. /\ LeaseIs(Idle, lease[r], held[r], acquired[r], dropping[r], producing[r])
       /\ TermIs(log, owner, expired, r, Idle, lease[r])
    BY IdleFits DEF Inv, ReplicaInv
<1>12. /\ LeaseIs(job'[r], lease[r], held[r], acquired[r], dropping[r], producing[r])
       /\ TermIs(log, owner, expired, r, job'[r], lease[r])
    BY <1>8, <1>11 DEF Inv, ReplicaInv
<1>13. ReplicaInv(r)'
    BY <1>6, <1>8, <1>10, <1>12 DEF ReplicaInv
<1>. QED BY <1>7, <1>9, <1>13, QuietStep

\* The machine applies the next transition of its store.
LEMMA FollowInv ==
    ASSUME Inv, NEW r \in Replica, Follow(r)
    PROVE  Inv'
BY Published DEF Follow, Locked, Inv

\* An answer that names a chosen transition may be given.
LEMMA AnswerAdded ==
    ASSUME Inv, NEW i \in ChosenIn(log),
           acked' = acked \cup {[seq |-> log[i].num, op |-> log[i].op]}
    PROVE  AnswersAre(log, acked')
BY DEF Inv, AnswersAre

\* A commit finds the very transition it would write in its store.
LEMMA CommitRetryInv ==
    ASSUME Inv, NEW r \in Replica, NEW o \in OperationID, CommitRetry(r, o)
    PROVE  Inv'
<1>. DEFINE n == Len(machine[r]) + 1
<1>1. n \in DOMAIN items[r] /\ log[items[r][n]].op = o
    BY DEF CommitRetry
<1>2. items[r][n] \in ChosenIn(log) /\ log[items[r][n]].num = n
    BY <1>1 DEF Inv, ReplicaInv, ReadBy
<1>3. AnswersAre(log, acked')
    BY <1>1, <1>2, AnswerAdded DEF CommitRetry
<1>4. job' = job /\ job[r].kind # "transition"
    BY DEF CommitRetry, Idle
<1>. QED BY <1>1, <1>3, <1>4, Published DEF CommitRetry

\* A commit sees its own record come back through the consumer.
LEMMA CommitObservedInv ==
    ASSUME Inv, NEW r \in Replica, CommitObserved(r)
    PROVE  Inv'
<1>. DEFINE n == Len(machine[r]) + 1
<1>1. /\ job[r].num = n /\ n \in DOMAIN items[r]
      /\ job[r].rec # 0 => log[job[r].rec].op = job[r].op
    BY DEF CommitObserved, Inv, ReplicaInv, JobIs
<1>2. items[r][n] \in ChosenIn(log) /\ log[items[r][n]].num = n /\ items[r][n] # 0
    BY <1>1 DEF Inv, ReplicaInv, ReadBy
<1>3. log[items[r][n]].op = job[r].op
    BY <1>1, <1>2 DEF CommitObserved, Observed
<1>4. AnswersAre(log, acked')
    BY <1>1, <1>2, <1>3, AnswerAdded DEF CommitObserved
<1>. QED BY <1>1, <1>4, Published DEF CommitObserved

\* A retry is answered from the machine.
LEMMA AnswerRetryInv ==
    ASSUME Inv, NEW r \in Replica, NEW o \in OperationID, AnswerRetry(r, o)
    PROVE  Inv'
<1>. USE DEF broker, store, coordinator
<1>1. PICK n \in DOMAIN machine[r] :
          log[machine[r][n]].op = o /\ acked' = acked \cup {[seq |-> n, op |-> o]}
    BY DEF AnswerRetry
<1>2. machine[r][n] \in ChosenIn(log) /\ log[machine[r][n]].num = n
    BY <1>1 DEF Inv, ReplicaInv, ReadBy
<1>3. AnswersAre(log, acked')
    BY <1>1, <1>2, AnswerAdded
<1>4. Shape' /\ \A s \in Replica : Kept(s)
    BY DEF AnswerRetry, Inv, Shape, Kept
<1>5. ReplicaInv(r)'
    BY DEF AnswerRetry, Inv, ReplicaInv
<1>. QED BY <1>3, <1>4, <1>5, QuietStep DEF AnswerRetry

\* A commit or an activation gives up.
LEMMA GiveUpInv ==
    ASSUME Inv, NEW r \in Replica, CommitConflicts(r) \/ PrimarySuperseded(r) \/ WaitExpires(r)
    PROVE  Inv'
<1>1. Fault \/ UNCHANGED faults
    BY DEF CommitConflicts, PrimarySuperseded, WaitExpires
<1>2. faults' \in 0 .. MaxFaults
    BY <1>1, FaultIsCounted
<1>. QED BY <1>2, GivesUp DEF CommitConflicts, PrimarySuperseded, WaitExpires

-----------------------------------------------------------------------------
(* Steps of the job that holds commitMu.                                   *)

\* A step of the job of one replica, with what it does to the broker.
LEMMA JobStep ==
    ASSUME Inv, NEW r \in Replica, NEW j \in Job, job' = [job EXCEPT ![r] = j],
           UNCHANGED <<store, machine, coordinator, acked>>,
           producing' \in [Replica -> BOOLEAN],
           \A s \in Replica \ {r} : producing'[s] = producing[s],
           owner' \in Replica \cup {None}, expired' \in BOOLEAN, faults' \in 0 .. MaxFaults,
           LogInv(log'), Follows(log, log'),
           log' # log \/ owner' # owner \/ expired' # expired => owner' = r,
           JobIs(log', r, j, machine[r]),
           LeaseIs(j, lease[r], held[r], acquired[r], dropping[r], producing'[r]),
           TermIs(log', owner', expired', r, j, lease[r])
    PROVE  Inv'
<1>. USE DEF store, coordinator
<1>1. Shape'
    BY DEF Inv, Shape
<1>2. job'[r] = j /\ \A s \in Replica \ {r} : Kept(s)
    BY DEF Inv, Shape, Kept
<1>3. log \in Seq(Record) /\ OpenRecordsAreLast(log) /\ log' \in Seq(Record)
    BY DEF Inv, LogInv
<1>4. ReadBy(log', position[r], items[r], machine[r])
    BY <1>3, ReadStays DEF Inv, ReplicaInv
<1>5. AnswersAre(log', acked)
    BY <1>3, AnswersStay DEF Inv
<1>6. ReplicaInv(r)'
    BY <1>2, <1>4 DEF ReplicaInv
<1>. QED BY <1>1, <1>2, <1>5, <1>6, StepKeeps

\* A step of a job that leaves the broker alone.
LEMMA QuietJobStep ==
    ASSUME Inv, NEW r \in Replica, NEW j \in Job, job' = [job EXCEPT ![r] = j],
           UNCHANGED <<broker, store, producing, machine, coordinator, acked, faults>>,
           JobIs(log, r, j, machine[r]),
           LeaseIs(j, lease[r], held[r], acquired[r], dropping[r], producing[r]),
           TermIs(log, owner, expired, r, j, lease[r])
    PROVE  Inv'
<1>1. Follows(log, log) /\ LogInv(log)
    BY FollowsItself DEF Inv, LogInv
<1>2. /\ producing \in [Replica -> BOOLEAN] /\ owner \in Replica \cup {None}
      /\ expired \in BOOLEAN /\ faults \in 0 .. MaxFaults
    BY DEF Inv, Shape
<1>3. /\ log' = log /\ owner' = owner /\ expired' = expired
      /\ producing' = producing /\ faults' = faults
    BY DEF broker
<1>. QED BY <1>1, <1>2, <1>3, JobStep

\* A command plans its transition in the state of its machine.
LEMMA CommitInv ==
    ASSUME Inv, NEW r \in Replica, NEW o \in OperationID, Commit(r, o)
    PROVE  Inv'
<1>. DEFINE j == [step |-> FirstStep(r), kind |-> "transition",
                  num |-> Len(machine[r]) + 1, op |-> o, rec |-> 0, end |-> 0]
<1>1. job' = [job EXCEPT ![r] = j] /\ lease[r] # None /\ job[r] = Idle
    BY DEF Commit, CheckLeadership
<1>2. producing[r] /\ FirstStep(r) = "produce"
    BY <1>1 DEF Inv, ReplicaInv, LeaseIs, FirstStep
<1>3. Len(machine[r]) \in Nat
    BY LenProperties DEF Inv, Shape
<1>4. j \in Job
    BY <1>2, <1>3 DEF Job
<1>5. /\ j.step = "produce" /\ j.kind = "transition" /\ j.op = o /\ j.rec = 0
      /\ j.num = Len(machine[r]) + 1
    BY <1>2
<1>. HIDE DEF j
<1>6. JobIs(log, r, j, machine[r])
    BY <1>3, <1>5 DEF JobIs, Commit, Recorded
<1>7. LeaseIs(j, lease[r], held[r], acquired[r], dropping[r], producing[r])
    BY <1>1, <1>5 DEF LeaseIs, Inv, ReplicaInv
<1>8. TermIs(log, owner, expired, r, j, lease[r])
    BY <1>5 DEF TermIs, Inv, ReplicaInv
<1>. QED BY <1>1, <1>4, <1>6, <1>7, <1>8, QuietJobStep DEF Commit

\* The stable records can be counted.
LEMMA StableIsFinite ==
    ASSUME Inv
    PROVE  Cardinality(Stable) \in Nat
<1>1. Len(log) \in Nat /\ DOMAIN log = 1 .. Len(log)
    BY LogIsFunction DEF Inv, LogInv
<1>2. IsFiniteSet(DOMAIN log)
    BY <1>1, FS_Interval
<1>3. IsFiniteSet(Stable)
    BY <1>2, FS_Subset DEF Stable
<1>. QED BY <1>3, FS_CardinalityType

\* A replica that was assigned the partition begins to activate.
LEMMA ActivateInv ==
    ASSUME Inv, NEW r \in Replica, Activate(r)
    PROVE  Inv'
<1>. DEFINE c == Cardinality(Stable)
            j == [step |-> "catchup", kind |-> "primary", num |-> 0, op |-> None, rec |-> 0, end |-> c]
<1>1. /\ job' = [job EXCEPT ![r] = j]
      /\ held[r] = None /\ acquired[r] = None /\ dropping[r] = {}
    BY DEF Activate
<1>2. c \in Nat
    BY StableIsFinite
<1>. HIDE DEF c
<1>3. j \in Job
    BY <1>2 DEF Job
<1>4. j.step = "catchup" /\ j.kind = "primary" /\ j.num = 0 /\ j.rec = 0
    OBVIOUS
<1>5. lease[r] = None
    BY <1>1 DEF Inv, ReplicaInv, LeaseIs
<1>. HIDE DEF j
<1>6. JobIs(log, r, j, machine[r])
    BY <1>4 DEF JobIs
<1>7. LeaseIs(j, lease[r], held[r], acquired[r], dropping[r], producing[r])
    BY <1>1, <1>4, <1>5 DEF LeaseIs
<1>8. TermIs(log, owner, expired, r, j, lease[r])
    BY <1>4, <1>5 DEF TermIs
<1>. QED BY <1>1, <1>3, <1>6, <1>7, <1>8, QuietJobStep DEF Activate

\* An activation has read the topic to its end and chooses the next epoch.
LEMMA CatchUpInv ==
    ASSUME Inv, NEW r \in Replica, CatchUp(r)
    PROVE  Inv'
<1>. DEFINE e == EpochOf(primary[r]) + 1
            j == At(Numbered(job[r], e), FirstStep(r))
<1>1. job' = [job EXCEPT ![r] = j] /\ job[r] \in Job /\ job[r].step = "catchup"
    BY DEF CatchUp, Inv, Shape
<1>2. e \in Nat /\ e # 0
    BY DEF Inv, Shape, EpochOf, Lease
<1>3. FirstStep(r) \in {"init", "produce"} /\ (FirstStep(r) = "produce" <=> producing[r])
    BY DEF FirstStep
<1>4. j \in Job /\ j.step = FirstStep(r) /\ j.kind = job[r].kind /\ j.num = e /\ j.rec = job[r].rec
    <2>1. /\ Numbered(job[r], e) \in Job /\ Numbered(job[r], e).num = e
          /\ Numbered(job[r], e).kind = job[r].kind /\ Numbered(job[r], e).rec = job[r].rec
        BY <1>1, <1>2, NumberedIs
    <2>. QED BY <1>3, <2>1, AtIs
<1>5. job[r].kind = "primary" /\ job[r].rec = 0
    BY <1>1 DEF Inv, ReplicaInv, JobIs
<1>. HIDE DEF j, e
<1>6. JobIs(log, r, j, machine[r])
    BY <1>2, <1>3, <1>4, <1>5 DEF JobIs
<1>7. LeaseIs(j, lease[r], held[r], acquired[r], dropping[r], producing[r])
    BY <1>3, <1>4, <1>5 DEF LeaseIs, Inv, ReplicaInv
<1>8. TermIs(log, owner, expired, r, j, lease[r])
    BY <1>3, <1>4, <1>5 DEF TermIs, LeaseIs, Inv, ReplicaInv
<1>. QED BY <1>1, <1>4, <1>6, <1>7, <1>8, QuietJobStep DEF CatchUp

-----------------------------------------------------------------------------
(* Steps of the broker.                                                    *)

\* An announcement stays the last one while only transitions are written.
LEMMA AnnouncedStays ==
    ASSUME NEW l \in Seq(Record), NEW r, NEW e, LastAnnounced(l, r, e)
    PROVE  /\ \A fate \in {"committed", "aborted"} : LastAnnounced(Settle(l, fate), r, e)
           /\ \A rec \in Record : rec.kind = "transition" => LastAnnounced(Append(l, rec), r, e)
<1>1. Len(l) \in Nat /\ DOMAIN l = 1 .. Len(l)
    BY LogIsFunction
<1>2. PICK i \in CommittedIn(l, "primary") :
          l[i].by = r /\ l[i].num = e /\ NoneBetween(l, i, Len(l) + 1)
    BY DEF LastAnnounced
<1>3. /\ i \in DOMAIN l /\ i <= Len(l)
      /\ \A k \in DOMAIN l : i < k /\ l[k].kind = "primary" => l[k].status = "aborted"
    BY <1>1, <1>2 DEF CommittedIn, NoneBetween
<1>4. ASSUME NEW fate \in {"committed", "aborted"}
      PROVE  LastAnnounced(Settle(l, fate), r, e)
    <2>. DEFINE m == Settle(l, fate)
    <2>1. /\ Len(m) = Len(l) /\ DOMAIN m = DOMAIN l
          /\ \A k \in DOMAIN l :
                /\ m[k].kind = l[k].kind /\ m[k].num = l[k].num /\ m[k].by = l[k].by
                /\ m[k].status = IF l[k].status = "open" THEN fate ELSE l[k].status
        BY SettleShape, LogIsFunction
    <2>. HIDE DEF m
    <2>2. i \in CommittedIn(m, "primary") /\ m[i].by = r /\ m[i].num = e
        BY <1>2, <1>3, <2>1 DEF CommittedIn
    <2>3. NoneBetween(m, i, Len(m) + 1)
        BY <1>3, <2>1 DEF NoneBetween
    <2>4. LastAnnounced(m, r, e)
        BY <2>2, <2>3 DEF LastAnnounced
    <2>. QED BY <2>4 DEF m
<1>5. ASSUME NEW rec \in Record, rec.kind = "transition"
      PROVE  LastAnnounced(Append(l, rec), r, e)
    <2>. DEFINE m == Append(l, rec)
    <2>1. /\ Len(m) = Len(l) + 1 /\ DOMAIN m = DOMAIN l \cup {Len(l) + 1}
          /\ \A k \in DOMAIN l : m[k] = l[k]
          /\ m[Len(l) + 1] = rec
        BY AppendShape
    <2>. HIDE DEF m
    <2>2. i \in CommittedIn(m, "primary") /\ m[i].by = r /\ m[i].num = e
        BY <1>2, <1>3, <2>1 DEF CommittedIn
    <2>3. NoneBetween(m, i, Len(m) + 1)
        BY <1>3, <1>5, <2>1 DEF NoneBetween
    <2>4. LastAnnounced(m, r, e)
        BY <2>2, <2>3 DEF LastAnnounced
    <2>. QED BY <2>4 DEF m
<1>. QED BY <1>4, <1>5

\* After an error a commit waits for its record, and an activation ends.
LEMMA AfterErrorIs ==
    ASSUME NEW j \in Job
    PROVE  /\ AfterError(j) \in Job
           /\ j.kind = "transition" =>
                 /\ AfterError(j).step = "wait" /\ AfterError(j).kind = "transition"
                 /\ AfterError(j).num = j.num /\ AfterError(j).op = j.op
                 /\ AfterError(j).rec = j.rec
           /\ j.kind # "transition" => AfterError(j) = Idle
BY AtIs, IdleFits DEF AfterError

\* A job that fails: a command looks for its record, an announcement is given up.
LEMMA ErrorFits ==
    ASSUME NEW l, NEW r, NEW j \in Job, NEW mach, NEW ls, NEW hl, NEW aq, NEW dr, NEW prod,
           JobIs(l, r, At(j, "wait"), mach), LeaseIs(j, ls, hl, aq, dr, prod),
           NEW own, NEW exp, own = r /\ ls # None => LastAnnounced(l, r, ls.epoch)
    PROVE  /\ JobIs(l, r, AfterError(j), mach)
           /\ LeaseIs(AfterError(j), ls, hl, aq, dr, prod)
           /\ TermIs(l, own, exp, r, AfterError(j), ls)
<1>1. CASE j.kind = "transition"
    <2>1. AfterError(j) = At(j, "wait")
        BY <1>1 DEF AfterError
    <2>2. At(j, "wait").kind = "transition" /\ At(j, "wait").step = "wait"
        BY <1>1, AtIs
    <2>. HIDE DEF At
    <2>3. LeaseIs(At(j, "wait"), ls, hl, aq, dr, prod)
        BY <1>1, <2>2 DEF LeaseIs
    <2>4. TermIs(l, own, exp, r, At(j, "wait"), ls)
        BY <2>2 DEF TermIs
    <2>. QED BY <2>1, <2>3, <2>4
<1>2. CASE j.kind # "transition"
    <2>1. AfterError(j) = Idle /\ Idle.step = "idle" /\ Idle.kind = "none"
        BY <1>2 DEF AfterError, Idle
    <2>2. JobIs(l, r, Idle, mach) /\ LeaseIs(Idle, ls, hl, aq, dr, prod)
        BY IdleFits
    <2>3. TermIs(l, own, exp, r, Idle, ls)
        BY <2>1 DEF TermIs
    <2>. QED BY <2>1, <2>2, <2>3
<1>. QED BY <1>1, <1>2

\* What the steps below use of the invariant.
LEMMA ReplicaFacts ==
    ASSUME Inv, NEW r \in Replica
    PROVE  /\ log \in Seq(Record) /\ Len(log) \in Nat /\ DOMAIN log = 1 .. Len(log)
           /\ LogInv(log)
           /\ job[r] \in Job /\ lease[r] \in Lease \cup {None}
           /\ producing \in [Replica -> BOOLEAN] /\ owner \in Replica \cup {None}
           /\ expired \in BOOLEAN
           /\ JobIs(log, r, job[r], machine[r])
           /\ LeaseIs(job[r], lease[r], held[r], acquired[r], dropping[r], producing[r])
           /\ TermIs(log, owner, expired, r, job[r], lease[r])
           /\ ReadBy(log, position[r], items[r], machine[r])
           /\ owner = r /\ lease[r] # None => LastAnnounced(log, r, lease[r].epoch)
BY LogIsFunction DEF Inv, LogInv, Shape, ReplicaInv, TermIs

\* Initialising the producer fences the previous one and aborts what it left open.
LEMMA InitializeProducerInv ==
    ASSUME Inv, NEW r \in Replica, InitializeProducer(r)
    PROVE  Inv'
<1>. DEFINE j == At(job[r], "produce")
            m == Settle(log, "aborted")
<1>1. /\ job' = [job EXCEPT ![r] = j] /\ log' = m /\ owner' = r /\ expired' = FALSE
      /\ producing' = [producing EXCEPT ![r] = TRUE] /\ job[r].step = "init"
      /\ UNCHANGED <<store, machine, coordinator, acked, faults>>
    BY DEF InitializeProducer
<1>2. job[r].kind = "primary" /\ job[r].rec = 0 /\ job[r].num # 0
    BY <1>1, ReplicaFacts DEF JobIs, Job
<1>3. j \in Job /\ j.step = "produce" /\ j.kind = "primary" /\ j.num = job[r].num /\ j.rec = 0
    BY <1>2, ReplicaFacts, AtIs
<1>4. LogInv(m) /\ Follows(log, m)
    BY ReplicaFacts, SettleInv, SettleFollows
<1>5. /\ producing' \in [Replica -> BOOLEAN] /\ producing'[r] = TRUE
      /\ \A s \in Replica \ {r} : producing'[s] = producing[s]
    BY <1>1, ReplicaFacts
<1>6. lease[r] = None /\ held[r] = None /\ acquired[r] = None /\ dropping[r] = {}
    BY <1>2, ReplicaFacts DEF LeaseIs
<1>. HIDE DEF j, m
<1>7. JobIs(log', r, j, machine[r])
    BY <1>2, <1>3 DEF JobIs
<1>8. LeaseIs(j, lease[r], held[r], acquired[r], dropping[r], producing'[r])
    BY <1>3, <1>5, <1>6 DEF LeaseIs
<1>9. TermIs(log', owner', expired', r, j, lease[r])
    BY <1>3, <1>6 DEF TermIs
<1>10. faults' \in 0 .. MaxFaults
    BY <1>1 DEF Inv, Shape
<1>. QED BY <1>1, <1>3, <1>4, <1>5, <1>7, <1>8, <1>9, <1>10, JobStep

\* The record of a job fits the log, under the last announcement.
LEMMA NewRecordFits ==
    ASSUME Inv, NEW r \in Replica, job[r].step = "produce", owner = r
    PROVE  LET rec == NewRecord(r, "open")
           IN  /\ rec \in Record /\ rec.status = "open" /\ rec.kind = job[r].kind
               /\ rec.num = job[r].num /\ rec.op = job[r].op /\ rec.by = r
               /\ LogInv(Append(log, rec))
<1>. DEFINE rec == NewRecord(r, "open")
            l == machine[r]
<1>1. job[r].kind \in {"transition", "primary"} /\ job[r].num \in Nat \ {0} /\ job[r].op \in OperationID \cup {None}
    BY ReplicaFacts DEF JobIs, Job
<1>2. job[r].kind = "transition" => lease[r] \in Lease /\ lease[r].epoch \in Nat
    BY ReplicaFacts DEF LeaseIs, Lease
<1>3. rec \in Record
    BY <1>1, <1>2 DEF NewRecord, Record
<1>4. /\ rec.status = "open" /\ rec.kind = job[r].kind /\ rec.by = r
      /\ rec.num = job[r].num /\ rec.op = job[r].op
      /\ rec.kind = "transition" => rec.epoch = lease[r].epoch
    BY <1>1 DEF NewRecord
<1>. HIDE DEF rec
<1>5. ASSUME rec.kind = "transition"
      PROVE  /\ rec.op \in OperationID /\ rec.num <= Len(log) + 1
             /\ PlacesBefore(log, rec.num, rec.op)
             /\ \E j \in CommittedIn(log, "primary") :
                   log[j].by = rec.by /\ log[j].num = rec.epoch /\ NoneBetween(log, j, Len(log) + 1)
    <2>1. l \in Seq(Nat) /\ Len(l) \in Nat /\ DOMAIN l = 1 .. Len(l)
        BY LenProperties DEF Inv, Shape
    <2>2. /\ job[r].num = Len(l) + 1 /\ job[r].op \in OperationID
          /\ \A n \in DOMAIN l : log[l[n]].op # job[r].op
        <3>1. job[r].kind = "transition"
            BY <1>4, <1>5
        <3>2. JobIs(log, r, job[r], l)
            BY ReplicaFacts
        <3>. QED BY <3>1, <3>2 DEF JobIs
    <2>3. \A n \in DOMAIN l : l[n] \in ChosenIn(log) /\ log[l[n]].num = n /\ n \in 1 .. Len(log)
        <3>1. ReadBy(log, position[r], items[r], l)
            BY ReplicaFacts
        <3>2. \A n \in DOMAIN l : n \in DOMAIN items[r] /\ l[n] = items[r][n]
            BY <3>1 DEF ReadBy
        <3>3. \A n \in DOMAIN items[r] : n \in 1 .. Len(log)
            BY <3>1, ReplicaFacts, KeysAreSequences
        <3>. QED BY <3>1, <3>2, <3>3 DEF ReadBy
    <2>4. PlacesBefore(log, rec.num, rec.op)
        <3>1. \A m \in 1 .. rec.num - 1 : m \in DOMAIN l
            BY <1>4, <2>1, <2>2
        <3>. QED BY <1>4, <2>2, <2>3, <3>1 DEF PlacesBefore
    <2>5. rec.num <= Len(log) + 1
        <3>1. Len(l) = 0 \/ Len(l) \in DOMAIN l
            BY <2>1
        <3>2. Len(l) <= Len(log)
            <4>1. Len(log) \in Nat
                BY ReplicaFacts
            <4>2. CASE Len(l) \in DOMAIN l
                <5>1. Len(l) \in 1 .. Len(log)
                    BY <2>3, <4>2
                <5>. QED BY <4>1, <5>1
            <4>. QED BY <3>1, <4>1, <4>2
        <3>. QED BY <1>4, <2>1, <2>2, <3>2, ReplicaFacts
    <2>6. lease[r] # None /\ LastAnnounced(log, r, lease[r].epoch)
        BY <1>4, <1>5, ReplicaFacts DEF LeaseIs
    <2>. QED BY <1>4, <1>5, <2>2, <2>4, <2>5, <2>6 DEF LastAnnounced
<1>6. rec.num # 0
    BY <1>1, <1>4
<1>7. LogInv(Append(log, rec))
    BY <1>3, <1>4, <1>5, <1>6, ReplicaFacts, AppendInv
<1>. QED BY <1>3, <1>4, <1>7 DEF rec

\* A record is produced.
LEMMA ProduceInv ==
    ASSUME Inv, NEW r \in Replica, Produce(r)
    PROVE  Inv'
<1>. DEFINE rec == NewRecord(r, "open")
            m == Append(log, rec)
            j == At(Written(job[r], Len(log) + 1), "end")
<1>1. /\ job' = [job EXCEPT ![r] = j] /\ log' = m /\ owner = r
      /\ job[r].step = "produce"
      /\ UNCHANGED <<owner, expired, store, producing, machine, coordinator, acked, faults>>
    BY DEF Produce, Admitted
<1>2. /\ rec \in Record /\ rec.status = "open" /\ rec.kind = job[r].kind
      /\ rec.num = job[r].num /\ rec.op = job[r].op /\ rec.by = r /\ LogInv(m)
    BY <1>1, NewRecordFits
<1>3. /\ m \in Seq(Record) /\ Len(m) = Len(log) + 1 /\ DOMAIN m = DOMAIN log \cup {Len(log) + 1}
      /\ m[Len(log) + 1] = rec /\ Follows(log, m)
    BY <1>2, ReplicaFacts, AppendShape, AppendFollows
<1>4. /\ j \in Job /\ j.step = "end" /\ j.kind = job[r].kind /\ j.num = job[r].num
      /\ j.op = job[r].op /\ j.rec = Len(log) + 1
    <2>. DEFINE w == Written(job[r], Len(log) + 1)
    <2>1. /\ w \in Job /\ w.kind = job[r].kind /\ w.num = job[r].num
          /\ w.op = job[r].op /\ w.rec = Len(log) + 1
        <3>. DEFINE k == Len(log) + 1
        <3>1. job[r] \in Job /\ k \in Nat
            BY ReplicaFacts
        <3>. HIDE DEF k
        <3>2. /\ Written(job[r], k) \in Job /\ Written(job[r], k).kind = job[r].kind
              /\ Written(job[r], k).num = job[r].num /\ Written(job[r], k).op = job[r].op
              /\ Written(job[r], k).rec = k
            BY <3>1, WrittenIs
        <3>. QED BY <3>2 DEF k
    <2>. HIDE DEF w
    <2>2. /\ At(w, "end") \in Job /\ At(w, "end").step = "end" /\ At(w, "end").kind = w.kind
          /\ At(w, "end").num = w.num /\ At(w, "end").op = w.op /\ At(w, "end").rec = w.rec
        BY <2>1, AtIs
    <2>. QED BY <2>1, <2>2 DEF w
<1>5. JobIs(m, r, job[r], machine[r])
    BY <1>3, ReplicaFacts, JobStays
<1>6. lease[r] # None => LastAnnounced(m, r, lease[r].epoch)
    <2>1. lease[r] # None => rec.kind = "transition"
        BY <1>1, <1>2, ReplicaFacts DEF LeaseIs, JobIs, Job
    <2>. QED BY <1>1, <1>2, <2>1, ReplicaFacts, AnnouncedStays
<1>7. Len(log) \in Nat /\ Len(log) + 1 # 0
    BY ReplicaFacts
<1>. HIDE DEF j, m, rec
<1>8. JobIs(m, r, j, machine[r])
    <2>1. j.rec \in DOMAIN m /\ m[j.rec] = rec /\ j.rec # 0
        BY <1>3, <1>4, <1>7
    <2>2. job[r].kind # "none"
        BY <1>1, ReplicaFacts DEF JobIs
    <2>. QED BY <1>1, <1>2, <1>4, <1>5, <2>1, <2>2 DEF JobIs
<1>9. LeaseIs(j, lease[r], held[r], acquired[r], dropping[r], producing[r])
    BY <1>1, <1>4, ReplicaFacts DEF LeaseIs
<1>10. TermIs(m, owner, expired, r, j, lease[r])
    BY <1>2, <1>3, <1>4, <1>6 DEF TermIs
<1>11. /\ producing \in [Replica -> BOOLEAN] /\ owner \in Replica \cup {None}
       /\ expired \in BOOLEAN /\ faults \in 0 .. MaxFaults
    BY DEF Inv, Shape
<1>12. /\ producing' = producing /\ owner' = owner /\ expired' = expired /\ faults' = faults
    BY <1>1
<1>. QED BY <1>1, <1>2, <1>3, <1>4, <1>8, <1>9, <1>10, <1>11, <1>12, JobStep

\* A call of the producer fails, and log m is left.
LEMMA CallFails ==
    ASSUME Inv, NEW r \in Replica, NEW j \in Job, job' = [job EXCEPT ![r] = AfterError(j)],
           UNCHANGED <<owner, store, producing, machine, coordinator, acked>>,
           faults' \in 0 .. MaxFaults, expired' \in BOOLEAN,
           log' # log \/ expired' # expired => owner = r,
           LogInv(log'), Follows(log, log'),
           JobIs(log', r, At(j, "wait"), machine[r]),
           LeaseIs(j, lease[r], held[r], acquired[r], dropping[r], producing[r]),
           owner = r /\ lease[r] # None => LastAnnounced(log', r, lease[r].epoch)
    PROVE  Inv'
<1>1. AfterError(j) \in Job
    BY AfterErrorIs
<1>2. /\ JobIs(log', r, AfterError(j), machine[r])
      /\ LeaseIs(AfterError(j), lease[r], held[r], acquired[r], dropping[r], producing[r])
      /\ TermIs(log', owner, expired', r, AfterError(j), lease[r])
    BY ErrorFits
<1>3. producing \in [Replica -> BOOLEAN] /\ owner \in Replica \cup {None}
    BY DEF Inv, Shape
<1>4. producing' = producing /\ owner' = owner
    OBVIOUS
<1>5. UNCHANGED <<store, machine, coordinator, acked>>
    OBVIOUS
<1>. QED BY <1>1, <1>2, <1>3, <1>4, <1>5, JobStep

\* Producing fails, with or without effect.
LEMMA ProduceFailsInv ==
    ASSUME Inv, NEW r \in Replica, NEW written \in BOOLEAN, NEW aborted \in BOOLEAN,
           ProduceFails(r, written, aborted)
    PROVE  Inv'
<1>. DEFINE rec == NewRecord(r, "open")
            a == IF written THEN Append(log, rec) ELSE log
            m == IF aborted THEN Settle(a, "aborted") ELSE a
            w == Written(job[r], IF written THEN Len(log) + 1 ELSE 0)
<1>1. /\ job' = [job EXCEPT ![r] = AfterError(w)] /\ log' = m /\ owner = r /\ Fault
      /\ job[r].step = "produce"
      /\ UNCHANGED <<owner, expired, store, producing, machine, coordinator, acked>>
    BY DEF ProduceFails, Admitted
<1>2. /\ rec \in Record /\ rec.status = "open" /\ rec.kind = job[r].kind
      /\ rec.num = job[r].num /\ rec.op = job[r].op /\ rec.by = r /\ LogInv(Append(log, rec))
    BY <1>1, NewRecordFits
<1>3. Len(log) \in Nat /\ Len(log) + 1 # 0
    BY ReplicaFacts
<1>4. /\ w \in Job /\ w.kind = job[r].kind /\ w.num = job[r].num /\ w.step = "produce"
      /\ w.op = job[r].op /\ w.rec = IF written THEN Len(log) + 1 ELSE 0
    <2>. DEFINE k == IF written THEN Len(log) + 1 ELSE 0
    <2>1. job[r] \in Job
        BY ReplicaFacts
    <2>3. k \in Nat
        <3>1. CASE written
            BY <1>3, <3>1
        <3>2. CASE ~ written
            BY <3>2
        <3>. QED BY <3>1, <3>2
    <2>. HIDE DEF k
    <2>2. /\ Written(job[r], k) \in Job /\ Written(job[r], k).kind = job[r].kind
          /\ Written(job[r], k).num = job[r].num /\ Written(job[r], k).op = job[r].op
          /\ Written(job[r], k).rec = k /\ Written(job[r], k).step = job[r].step
        BY <2>1, <2>3, WrittenIs
    <2>. QED BY <1>1, <2>2 DEF k
<1>5. lease[r] # None => rec.kind = "transition"
    BY <1>1, <1>2, ReplicaFacts DEF LeaseIs, JobIs, Job
<1>6. /\ a \in Seq(Record) /\ LogInv(a) /\ Follows(log, a)
      /\ lease[r] # None => LastAnnounced(a, r, lease[r].epoch)
      /\ written => /\ Len(log) + 1 \in DOMAIN a
                    /\ a[Len(log) + 1] = rec
    <2>1. CASE written
        <3>1. /\ Append(log, rec) \in Seq(Record) /\ Follows(log, Append(log, rec))
              /\ Len(log) + 1 \in DOMAIN Append(log, rec)
              /\ Append(log, rec)[Len(log) + 1] = rec
            BY <1>2, ReplicaFacts, AppendShape, AppendFollows
        <3>2. lease[r] # None => LastAnnounced(Append(log, rec), r, lease[r].epoch)
            BY <1>1, <1>2, <1>5, ReplicaFacts, AnnouncedStays
        <3>. QED BY <1>2, <2>1, <3>1, <3>2
    <2>2. CASE ~ written
        BY <1>1, <2>2, ReplicaFacts, FollowsItself
    <2>. QED BY <2>1, <2>2
<1>. HIDE DEF a, rec, w
<1>7. /\ LogInv(m) /\ m \in Seq(Record) /\ Follows(a, m)
      /\ lease[r] # None => LastAnnounced(m, r, lease[r].epoch)
    <2>1. CASE aborted
        <3>1. LogInv(Settle(a, "aborted")) /\ Follows(a, Settle(a, "aborted"))
            BY <1>6, SettleInv, SettleFollows
        <3>2. lease[r] # None => LastAnnounced(Settle(a, "aborted"), r, lease[r].epoch)
            BY <1>6, AnnouncedStays
        <3>. QED BY <2>1, <3>1, <3>2 DEF LogInv
    <2>2. CASE ~ aborted
        BY <1>6, <2>2, FollowsItself
    <2>. QED BY <2>1, <2>2
<1>. HIDE DEF m
<1>8. Follows(log, m)
    BY <1>6, <1>7, ReplicaFacts, FollowsIsTransitive
<1>9. JobIs(m, r, job[r], machine[r])
    BY <1>7, <1>8, ReplicaFacts, JobStays
<1>10. JobIs(m, r, At(w, "wait"), machine[r])
    <2>. DEFINE j == At(w, "wait")
    <2>1. /\ j.step = "wait" /\ j.kind = job[r].kind /\ j.num = job[r].num
          /\ j.op = job[r].op /\ j.rec = IF written THEN Len(log) + 1 ELSE 0
        BY <1>4, AtIs
    <2>2. written =>
              /\ Len(log) + 1 \in DOMAIN m
              /\ m[Len(log) + 1].kind = job[r].kind /\ m[Len(log) + 1].num = job[r].num
              /\ m[Len(log) + 1].op = job[r].op /\ m[Len(log) + 1].by = r
        <3>1. DOMAIN a \subseteq DOMAIN m
            BY <1>6, <1>7, ChosenStay DEF LogInv
        <3>. QED BY <1>2, <1>6, <1>7, <3>1 DEF Follows
    <2>3. job[r].kind # "none" /\ job[r].num # 0
        BY <1>1, ReplicaFacts DEF JobIs
    <2>. HIDE DEF j
    <2>4. JobIs(m, r, j, machine[r])
        BY <1>1, <1>9, <2>1, <2>2, <2>3 DEF JobIs
    <2>. QED BY <2>4 DEF j
<1>11. LeaseIs(w, lease[r], held[r], acquired[r], dropping[r], producing[r])
    BY <1>1, <1>4, ReplicaFacts DEF LeaseIs
<1>12. faults' \in 0 .. MaxFaults /\ expired' \in BOOLEAN
    BY <1>1, FaultIsCounted DEF Inv, Shape
<1>. QED BY <1>1, <1>4, <1>7, <1>8, <1>10, <1>11, <1>12, CallFails

\* A command or an announcement at its last call may wait instead.
LEMMA WaitFits ==
    ASSUME Inv, NEW r \in Replica, job[r].step \in {"produce", "end"},
           NEW m \in Seq(Record), Follows(log, m)
    PROVE  JobIs(m, r, At(job[r], "wait"), machine[r])
<1>. DEFINE j == At(job[r], "wait")
<1>1. /\ j.step = "wait" /\ j.kind = job[r].kind /\ j.num = job[r].num
      /\ j.op = job[r].op /\ j.rec = job[r].rec
    BY ReplicaFacts, AtIs
<1>2. JobIs(m, r, job[r], machine[r])
    BY ReplicaFacts, JobStays
<1>. HIDE DEF j
<1>3. JobIs(m, r, j, machine[r])
    BY <1>1, <1>2 DEF JobIs
<1>. QED BY <1>3 DEF j

\* A fenced producer is refused.
LEMMA FencedInv ==
    ASSUME Inv, NEW r \in Replica, Fenced(r)
    PROVE  Inv'
<1>1. /\ job' = [job EXCEPT ![r] = AfterError(job[r])] /\ log' = log
      /\ job[r].step \in {"produce", "end"}
      /\ expired' = expired \/ (owner = r /\ expired' = FALSE)
      /\ UNCHANGED <<owner, store, producing, machine, coordinator, acked>> /\ faults' = faults
    BY DEF Fenced
<1>2. Follows(log, log') /\ LogInv(log')
    BY <1>1, ReplicaFacts, FollowsItself
<1>3. JobIs(log', r, At(job[r], "wait"), machine[r])
    BY <1>1, <1>2, ReplicaFacts, WaitFits
<1>4. faults' \in 0 .. MaxFaults /\ expired' \in BOOLEAN
    BY <1>1 DEF Inv, Shape
<1>5. owner = r /\ lease[r] # None => LastAnnounced(log', r, lease[r].epoch)
    BY <1>1, ReplicaFacts
<1>. QED BY <1>1, <1>2, <1>3, <1>4, <1>5, ReplicaFacts, CallFails

\* The end of a transaction fails, with or without effect.
LEMMA EndFailsInv ==
    ASSUME Inv, NEW r \in Replica, NEW executed \in BOOLEAN, EndFails(r, executed)
    PROVE  Inv'
<1>1. /\ job' = [job EXCEPT ![r] = AfterError(job[r])]
      /\ log' = IF executed THEN Settle(log, "committed") ELSE log
      /\ job[r].step \in {"produce", "end"} /\ owner = r /\ Fault /\ expired' = expired
      /\ UNCHANGED <<owner, store, producing, machine, coordinator, acked>>
    BY DEF EndFails, Admitted
<1>2. /\ Follows(log, log') /\ LogInv(log')
      /\ lease[r] # None => LastAnnounced(log', r, lease[r].epoch)
    <2>1. CASE executed
        BY <1>1, <2>1, ReplicaFacts, SettleInv, SettleFollows, AnnouncedStays
    <2>2. CASE ~ executed
        BY <1>1, <2>2, ReplicaFacts, FollowsItself
    <2>. QED BY <2>1, <2>2
<1>3. JobIs(log', r, At(job[r], "wait"), machine[r])
    BY <1>1, <1>2, ReplicaFacts, WaitFits DEF LogInv
<1>4. faults' \in 0 .. MaxFaults /\ expired' \in BOOLEAN
    BY <1>1, FaultIsCounted DEF Inv, Shape
<1>. QED BY <1>1, <1>2, <1>3, <1>4, ReplicaFacts, CallFails

\* A transaction ends and its records are committed.
LEMMA EndTransactionInv ==
    ASSUME Inv, NEW r \in Replica, EndTransaction(r)
    PROVE  Inv'
<1>. DEFINE m == Settle(log, "committed")
            j == At(job[r], "wait")
<1>1. /\ job' = [job EXCEPT ![r] = j] /\ log' = m
      /\ job[r].step = "end" /\ owner = r /\ ~ expired
      /\ owner' = owner /\ expired' = expired /\ producing' = producing /\ faults' = faults
      /\ UNCHANGED <<store, machine, coordinator, acked>>
    BY DEF EndTransaction, Admitted
<1>2. /\ Follows(log, m) /\ LogInv(m)
      /\ lease[r] # None => LastAnnounced(m, r, lease[r].epoch)
    BY <1>1, ReplicaFacts, SettleInv, SettleFollows, AnnouncedStays
<1>3. JobIs(m, r, j, machine[r])
    BY <1>1, <1>2, WaitFits DEF LogInv
<1>4. j \in Job /\ j.step = "wait" /\ j.kind = job[r].kind /\ j.num = job[r].num
    BY ReplicaFacts, AtIs
<1>5. /\ job[r].rec = Len(log) /\ log[Len(log)].status = "open" /\ job[r].rec # 0
      /\ Len(log) \in DOMAIN log /\ log[Len(log)].kind = job[r].kind
      /\ log[Len(log)].num = job[r].num /\ log[Len(log)].by = r
    BY <1>1, ReplicaFacts DEF TermIs, JobIs
<1>6. /\ Len(m) = Len(log) /\ DOMAIN m = DOMAIN log /\ m[Len(log)].status = "committed"
      /\ m[Len(log)].kind = job[r].kind /\ m[Len(log)].num = job[r].num /\ m[Len(log)].by = r
    <2>1. m \in Seq(Record) /\ Len(m) = Len(log)
        BY ReplicaFacts, SettleShape
    <2>2. DOMAIN m = DOMAIN log
        BY <2>1, ReplicaFacts, LogIsFunction
    <2>. QED BY <1>5, <2>1, <2>2, ReplicaFacts, SettleShape
<1>. HIDE DEF m, j
<1>7. LeaseIs(j, lease[r], held[r], acquired[r], dropping[r], producing[r])
    BY <1>1, <1>4, ReplicaFacts DEF LeaseIs
<1>8. TermIs(m, owner, expired, r, j, lease[r])
    BY <1>2, <1>4, <1>5, <1>6 DEF TermIs, CommittedIn
<1>9. faults \in 0 .. MaxFaults
    BY DEF Inv, Shape
<1>10. \A s \in Replica \ {r} : producing'[s] = producing[s]
    BY <1>1
<1>. QED BY <1>1, <1>2, <1>3, <1>4, <1>7, <1>8, <1>9, <1>10, ReplicaFacts, JobStep

\* The broker aborts a transaction that took too long.
LEMMA AbortTimedOutInv ==
    ASSUME Inv, AbortTimedOut
    PROVE  Inv'
<1>. USE DEF store, coordinator
<1>. DEFINE m == Settle(log, "aborted")
<1>1. /\ log' = m /\ expired' = TRUE /\ owner' = owner /\ Fault
      /\ UNCHANGED <<store, producing, job, machine, coordinator, acked>>
    BY DEF AbortTimedOut
<1>2. log \in Seq(Record) /\ LogInv(log) /\ OpenRecordsAreLast(log)
    BY DEF Inv, LogInv
<1>3. m \in Seq(Record) /\ LogInv(m) /\ Follows(log, m)
    BY <1>2, SettleInv, SettleFollows, SettleShape
<1>4. Shape'
    BY <1>1, FaultIsCounted DEF Inv, Shape
<1>5. AnswersAre(m, acked)
    BY <1>2, <1>3, AnswersStay DEF Inv
<1>6. ASSUME NEW r \in Replica
      PROVE  ReplicaInv(r)'
    <2>1. ReadBy(m, position[r], items[r], machine[r])
        BY <1>2, <1>3, ReplicaFacts, ReadStays
    <2>2. JobIs(m, r, job[r], machine[r])
        BY <1>2, <1>3, ReplicaFacts, JobStays
    <2>3. TermIs(m, owner, TRUE, r, job[r], lease[r])
        <3>. SUFFICES ASSUME owner = r
                      PROVE  TermIs(m, owner, TRUE, r, job[r], lease[r])
            BY DEF TermIs
        <3>1. lease[r] # None => LastAnnounced(m, r, lease[r].epoch)
            BY <1>2, ReplicaFacts, AnnouncedStays
        <3>2. job[r].kind = "primary" /\ job[r].step = "wait" =>
                  /\ Len(m) \in CommittedIn(m, "primary")
                  /\ m[Len(m)].by = r /\ m[Len(m)].num = job[r].num
            <4>. SUFFICES ASSUME job[r].kind = "primary", job[r].step = "wait"
                          PROVE  /\ Len(m) \in CommittedIn(m, "primary")
                                 /\ m[Len(m)].by = r /\ m[Len(m)].num = job[r].num
                OBVIOUS
            <4>1. Len(m) = Len(log) /\ CommittedIn(log, "primary") \subseteq CommittedIn(m, "primary")
                BY <1>2, <1>3, SettleShape, ChosenStay
            <4>2. /\ Len(log) \in CommittedIn(log, "primary")
                  /\ log[Len(log)].by = r /\ log[Len(log)].num = job[r].num
                BY ReplicaFacts DEF TermIs
            <4>3. Len(log) \in DOMAIN log
                BY <4>2 DEF CommittedIn
            <4>4. m[Len(log)].by = log[Len(log)].by /\ m[Len(log)].num = log[Len(log)].num
                BY <1>3, <4>3 DEF Follows
            <4>. QED BY <4>1, <4>2, <4>4
        <3>. QED BY <3>1, <3>2 DEF TermIs
    <2>4. LeaseIs(job[r], lease[r], held[r], acquired[r], dropping[r], producing[r])
        BY ReplicaFacts
    <2>. QED BY <1>1, <2>1, <2>2, <2>3, <2>4 DEF ReplicaInv
<1>. QED BY <1>1, <1>3, <1>4, <1>5, <1>6 DEF Inv

-----------------------------------------------------------------------------
(* Steps of the coordinator.                                               *)

\* A step that only changes what the coordinator and the store know of leases.
LEMMA LeaseStep ==
    ASSUME Inv, NEW r \in Replica,
           UNCHANGED <<broker, position, items, primary, producing, job, machine, acked>>,
           faults' \in 0 .. MaxFaults, assigned' \in [Replica -> BOOLEAN],
           {lease', held', acquired'} \subseteq [Replica -> Lease \cup {None}],
           dropping' \in [Replica -> SUBSET Lease],
           \A s \in Replica \ {r} : Kept(s),
           LeaseIs(job[r], lease'[r], held'[r], acquired'[r], dropping'[r], producing[r]),
           lease'[r] # None => lease'[r] = lease[r]
    PROVE  Inv'
<1>. USE DEF broker
<1>1. Shape'
    BY DEF Inv, Shape
<1>2. TermIs(log, owner, expired, r, job[r], lease'[r])
    BY ReplicaFacts DEF TermIs
<1>3. ReplicaInv(r)'
    BY <1>2, ReplicaFacts DEF ReplicaInv
<1>. QED BY <1>1, <1>3, QuietStep DEF Inv

\* The group assigns the partition.
LEMMA AssignInv ==
    ASSUME Inv, NEW r \in Replica, Assign(r)
    PROVE  Inv'
<1>1. /\ {lease, held, acquired} \subseteq [Replica -> Lease \cup {None}]
      /\ dropping \in [Replica -> SUBSET Lease] /\ faults \in 0 .. MaxFaults
      /\ assigned' \in [Replica -> BOOLEAN]
    BY DEF Assign, Inv, Shape
<1>2. \A s \in Replica : Kept(s)
    BY DEF Assign, Kept, store
<1>3. UNCHANGED <<broker, position, items, primary, lease, producing, job, machine, held, acquired, dropping, acked, faults>>
    BY DEF Assign, store
<1>. QED BY <1>1, <1>2, <1>3, ReplicaFacts, LeaseStep

\* The group revokes the partition.
LEMMA RevokeInv ==
    ASSUME Inv, NEW r \in Replica, Revoke(r)
    PROVE  Inv'
<1>. DEFINE d == dropping[r] \cup ({held[r]} \ {None})
<1>1. /\ {lease, held, acquired} \subseteq [Replica -> Lease \cup {None}]
      /\ dropping \in [Replica -> SUBSET Lease]
    BY DEF Inv, Shape
<1>2. /\ held' = [held EXCEPT ![r] = None] /\ dropping' = [dropping EXCEPT ![r] = d]
      /\ UNCHANGED <<broker, store, producing, job, machine, acquired, acked>>
      /\ assigned' = [assigned EXCEPT ![r] = FALSE] /\ Fault
    BY DEF Revoke
<1>3. d \in SUBSET Lease
    BY <1>1
<1>4. /\ {lease', held', acquired'} \subseteq [Replica -> Lease \cup {None}]
      /\ dropping' \in [Replica -> SUBSET Lease]
    BY <1>1, <1>2, <1>3 DEF store
<1>5. assigned' \in [Replica -> BOOLEAN] /\ faults' \in 0 .. MaxFaults
    BY <1>2, FaultIsCounted DEF Inv, Shape
<1>6. held'[r] = None /\ dropping'[r] = d /\ \A s \in Replica \ {r} : Kept(s)
    BY <1>1, <1>2 DEF Kept, store
<1>7. LeaseIs(job[r], lease[r], None, acquired[r], d, producing[r])
    <2>1. LeaseIs(job[r], lease[r], held[r], acquired[r], dropping[r], producing[r])
        BY ReplicaFacts
    <2>2. lease[r] # None => lease[r] \in {None, acquired[r]} \cup d
        BY <2>1 DEF LeaseIs
    <2>3. job[r].kind = "primary" => d = {}
        BY <2>1 DEF LeaseIs
    <2>. HIDE DEF d
    <2>. QED BY <2>1, <2>2, <2>3 DEF LeaseIs
<1>. HIDE DEF d
<1>8. LeaseIs(job[r], lease'[r], held'[r], acquired'[r], dropping'[r], producing[r])
    BY <1>2, <1>6, <1>7 DEF store
<1>. QED BY <1>2, <1>4, <1>5, <1>6, <1>8, LeaseStep DEF store

\* The lease is given up.
LEMMA DeactivateInv ==
    ASSUME Inv, NEW r \in Replica, Deactivate(r)
    PROVE  Inv'
<1>1. PICK d \in dropping[r] :
          /\ dropping' = [dropping EXCEPT ![r] = @ \ {d}]
          /\ lease' = [lease EXCEPT ![r] = IF @ = d THEN None ELSE @]
    BY DEF Deactivate
<1>2. /\ {lease, held, acquired} \subseteq [Replica -> Lease \cup {None}]
      /\ dropping \in [Replica -> SUBSET Lease]
      /\ assigned \in [Replica -> BOOLEAN] /\ faults \in 0 .. MaxFaults
    BY DEF Inv, Shape
<1>3. UNCHANGED <<broker, position, items, primary, producing, job, machine,
                   assigned, held, acquired, acked, faults>> /\ job[r] = Idle
    BY DEF Deactivate
<1>4. /\ {lease', held', acquired'} \subseteq [Replica -> Lease \cup {None}]
      /\ dropping' \in [Replica -> SUBSET Lease]
    BY <1>1, <1>2, <1>3
<1>5. /\ dropping'[r] = dropping[r] \ {d} /\ lease'[r] = (IF lease[r] = d THEN None ELSE lease[r])
      /\ \A s \in Replica \ {r} : Kept(s)
    BY <1>1, <1>2, <1>3 DEF Kept
<1>6. LeaseIs(job[r], lease'[r], held[r], acquired[r], dropping'[r], producing[r])
    <2>1. LeaseIs(job[r], lease[r], held[r], acquired[r], dropping[r], producing[r])
        BY ReplicaFacts
    <2>2. job[r].kind = "none" /\ job[r].step = "idle"
        BY <1>3 DEF Idle
    <2>. QED BY <1>5, <2>1, <2>2 DEF LeaseIs
<1>. QED BY <1>2, <1>3, <1>4, <1>5, <1>6, LeaseStep

\* Acquire returns the lease of a completed activation.
LEMMA AcquireReturnsInv ==
    ASSUME Inv, NEW r \in Replica, AcquireReturns(r)
    PROVE  Inv'
<1>1. /\ {lease, held, acquired} \subseteq [Replica -> Lease \cup {None}]
      /\ dropping \in [Replica -> SUBSET Lease]
      /\ assigned \in [Replica -> BOOLEAN] /\ faults \in 0 .. MaxFaults
    BY DEF Inv, Shape
<1>2. /\ UNCHANGED <<broker, store, producing, job, machine, assigned, acked, faults>>
      /\ acquired[r] # None /\ acquired' = [acquired EXCEPT ![r] = None]
      /\ \/ held' = [held EXCEPT ![r] = acquired[r]] /\ dropping' = dropping
         \/ dropping' = [dropping EXCEPT ![r] = @ \cup {acquired[r]}] /\ held' = held
    BY DEF AcquireReturns
<1>3. acquired[r] \in Lease
    BY <1>1, <1>2
<1>4. /\ {lease', held', acquired'} \subseteq [Replica -> Lease \cup {None}]
      /\ dropping' \in [Replica -> SUBSET Lease]
    BY <1>1, <1>2, <1>3 DEF store
<1>5. /\ acquired'[r] = None
      /\ \/ held'[r] = acquired[r] /\ dropping'[r] = dropping[r]
         \/ held'[r] = held[r] /\ dropping'[r] = dropping[r] \cup {acquired[r]}
    BY <1>1, <1>2
<1>6. \A s \in Replica \ {r} : Kept(s)
    BY <1>1, <1>2 DEF Kept, store
<1>7. LeaseIs(job[r], lease[r], held'[r], acquired'[r], dropping'[r], producing[r])
    <2>1. LeaseIs(job[r], lease[r], held[r], acquired[r], dropping[r], producing[r])
        BY ReplicaFacts
    <2>2. job[r].kind # "primary" /\ held[r] = None
        BY <1>2, <2>1 DEF LeaseIs
    <2>. QED BY <1>5, <2>1, <2>2 DEF LeaseIs
<1>. QED BY <1>1, <1>2, <1>4, <1>5, <1>6, <1>7, LeaseStep DEF store

\* An activation sees its announcement come back.
LEMMA PrimaryObservedInv ==
    ASSUME Inv, NEW r \in Replica, PrimaryObserved(r)
    PROVE  Inv'
<1>. DEFINE mine == [holder |-> r, epoch |-> job[r].num]
<1>1. /\ {lease, held, acquired, primary} \subseteq [Replica -> Lease \cup {None}]
      /\ None \notin Replica /\ job \in [Replica -> Job]
    BY SentinelAssumption DEF Inv, Shape
<1>2. /\ job[r].step = "wait" /\ job[r].kind = "primary" /\ primary[r] = mine
      /\ lease' = [lease EXCEPT ![r] = mine] /\ acquired' = [acquired EXCEPT ![r] = mine]
      /\ job' = [job EXCEPT ![r] = Idle]
      /\ UNCHANGED <<broker, position, items, primary, producing, machine,
                       assigned, held, dropping, acked, faults>>
    BY DEF PrimaryObserved
<1>3. mine \in Lease /\ mine.epoch = job[r].num
    <2>1. job[r].num \in Nat \ {0}
        BY <1>1, <1>2, ReplicaFacts DEF JobIs, Job
    <2>. QED BY <2>1 DEF Lease
<1>. HIDE DEF mine
<1>4. Shape'
    BY <1>1, <1>2, <1>3, IdleFits DEF Inv, Shape, broker
<1>5. lease'[r] = mine /\ acquired'[r] = mine /\ job'[r] = Idle /\ \A s \in Replica \ {r} : Kept(s)
    BY <1>1, <1>2 DEF Kept
<1>6. LeaseIs(Idle, mine, held[r], mine, dropping[r], producing[r])
    <2>1. Idle.kind = "none" /\ Idle.step = "idle"
        BY DEF Idle
    <2>. QED BY <1>2, <2>1, ReplicaFacts DEF LeaseIs
<1>7. TermIs(log, owner, expired, r, Idle, mine)
    <2>1. Idle.kind = "none" /\ Idle.step = "idle"
        BY DEF Idle
    <2>2. owner = r => LastAnnounced(log, r, mine.epoch)
        <3>. SUFFICES ASSUME owner = r
                      PROVE  LastAnnounced(log, r, mine.epoch)
            OBVIOUS
        <3>1. /\ Len(log) \in CommittedIn(log, "primary")
              /\ log[Len(log)].by = r /\ log[Len(log)].num = mine.epoch
            BY <1>2, <1>3, ReplicaFacts DEF TermIs
        <3>2. NoneBetween(log, Len(log), Len(log) + 1)
            BY ReplicaFacts DEF NoneBetween
        <3>. QED BY <3>1, <3>2 DEF LastAnnounced
    <2>. QED BY <2>1, <2>2 DEF TermIs
<1>8. JobIs(log, r, Idle, machine[r]) /\ ReadBy(log, position[r], items[r], machine[r])
    BY IdleFits, ReplicaFacts
<1>9. ReplicaInv(r)'
    BY <1>2, <1>5, <1>6, <1>7, <1>8 DEF ReplicaInv, broker
<1>. QED BY <1>2, <1>4, <1>5, <1>9, QuietStep DEF Inv

\* A replica restarts with nothing but the topic.
LEMMA RestartInv ==
    ASSUME Inv, NEW r \in Replica, Restart(r)
    PROVE  Inv'
<1>. DEFINE c == Cardinality(Stable)
            j == Opening(c)
<1>1. /\ position' = [position EXCEPT ![r] = 0] /\ items' = [items EXCEPT ![r] = <<>>]
      /\ primary' = [primary EXCEPT ![r] = None] /\ lease' = [lease EXCEPT ![r] = None]
      /\ producing' = [producing EXCEPT ![r] = FALSE]
      /\ job' = [job EXCEPT ![r] = j]
      /\ machine' = [machine EXCEPT ![r] = <<>>]
      /\ assigned' = [assigned EXCEPT ![r] = FALSE]
      /\ held' = [held EXCEPT ![r] = None] /\ acquired' = [acquired EXCEPT ![r] = None]
      /\ dropping' = [dropping EXCEPT ![r] = {}]
      /\ UNCHANGED <<broker, acked>> /\ Fault
    BY DEF Restart
<1>2. j \in Job /\ j.step = "open" /\ j.kind = "none" /\ j.rec = 0
    BY StableIsFinite DEF Opening, Job
<1>. HIDE DEF j
<1>3. faults' \in 0 .. MaxFaults
    BY <1>1, FaultIsCounted
<1>4. <<>> \in Seq(Nat) /\ DOMAIN <<>> = {}
    BY EmptySeq, LenProperties
<1>5. Shape'
    BY <1>1, <1>2, <1>3, <1>4 DEF Inv, Shape, broker
<1>6. /\ position'[r] = 0 /\ items'[r] = <<>> /\ machine'[r] = <<>> /\ job'[r] = j
      /\ lease'[r] = None /\ held'[r] = None /\ acquired'[r] = None /\ dropping'[r] = {}
      /\ producing'[r] = FALSE
    BY <1>1 DEF Inv, Shape
<1>7. \A s \in Replica \ {r} : Kept(s)
    BY <1>1 DEF Inv, Shape, Kept
<1>8. ReadBy(log, 0, <<>>, <<>>)
    <2>1. Len(log) \in Nat
        BY ReplicaFacts
    <2>. QED BY <1>4, <2>1 DEF ReadBy
<1>9. /\ JobIs(log, r, j, <<>>) /\ LeaseIs(j, None, None, None, {}, FALSE)
      /\ TermIs(log, owner, expired, r, j, None)
    BY <1>2 DEF JobIs, LeaseIs, TermIs
<1>10. ReplicaInv(r)'
    BY <1>1, <1>6, <1>8, <1>9 DEF ReplicaInv, broker
<1>. QED BY <1>1, <1>5, <1>7, <1>10, QuietStep DEF Inv

-----------------------------------------------------------------------------
(* The invariant holds.                                                    *)

\* An empty topic and idle replicas satisfy the invariant.
LEMMA InitInv == Init => Inv
<1>. SUFFICES ASSUME Init PROVE Inv
    OBVIOUS
<1>1. /\ <<>> \in Seq(Record) /\ Len(<<>>) = 0 /\ <<>> \in Seq(Nat) /\ DOMAIN <<>> = {}
    BY EmptySeq, LenProperties
<1>2. LogInv(<<>>)
    BY <1>1 DEF LogInv, OpenRecordsAreLast, RecordsAreNumbered, WrittenInTerm, PredecessorsAreChosen
<1>. DEFINE j == Opening(0)
<1>3. j \in Job /\ j.step = "open" /\ j.kind = "none" /\ j.rec = 0
    BY DEF Opening, Job
<1>4. job = [r \in Replica |-> j]
    BY DEF Init
<1>. HIDE DEF j
<1>5. Shape
    <2>1. job \in [Replica -> Job] /\ DOMAIN items = Replica
        BY <1>3, <1>4 DEF Init
    <2>4. machine \in [Replica -> Seq(Nat)]
        BY <1>1 DEF Init
    <2>2. /\ primary \in [Replica -> Lease \cup {None}] /\ lease \in [Replica -> Lease \cup {None}]
          /\ held \in [Replica -> Lease \cup {None}] /\ acquired \in [Replica -> Lease \cup {None}]
          /\ dropping \in [Replica -> SUBSET Lease]
        BY DEF Init
    <2>3. /\ owner \in Replica \cup {None} /\ expired \in BOOLEAN
          /\ producing \in [Replica -> BOOLEAN] /\ assigned \in [Replica -> BOOLEAN]
        BY DEF Init
    <2>5. position \in [Replica -> Nat] /\ faults \in 0 .. MaxFaults
        BY SentinelAssumption DEF Init
    <2>. QED BY <2>1, <2>2, <2>3, <2>4, <2>5 DEF Shape
<1>6. ASSUME NEW r \in Replica
      PROVE  ReplicaInv(r)
    <2>1. ReadBy(<<>>, 0, <<>>, <<>>)
        BY <1>1 DEF ReadBy
    <2>2. JobIs(<<>>, r, j, <<>>) /\ LeaseIs(j, None, None, None, {}, FALSE)
        BY <1>3 DEF JobIs, LeaseIs
    <2>3. owner # r
        BY SentinelAssumption DEF Init
    <2>. QED BY <1>4, <2>1, <2>2, <2>3 DEF Init, ReplicaInv, TermIs
<1>7. AnswersAre(log, acked)
    BY DEF Init, AnswersAre
<1>. QED BY <1>2, <1>5, <1>6, <1>7 DEF Init, Inv

\* Every step keeps the invariant.
LEMMA StepInv == Inv /\ [Next]_vars => Inv'
<1>. SUFFICES ASSUME Inv, [Next]_vars
              PROVE  Inv'
    OBVIOUS
<1>1. ASSUME NEW r \in Replica,
             Consume(r) \/ Open(r) \/ Follow(r) \/ Working(r)
                \/ Activate(r) \/ AcquireReturns(r) \/ Deactivate(r)
                \/ WaitExpires(r) \/ Assign(r) \/ Revoke(r) \/ Restart(r)
      PROVE  Inv'
    <2>1. CASE Working(r)
        BY <2>1, InitializeProducerInv, ProduceInv, EndTransactionInv, FencedInv, CommitObservedInv,
           GiveUpInv, CatchUpInv, PrimaryObservedInv DEF Working
    <2>. QED BY <1>1, <2>1, ConsumeInv, OpenInv, FollowInv, ActivateInv, AcquireReturnsInv,
                DeactivateInv, GiveUpInv, AssignInv, RevokeInv, RestartInv
<1>2. ASSUME NEW r \in Replica, NEW o \in OperationID,
             Commit(r, o) \/ CommitRetry(r, o) \/ AnswerRetry(r, o)
      PROVE  Inv'
    BY <1>2, CommitInv, CommitRetryInv, AnswerRetryInv
<1>3. CASE UNCHANGED vars
    <2>. USE DEF vars, broker, store, coordinator
    <2>1. Shape'
        BY <1>3 DEF Inv, Shape
    <2>2. \A r \in Replica : ReplicaInv(r)'
        BY <1>3 DEF Inv, ReplicaInv
    <2>. QED BY <1>3, <2>1, <2>2 DEF Inv
<1>. QED BY <1>1, <1>2, <1>3, ProduceFailsInv, EndFailsInv, AbortTimedOutInv DEF Next

\* The invariant holds for ever.
LEMMA InvariantHolds == Spec => []Inv
<1>. QED BY InitInv, StepInv, PTL DEF Spec

-----------------------------------------------------------------------------
(* What it implies.                                                        *)

\* The sets of the model are those of the proofs, taken of the present log.
LEMMA SameSets ==
    /\ \A kind : Committed(kind) = CommittedIn(log, kind)
    /\ Chosen = ChosenIn(log)
BY DEF Committed, CommittedIn, Chosen, ChosenIn

\* The log, the stores, the coordinators and the machines keep their shapes,
\* whatever fails: in particular no position, item or machine refers to a record
\* that is not in the log.
THEOREM TypeCorrect == Spec => []TypeOK
<1>1. Inv => TypeOK
    <2>. SUFFICES ASSUME Inv PROVE TypeOK
        OBVIOUS
    <2>1. log \in Seq(Record) /\ Len(log) \in Nat /\ DOMAIN log = 1 .. Len(log)
        BY LogIsFunction DEF Inv, LogInv
    <2>2. position \in [Replica -> 0 .. Len(log)]
        BY DEF Inv, Shape, ReplicaInv, ReadBy
    <2>3. \A r \in Replica : \A n \in DOMAIN items[r] : n \in Nat \ {0} /\ items[r][n] \in DOMAIN log
        <3>. SUFFICES ASSUME NEW r \in Replica, NEW n \in DOMAIN items[r]
                      PROVE  n \in Nat \ {0} /\ items[r][n] \in DOMAIN log
            OBVIOUS
        <3>1. n \in 1 .. Len(log) /\ items[r][n] \in DOMAIN log
            BY KeysAreSequences DEF Inv, ReplicaInv
        <3>. QED BY <2>1, <3>1
    <2>4. machine \in [Replica -> Seq(DOMAIN log)]
        <3>1. ASSUME NEW r \in Replica
              PROVE  machine[r] \in Seq(DOMAIN log)
            <4>1. /\ machine[r] \in [1 .. Len(machine[r]) -> Nat] /\ Len(machine[r]) \in Nat
                  /\ DOMAIN machine[r] = 1 .. Len(machine[r])
                BY LenProperties DEF Inv, Shape
            <4>2. \A n \in DOMAIN machine[r] : n \in DOMAIN items[r] /\ machine[r][n] = items[r][n]
                BY DEF Inv, ReplicaInv, ReadBy
            <4>3. machine[r] \in [1 .. Len(machine[r]) -> DOMAIN log]
                BY <2>3, <4>1, <4>2
            <4>. QED BY <4>1, <4>3, SeqDef
        <3>2. machine \in [Replica -> Seq(Nat)]
            BY DEF Inv, Shape
        <3>. QED BY <3>1, <3>2
    <2>5. acked \subseteq [seq : Nat \ {0}, op : OperationID]
        <3>. SUFFICES ASSUME NEW a \in acked
                      PROVE  a \in [seq : Nat \ {0}, op : OperationID]
            OBVIOUS
        <3>1. PICK i \in ChosenIn(log) : a = [seq |-> log[i].num, op |-> log[i].op]
            BY DEF Inv, AnswersAre
        <3>2. i \in DOMAIN log /\ log[i].kind = "transition"
            BY DEF ChosenIn, CommittedIn
        <3>3. log[i].num \in Nat /\ log[i].num # 0 /\ log[i].op \in OperationID
            BY <2>1, <3>2, LogIsFunction DEF Inv, LogInv, RecordsAreNumbered, Record
        <3>. QED BY <3>1, <3>3
    <2>. QED BY <2>1, <2>2, <2>3, <2>4, <2>5 DEF TypeOK, Inv, Shape
<1>. QED BY <1>1, InvariantHolds, PTL

\* The registries that replicas serve are prefixes of one list of chosen
\* transitions, for any number of replicas, restarts, fenced and timed out
\* transactions: applyRecordLocked keeps the first transition of a sequence, and
\* a machine is handed nothing but what its own store holds, in order.
THEOREM RegistriesAgree == Spec => []MachinesAgree
<1>1. Inv => MachinesAgree
    BY SameSets DEF Inv, ReplicaInv, ReadBy, MachinesAgree
<1>. QED BY <1>1, InvariantHolds, PTL

\* Every committed transition was written under the announcement in force: a
\* replica whose producer was fenced, or whose lease is not the last one
\* announced, adds nothing to another's term.
THEOREM OnlyThePrimaryWrites == Spec => []WrittenByPrimary
<1>1. Inv => WrittenByPrimary
    <2>. SUFFICES ASSUME Inv, NEW i \in Committed("transition")
                  PROVE  /\ \E j \in Committed("primary") : j < i
                         /\ log[InForce(i)].by = log[i].by
                         /\ log[InForce(i)].num = log[i].epoch
        BY DEF WrittenByPrimary
    <2>. DEFINE S == {j \in Committed("primary") : j < i}
    <2>1. Len(log) \in Nat /\ DOMAIN log = 1 .. Len(log)
        BY LogIsFunction DEF Inv, LogInv
    <2>2. i \in DOMAIN log /\ log[i].kind = "transition" /\ log[i].status = "committed"
        BY DEF Committed
    <2>3. PICK j \in CommittedIn(log, "primary") :
              /\ j < i /\ log[j].by = log[i].by /\ log[j].num = log[i].epoch
              /\ NoneBetween(log, j, i)
        BY <2>2 DEF Inv, LogInv, WrittenInTerm
    <2>4. j \in S
        BY <2>3, SameSets
    <2>5. \A k \in S : k \in Int /\ k <= j
        <3>. SUFFICES ASSUME NEW k \in S, k \notin Int \/ ~ (k <= j)
                      PROVE  FALSE
            OBVIOUS
        <3>1. k \in DOMAIN log /\ log[k].status = "committed" /\ log[k].kind = "primary" /\ k < i
            BY DEF Committed
        <3>2. k \in Int /\ j \in Int /\ j < k
            BY <2>1, <2>3, <3>1 DEF CommittedIn
        <3>. QED BY <2>3, <3>1, <3>2 DEF NoneBetween
    <2>6. InForce(i) = Max(S)
        BY DEF InForce
    <2>. HIDE DEF S
    <2>7. Max(S) = j
        <3>1. Max(S) \in S /\ \A y \in S : Max(S) >= y
            <4>1. \A y \in S : j >= y
                BY <2>4, <2>5
            <4>. QED BY <2>4, <4>1 DEF Max
        <3>. QED BY <2>4, <2>5, <3>1
    <2>8. \E k \in Committed("primary") : k < i
        BY <2>3, SameSets
    <2>. QED BY <2>3, <2>6, <2>7, <2>8
<1>. QED BY <1>1, InvariantHolds, PTL

-----------------------------------------------------------------------------
(* The chosen transitions are the ledger.                                  *)

OperationsIn(l) == {[seq |-> l[i].num, op |-> l[i].op] : i \in ChosenIn(l)}

\* A sequence has one chosen transition.
LEMMA ChosenAreUnique ==
    ASSUME NEW l \in Seq(Record), NEW i \in ChosenIn(l), NEW j \in ChosenIn(l), l[i].num = l[j].num
    PROVE  i = j
<1>1. DOMAIN l = 1 .. Len(l) /\ Len(l) \in Nat
    BY LogIsFunction
<1>2. /\ i \in DOMAIN l /\ l[i].status = "committed" /\ l[i].kind = "transition"
      /\ j \in DOMAIN l /\ l[j].status = "committed" /\ l[j].kind = "transition"
    BY DEF ChosenIn, CommittedIn
<1>3. ~ (i \in 1 .. j - 1) /\ ~ (j \in 1 .. i - 1)
    BY <1>2 DEF ChosenIn
<1>. QED BY <1>1, <1>2, <1>3

\* A log in which the same records are committed, with the same contents.
LEMMA SameOperations ==
    ASSUME NEW l \in Seq(Record), NEW m \in Seq(Record), Follows(l, m), OpenRecordsAreLast(l),
           CommittedIn(m, "transition") \subseteq CommittedIn(l, "transition")
    PROVE  OperationsIn(m) = OperationsIn(l)
<1>1. ChosenIn(m) \subseteq ChosenIn(l)
    <2>. SUFFICES ASSUME NEW i \in ChosenIn(m)
                  PROVE  i \in ChosenIn(l)
        OBVIOUS
    <2>1. i \in CommittedIn(l, "transition")
        BY DEF ChosenIn
    <2>2. i \in DOMAIN l /\ DOMAIN l = 1 .. Len(l) /\ Len(l) \in Nat
        BY <2>1, LogIsFunction DEF CommittedIn
    <2>3. \A j \in 1 .. i - 1 : j \in DOMAIN l
        BY <2>2
    <2>4. \A j \in 1 .. i - 1 :
              l[j].status = "committed" /\ l[j].kind = "transition" => l[j].num # l[i].num
        BY <2>2, <2>3 DEF Follows, ChosenIn
    <2>. QED BY <2>1, <2>4 DEF ChosenIn
<1>. QED BY <1>1, ChosenKeep DEF OperationsIn

\* The end of a transaction decides at most one operation: all it can hold are
\* attempts at the first free place, of which the first one is chosen.
LEMMA CommitDecides ==
    ASSUME NEW l, LogInv(l), NEW m, m = Settle(l, "committed"),
           OperationsIn(m) # OperationsIn(l)
    PROVE  \E o \in OperationID \ {entry.op : entry \in OperationsIn(l)} :
              OperationsIn(m) =
                 OperationsIn(l) \cup {[seq |-> Cardinality(OperationsIn(l)) + 1, op |-> o]}
<1>1. /\ l \in Seq(Record) /\ DOMAIN l = 1 .. Len(l) /\ Len(l) \in Nat
      /\ OpenRecordsAreLast(l) /\ PredecessorsAreChosen(l) /\ RecordsAreNumbered(l)
      /\ \A i \in DOMAIN l : l[i].num \in Nat \ {0}
    BY LogIsFunction DEF LogInv, RecordsAreNumbered, Record
<1>2. m \in Seq(Record) /\ DOMAIN m = DOMAIN l /\ Follows(l, m)
    <2>1. m \in Seq(Record) /\ Len(m) = Len(l)
        BY <1>1, SettleShape
    <2>. QED BY <1>1, <2>1, LogIsFunction, SettleFollows
<1>3. \A i \in DOMAIN l : m[i].num = l[i].num /\ m[i].op = l[i].op /\ m[i].kind = l[i].kind
    BY <1>2 DEF Follows
<1>4. /\ \A i \in ChosenIn(l) : i \in DOMAIN l /\ i \in ChosenIn(m) /\ l[i].kind = "transition"
      /\ \A i \in ChosenIn(m) : i \in DOMAIN l /\ l[i].kind = "transition"
    <2>1. ChosenIn(l) \subseteq ChosenIn(m)
        BY <1>1, <1>2, ChosenStay
    <2>2. /\ \A i \in ChosenIn(l) : i \in DOMAIN l /\ l[i].kind = "transition"
          /\ \A i \in ChosenIn(m) : i \in DOMAIN m /\ m[i].kind = "transition"
        BY DEF ChosenIn, CommittedIn
    <2>. QED BY <1>2, <1>3, <2>1, <2>2
<1>5. PICK c \in ChosenIn(m) : c \notin ChosenIn(l)
    <2>1. CASE ChosenIn(m) \subseteq ChosenIn(l)
        <3>1. ChosenIn(m) = ChosenIn(l)
            BY <1>4, <2>1
        <3>. QED BY <1>3, <1>4, <3>1 DEF OperationsIn
    <2>. QED BY <2>1
\* The place of a newly chosen transition is free, and those before are taken.
<1>6. ASSUME NEW d \in ChosenIn(m), d \notin ChosenIn(l), NEW k \in ChosenIn(l)
      PROVE  l[k].num < l[d].num /\ l[k].op # l[d].op
    <2>1. d \in DOMAIN l /\ k \in DOMAIN l /\ k \in ChosenIn(m) /\ k # d
        BY <1>4, <1>6
    <2>2. l[k].num # l[d].num
        BY <1>2, <1>3, <2>1, ChosenAreUnique
    <2>3. PlacesBefore(l, l[k].num, l[k].op) /\ PlacesBefore(l, l[d].num, l[d].op)
        BY <1>1, <1>4, <2>1 DEF PredecessorsAreChosen
    <2>4. ~ (l[d].num < l[k].num)
        <3>. SUFFICES ASSUME l[d].num < l[k].num
                      PROVE  FALSE
            OBVIOUS
        <3>1. l[d].num \in 1 .. l[k].num - 1
            BY <1>1, <2>1
        <3>2. PICK e \in ChosenIn(l) : l[e].num = l[d].num
            BY <2>3, <3>1 DEF PlacesBefore
        <3>3. e \in ChosenIn(m) /\ m[e].num = m[d].num /\ e # d
            BY <1>3, <1>4, <1>6, <2>1, <3>2
        <3>. QED BY <1>2, <3>3, ChosenAreUnique
    <2>5. l[k].num \in Nat /\ l[d].num \in Nat /\ l[k].num < l[d].num
        BY <1>1, <2>1, <2>2, <2>4
    <2>6. l[k].num \in 1 .. l[d].num - 1
        BY <1>1, <2>1, <2>5
    <2>7. PICK e \in ChosenIn(l) : l[e].num = l[k].num /\ l[e].op # l[d].op
        BY <2>3, <2>6 DEF PlacesBefore
    <2>8. e = k
        BY <1>1, <2>7, ChosenAreUnique
    <2>. QED BY <2>5, <2>7, <2>8
<1>7. PlacesBefore(l, l[c].num, l[c].op) /\ c \in DOMAIN l /\ l[c].num \in Nat \ {0}
    BY <1>1, <1>4, <1>5 DEF PredecessorsAreChosen
<1>8. ASSUME NEW d \in ChosenIn(m), d \notin ChosenIn(l)
      PROVE  d = c
    <2>1. PlacesBefore(l, l[d].num, l[d].op) /\ d \in DOMAIN l /\ l[d].num \in Nat \ {0}
        BY <1>1, <1>4, <1>8 DEF PredecessorsAreChosen
    <2>2. ~ (l[d].num < l[c].num)
        <3>. SUFFICES ASSUME l[d].num < l[c].num
                      PROVE  FALSE
            OBVIOUS
        <3>1. l[d].num \in 1 .. l[c].num - 1
            BY <1>7, <2>1
        <3>2. PICK e \in ChosenIn(l) : l[e].num = l[d].num
            BY <1>7, <3>1 DEF PlacesBefore
        <3>3. l[e].num < l[d].num
            BY <1>6, <1>8
        <3>. QED BY <2>1, <3>2, <3>3
    <2>3. ~ (l[c].num < l[d].num)
        <3>. SUFFICES ASSUME l[c].num < l[d].num
                      PROVE  FALSE
            OBVIOUS
        <3>1. l[c].num \in 1 .. l[d].num - 1
            BY <1>7, <2>1
        <3>2. PICK e \in ChosenIn(l) : l[e].num = l[c].num
            BY <2>1, <3>1 DEF PlacesBefore
        <3>3. l[e].num < l[c].num
            BY <1>5, <1>6
        <3>. QED BY <1>7, <3>2, <3>3
    <2>4. m[d].num = m[c].num
        BY <1>3, <1>7, <2>1, <2>2, <2>3
    <2>. QED BY <1>2, <1>5, <2>4, ChosenAreUnique
<1>. DEFINE N == l[c].num - 1
            entry(i) == [seq |-> l[i].num, op |-> l[i].op]
<1>9. N \in Nat
    BY <1>7
<1>10. OperationsIn(l) = {entry(i) : i \in ChosenIn(l)}
    BY DEF OperationsIn
<1>11. OperationsIn(m) = OperationsIn(l) \cup {entry(c)}
    <2>1. ChosenIn(m) = ChosenIn(l) \cup {c}
        BY <1>4, <1>5, <1>8
    <2>2. \A i \in ChosenIn(m) : [seq |-> m[i].num, op |-> m[i].op] = entry(i)
        BY <1>3, <1>4
    <2>3. \A x : x \in OperationsIn(m) <=>
                   \E i \in ChosenIn(m) : x = [seq |-> m[i].num, op |-> m[i].op]
        BY DEF OperationsIn
    <2>. HIDE DEF entry
    <2>4. \A x : x \in OperationsIn(m) <=> \E i \in ChosenIn(m) : x = entry(i)
        BY <2>2, <2>3
    <2>. QED BY <1>10, <2>1, <2>4
<1>12. Cardinality(OperationsIn(l)) = N
    <2>. DEFINE f == [x \in OperationsIn(l) |-> x.seq]
    <2>1. \A n \in 1 .. N : \E i \in ChosenIn(l) : l[i].num = n
        BY <1>7 DEF PlacesBefore
    <2>2. \A i \in ChosenIn(l) : l[i].num \in 1 .. N
        <3>1. \A i \in ChosenIn(l) : l[i].num \in Nat \ {0} /\ l[i].num < l[c].num
            BY <1>1, <1>4, <1>5, <1>6
        <3>. QED BY <1>7, <3>1
    <2>3. \A x \in OperationsIn(l) : \E i \in ChosenIn(l) : x = entry(i) /\ x.seq = l[i].num
        BY <1>10
    <2>4. f \in [OperationsIn(l) -> 1 .. N]
        BY <2>2, <2>3
    <2>5. \A x, y \in OperationsIn(l) : f[x] = f[y] => x = y
        <3>. SUFFICES ASSUME NEW x \in OperationsIn(l), NEW y \in OperationsIn(l), x.seq = y.seq
                      PROVE  x = y
            OBVIOUS
        <3>1. PICK i \in ChosenIn(l) : x = entry(i) /\ x.seq = l[i].num
            BY <2>3
        <3>2. PICK j \in ChosenIn(l) : y = entry(j) /\ y.seq = l[j].num
            BY <2>3
        <3>3. i = j
            BY <1>1, <3>1, <3>2, ChosenAreUnique
        <3>. QED BY <3>1, <3>2, <3>3
    <2>6. \A n \in 1 .. N : \E x \in OperationsIn(l) : f[x] = n
        <3>. SUFFICES ASSUME NEW n \in 1 .. N
                      PROVE  \E x \in OperationsIn(l) : f[x] = n
            OBVIOUS
        <3>1. PICK i \in ChosenIn(l) : l[i].num = n
            BY <2>1
        <3>2. entry(i) \in OperationsIn(l) /\ entry(i).seq = n
            BY <1>10, <3>1
        <3>. QED BY <3>2
    <2>. DEFINE S == OperationsIn(l)
                T == 1 .. N
    <2>7. f \in Bijection(S, T)
        <3>1. f \in [S -> T] /\ (\A x, y \in S : f[x] = f[y] => x = y) /\ \A n \in T : \E x \in S : f[x] = n
            BY <2>4, <2>5, <2>6
        <3>. HIDE DEF f, S, T
        <3>2. DOMAIN f = S
            BY <3>1
        <3>3. f \in Injection(S, T)
            BY <3>1, <3>2 DEF Injection, IsInjective
        <3>4. f \in Surjection(S, T)
            BY <3>1 DEF Surjection
        <3>. QED BY <3>3, <3>4 DEF Bijection
    <2>. HIDE DEF f
    <2>8. IsFiniteSet(1 .. N) /\ Cardinality(1 .. N) = N
        <3>. HIDE DEF N
        <3>. QED BY <1>9, FS_Interval
    <2>9. ExistsBijection(T, S)
        <3>. HIDE DEF S, T
        <3>1. ExistsBijection(S, T)
            BY <2>7 DEF ExistsBijection
        <3>. QED BY <3>1, Fun_ExistsBijSymmetric
    <2>. QED BY <2>8, <2>9, FS_Bijection
<1>13. l[c].op \in OperationID \ {x.op : x \in OperationsIn(l)}
    <2>1. l[c].op \in OperationID
        BY <1>1, <1>4, <1>5, <1>7 DEF RecordsAreNumbered
    <2>2. \A x \in OperationsIn(l) : x.op # l[c].op
        <3>. SUFFICES ASSUME NEW x \in OperationsIn(l)
                      PROVE  x.op # l[c].op
            OBVIOUS
        <3>1. PICK i \in ChosenIn(l) : x = entry(i) /\ x.op = l[i].op
            BY <1>10
        <3>. QED BY <1>5, <1>6, <3>1
    <2>. QED BY <2>1, <2>2
<1>14. entry(c) = [seq |-> Cardinality(OperationsIn(l)) + 1, op |-> l[c].op]
    BY <1>7, <1>12
<1>. QED BY <1>11, <1>13, <1>14

\* A step writes a record into the log, ends its transaction, or leaves the log
\* alone; it gives answers only in the last case.
LEMMA LogSteps ==
    ASSUME Inv, [Next]_vars
    PROVE  \/ log' = log /\ acked \subseteq acked'
           \/ /\ acked' = acked
              /\ \/ log' = Settle(log, "committed")
                 \/ log' = Settle(log, "aborted")
                 \/ \E rec \in Record :
                       /\ rec.status = "open" /\ LogInv(Append(log, rec))
                       /\ log' \in {Append(log, rec), Settle(Append(log, rec), "aborted")}
<1>. USE DEF broker
<1>1. ASSUME NEW r \in Replica, Working(r)
      PROVE  \/ log' = log /\ acked \subseteq acked'
             \/ /\ acked' = acked
                /\ \/ log' = Settle(log, "committed")
                   \/ log' = Settle(log, "aborted")
                   \/ \E rec \in Record :
                         /\ rec.status = "open" /\ LogInv(Append(log, rec))
                         /\ log' \in {Append(log, rec), Settle(Append(log, rec), "aborted")}
    <2>1. CASE Produce(r)
        <3>1. job[r].step = "produce" /\ owner = r
            BY <2>1 DEF Produce, Admitted
        <3>. QED BY <2>1, <3>1, NewRecordFits DEF Produce
    <2>2. CASE InitializeProducer(r)
        BY <2>2 DEF InitializeProducer
    <2>3. CASE EndTransaction(r)
        BY <2>3 DEF EndTransaction
    <2>4. CASE Fenced(r) \/ CommitConflicts(r) \/ CatchUp(r) \/ PrimaryObserved(r) \/ PrimarySuperseded(r)
        BY <2>4 DEF Fenced, CommitConflicts, CatchUp, PrimaryObserved, PrimarySuperseded
    <2>5. CASE CommitObserved(r)
        BY <2>5 DEF CommitObserved
    <2>. QED BY <1>1, <2>1, <2>2, <2>3, <2>4, <2>5 DEF Working
<1>2. ASSUME NEW r \in Replica,
             Consume(r) \/ Open(r) \/ Follow(r)
                \/ Activate(r) \/ AcquireReturns(r) \/ Deactivate(r)
                \/ WaitExpires(r) \/ Assign(r) \/ Revoke(r) \/ Restart(r)
      PROVE  log' = log /\ acked \subseteq acked'
    BY <1>2 DEF Consume, Open, Follow, Activate, AcquireReturns, Deactivate, WaitExpires, Assign, Revoke, Restart
<1>3. ASSUME NEW r \in Replica, NEW o \in OperationID,
             Commit(r, o) \/ CommitRetry(r, o) \/ AnswerRetry(r, o)
      PROVE  log' = log /\ acked \subseteq acked'
    BY <1>3 DEF Commit, CommitRetry, AnswerRetry
<1>4. ASSUME NEW r \in Replica, NEW written \in BOOLEAN, NEW aborted \in BOOLEAN,
             ProduceFails(r, written, aborted)
      PROVE  /\ acked' = acked
             /\ \/ log' = log
                \/ log' = Settle(log, "aborted")
                \/ \E rec \in Record :
                      /\ rec.status = "open" /\ LogInv(Append(log, rec))
                      /\ log' \in {Append(log, rec), Settle(Append(log, rec), "aborted")}
    <2>1. job[r].step = "produce" /\ owner = r /\ acked' = acked
        BY <1>4 DEF ProduceFails, Admitted
    <2>2. CASE written
        <3>. DEFINE rec == NewRecord(r, "open")
        <3>1. rec \in Record /\ rec.status = "open" /\ LogInv(Append(log, rec))
            BY <2>1, NewRecordFits
        <3>2. log' \in {Append(log, rec), Settle(Append(log, rec), "aborted")}
            BY <1>4, <2>2 DEF ProduceFails
        <3>. QED BY <2>1, <3>1, <3>2
    <2>3. CASE ~ written
        BY <1>4, <2>1, <2>3 DEF ProduceFails
    <2>. QED BY <2>2, <2>3
<1>5. ASSUME NEW r \in Replica, NEW executed \in BOOLEAN, EndFails(r, executed)
      PROVE  acked' = acked /\ (log' = log \/ log' = Settle(log, "committed"))
    BY <1>5 DEF EndFails
<1>6. CASE AbortTimedOut
    BY <1>6 DEF AbortTimedOut
<1>7. CASE UNCHANGED vars
    BY <1>7 DEF vars
<1>. QED BY <1>1, <1>2, <1>3, <1>4, <1>5, <1>6, <1>7 DEF Next

\* The replicas implement the ledger: an operation is decided at most once and
\* in the next place, whatever is retried, fenced or committed without an
\* answer, and every answer names the decided place of its operation.
THEOREM LedgerIsImplemented == Spec => ImplementsLedger
<1>1. Init => L!Init
    <2>. SUFFICES ASSUME Init PROVE L!Init
        OBVIOUS
    <2>1. DOMAIN log = {}
        BY EmptySeq, LenProperties DEF Init
    <2>2. Chosen = {}
        BY <2>1 DEF Chosen, Committed
    <2>. QED BY <2>2 DEF Init, L!Init, Operations
<1>2. Inv /\ Inv' /\ [Next]_vars => [L!Next]_<<Operations, acked>>
    <2>. SUFFICES ASSUME Inv, Inv', [Next]_vars
                  PROVE  L!Next \/ (Operations' = Operations /\ acked' = acked)
        OBVIOUS
    <2>1. /\ log \in Seq(Record) /\ LogInv(log) /\ OpenRecordsAreLast(log)
          /\ DOMAIN log = 1 .. Len(log) /\ Len(log) \in Nat
        BY LogIsFunction DEF Inv, LogInv
    <2>2. Operations = OperationsIn(log) /\ Operations' = OperationsIn(log')
        BY DEF Operations, OperationsIn, Chosen, ChosenIn, Committed, CommittedIn
    <2>3. acked' \subseteq OperationsIn(log')
        BY DEF Inv, AnswersAre, OperationsIn
    <2>4. CASE log' = log /\ acked \subseteq acked'
        BY <2>2, <2>3, <2>4 DEF L!Next, L!Answer
    <2>5. CASE acked' = acked /\ log' = Settle(log, "committed")
        <3>1. CASE OperationsIn(log') = OperationsIn(log)
            BY <2>2, <2>5, <3>1
        <3>2. CASE OperationsIn(log') # OperationsIn(log)
            <4>1. \E o \in OperationID \ {entry.op : entry \in OperationsIn(log)} :
                      OperationsIn(log') =
                        OperationsIn(log) \cup {[seq |-> Cardinality(OperationsIn(log)) + 1, op |-> o]}
                BY <2>1, <2>5, <3>2, CommitDecides
            <4>2. L!Cardinality(Operations) = Cardinality(Operations)
                BY DEF L!Cardinality, Cardinality
            <4>. QED BY <2>2, <2>5, <4>1, <4>2 DEF L!Next, L!Decide
        <3>. QED BY <3>1, <3>2
    <2>6. ASSUME NEW l \in Seq(Record), LogInv(l)
          PROVE  OperationsIn(Settle(l, "aborted")) = OperationsIn(l)
        <3>. DEFINE m == Settle(l, "aborted")
        <3>1. /\ m \in Seq(Record) /\ Follows(l, m) /\ Len(m) = Len(l)
              /\ \A i \in DOMAIN l :
                    m[i].kind = l[i].kind /\ m[i].status = IF l[i].status = "open" THEN "aborted" ELSE l[i].status
            BY SettleShape, SettleFollows
        <3>2. DOMAIN m = DOMAIN l
            BY <3>1, LogIsFunction
        <3>. HIDE DEF m
        <3>3. CommittedIn(m, "transition") \subseteq CommittedIn(l, "transition")
            BY <3>1, <3>2 DEF CommittedIn
        <3>4. OperationsIn(m) = OperationsIn(l)
            BY <2>6, <3>1, <3>3, SameOperations DEF LogInv
        <3>. QED BY <3>4 DEF m
    <2>7. ASSUME NEW rec \in Record, rec.status = "open"
          PROVE  OperationsIn(Append(log, rec)) = OperationsIn(log)
        <3>. DEFINE m == Append(log, rec)
        <3>1. /\ m \in Seq(Record) /\ Follows(log, m)
              /\ DOMAIN m = DOMAIN log \cup {Len(log) + 1}
              /\ (\A i \in DOMAIN log : m[i] = log[i]) /\ m[Len(log) + 1] = rec
            BY <2>1, AppendShape, AppendFollows
        <3>. HIDE DEF m
        <3>3. CommittedIn(m, "transition") \subseteq CommittedIn(log, "transition")
            BY <2>7, <3>1 DEF CommittedIn
        <3>4. OperationsIn(m) = OperationsIn(log)
            BY <2>1, <3>1, <3>3, SameOperations
        <3>. QED BY <3>4 DEF m
    <2>8. CASE acked' = acked /\ log' = Settle(log, "aborted")
        BY <2>1, <2>2, <2>6, <2>8
    <2>9. ASSUME acked' = acked, NEW rec \in Record, rec.status = "open", LogInv(Append(log, rec)),
                 log' \in {Append(log, rec), Settle(Append(log, rec), "aborted")}
          PROVE  Operations' = Operations /\ acked' = acked
        <3>1. Append(log, rec) \in Seq(Record)
            BY <2>9 DEF LogInv
        <3>2. OperationsIn(Settle(Append(log, rec), "aborted")) = OperationsIn(Append(log, rec))
            BY <2>6, <2>9, <3>1
        <3>3. OperationsIn(Append(log, rec)) = OperationsIn(log)
            BY <2>7, <2>9
        <3>. QED BY <2>2, <2>9, <3>2, <3>3
    <2>. QED BY <2>4, <2>5, <2>8, <2>9, LogSteps
<1>. QED BY <1>1, <1>2, InvariantHolds, PTL DEF Spec, ImplementsLedger, L!Spec
-----------------------------------------------------------------------------
(* Without faults.  OneTransitionPerSequence does not hold of the system;  *)
(* what follows shows that fencing alone is enough for it for as long as   *)
(* no call has failed, no wait has expired and no replica was restarted or *)
(* lost the partition, however many believe that they have it.             *)

\* Committed transitions have different sequences.
SequencesDiffer(l) ==
    \A i, j \in CommittedIn(l, "transition") : l[i].num = l[j].num => i = j

\* Only the owner of the transactional ID has a transaction open, of one record.
OpenIsOwners ==
    \A i \in DOMAIN log : log[i].status = "open" =>
        /\ i = Len(log)
        /\ owner \in Replica /\ job[owner].step = "end" /\ job[owner].rec = i

\* A replica that has not initialised its producer has written nothing; one that
\* owns the transactional ID was the last to write since it first did.
TermsDoNotOverlap ==
    \A r \in Replica :
        /\ ~producing[r] => owner # r /\ \A i \in DOMAIN log : log[i].by # r
        /\ owner = r => \A i, j \in DOMAIN log : i < j /\ log[i].by = r => log[j].by = r

\* A replica has consumed the transitions it committed, but for the one it is
\* waiting for.
OwnAreRead(r) ==
    \A i \in CommittedIn(log, "transition") : log[i].by = r /\ position[r] < i =>
        job[r].step = "wait" /\ job[r].kind = "transition" /\ job[r].rec = i

\* A lease is from an announcement of the replica, which it has consumed.
AnnouncementIsRead(r) ==
    /\ primary[r] # None =>
          \E a \in CommittedIn(log, "primary") : a <= position[r] /\ log[a].by = primary[r].holder
    /\ lease[r] # None => lease[r].holder = r

\* The transition the owner is about to commit comes after all others.
OwnerIsAhead(r) ==
    owner = r /\ job[r].kind = "transition" /\ job[r].step \in {"produce", "end"} =>
        \A i \in CommittedIn(log, "transition") : log[i].num < job[r].num

\* What holds for as long as there was no fault.
Undisturbed ==
    /\ ~expired
    /\ SequencesDiffer(log)
    /\ OpenIsOwners
    /\ TermsDoNotOverlap
    /\ \A r \in Replica : OwnAreRead(r) /\ AnnouncementIsRead(r) /\ OwnerIsAhead(r)

\* Types of what the steps below are about.
LEMMA UndisturbedTypes ==
    ASSUME Inv
    PROVE  /\ log \in Seq(Record) /\ Len(log) \in Nat /\ DOMAIN log = 1 .. Len(log)
           /\ owner \in Replica \cup {None} /\ position \in [Replica -> Nat]
           /\ job \in [Replica -> Job] /\ lease \in [Replica -> Lease \cup {None}]
           /\ primary \in [Replica -> Lease \cup {None}] /\ producing \in [Replica -> BOOLEAN]
           /\ \A kind : CommittedIn(log, kind) \subseteq DOMAIN log
           /\ \A i \in DOMAIN log : i \in Nat \ {0} /\ log[i] \in Record
BY LogIsFunction DEF Inv, LogInv, Shape, CommittedIn

\* A step of the goroutine of replica r that does not call the broker, at which
\* it has consumed what it committed.
LEMMA UndisturbedJob ==
    ASSUME Inv, Undisturbed, NEW r \in Replica,
           UNCHANGED <<broker, producing, position, primary>>,
           \A s \in Replica : lease'[s] \in {lease[s], None} \/ lease'[s].holder = s,
           \A s \in Replica \ {r} : job'[s] = job[s],
           owner = r => job[r].step # "end",
           \A i \in CommittedIn(log, "transition") : log[i].by = r => i <= position[r],
           owner = r /\ job'[r].kind = "transition" /\ job'[r].step \in {"produce", "end"} =>
               \A i \in CommittedIn(log, "transition") : log[i].num < job'[r].num
    PROVE  Undisturbed'
<1>1. log' = log /\ owner' = owner /\ expired' = expired
    BY DEF broker
<1>2. OpenIsOwners'
    BY <1>1 DEF Undisturbed, OpenIsOwners
<1>3. TermsDoNotOverlap' /\ SequencesDiffer(log')
    BY <1>1 DEF Undisturbed, TermsDoNotOverlap
<1>4. ASSUME NEW s \in Replica
      PROVE  OwnAreRead(s)' /\ AnnouncementIsRead(s)' /\ OwnerIsAhead(s)'
    <2>1. OwnAreRead(s)'
        <3>1. CASE s = r
            BY <1>1, <3>1, UndisturbedTypes DEF OwnAreRead
        <3>2. CASE s # r
            BY <1>1, <3>2 DEF Undisturbed, OwnAreRead
        <3>. QED BY <3>1, <3>2
    <2>2. AnnouncementIsRead(s)'
        BY <1>1 DEF Undisturbed, AnnouncementIsRead
    <2>3. OwnerIsAhead(s)'
        <3>1. CASE s = r
            BY <1>1, <3>1 DEF OwnerIsAhead
        <3>2. CASE s # r
            BY <1>1, <3>2 DEF Undisturbed, OwnerIsAhead
        <3>. QED BY <3>1, <3>2
    <2>. QED BY <2>1, <2>2, <2>3
<1>. QED BY <1>1, <1>2, <1>3, <1>4 DEF Undisturbed

\* A step that concerns neither the broker nor a job.
LEMMA UndisturbedRest ==
    ASSUME Undisturbed, UNCHANGED <<broker, producing, position, primary, job>>,
           \A s \in Replica : lease'[s] \in {lease[s], None}
    PROVE  Undisturbed'
<1>1. log' = log /\ owner' = owner /\ expired' = expired
    BY DEF broker
<1>2. OpenIsOwners' /\ TermsDoNotOverlap' /\ SequencesDiffer(log')
    BY <1>1 DEF Undisturbed, OpenIsOwners, TermsDoNotOverlap
<1>3. ASSUME NEW s \in Replica
      PROVE  OwnAreRead(s)' /\ AnnouncementIsRead(s)' /\ OwnerIsAhead(s)'
    BY <1>1 DEF Undisturbed, OwnAreRead, AnnouncementIsRead, OwnerIsAhead
<1>. QED BY <1>1, <1>2, <1>3 DEF Undisturbed

\* A replica that waits for no transition has consumed those it committed.
LEMMA NothingIsUnread ==
    ASSUME Inv, Undisturbed, NEW r \in Replica, job[r].step # "wait" \/ job[r].kind # "transition"
    PROVE  \A i \in CommittedIn(log, "transition") : log[i].by = r => i <= position[r]
<1>1. OwnAreRead(r)
    BY DEF Undisturbed
<1>. QED BY <1>1, UndisturbedTypes DEF OwnAreRead

\* The same holds when the transition of the job is in the store.
LEMMA ArrivedIsRead ==
    ASSUME Inv, Undisturbed, NEW r \in Replica, job[r].num \in DOMAIN items[r]
    PROVE  \A i \in CommittedIn(log, "transition") : log[i].by = r => i <= position[r]
<1>. SUFFICES ASSUME NEW i \in CommittedIn(log, "transition"), log[i].by = r, position[r] < i
              PROVE  FALSE
    BY UndisturbedTypes
<1>1. job[r].rec = i /\ i # 0
    BY UndisturbedTypes DEF Undisturbed, OwnAreRead
<1>2. log[i].num = job[r].num
    BY <1>1, ReplicaFacts DEF JobIs
<1>. DEFINE k == items[r][job[r].num]
<1>3. k \in 1 .. position[r] /\ k \in ChosenIn(log) /\ log[k].num = job[r].num
    BY ReplicaFacts DEF ReadBy
<1>4. k \in CommittedIn(log, "transition")
    BY <1>3 DEF ChosenIn
<1>5. k = i
    BY <1>2, <1>3, <1>4 DEF Undisturbed, SequencesDiffer
<1>. QED BY <1>3, <1>5, UndisturbedTypes

\* And when the consumer has read all there is to read.
LEMMA CommittedAreStable ==
    ASSUME Inv, NEW kind, NEW i \in CommittedIn(log, kind)
    PROVE  i <= Cardinality(Stable)
<1>1. i \in DOMAIN log /\ log[i].status = "committed" /\ i \in Nat /\ DOMAIN log = 1 .. Len(log) /\ Len(log) \in Nat
    BY UndisturbedTypes DEF CommittedIn
<1>2. \A j \in 1 .. i : log[j].status # "open"
    BY <1>1 DEF Inv, LogInv, OpenRecordsAreLast
<1>3. 1 .. i \subseteq Stable
    BY <1>1, <1>2 DEF Stable
<1>4. IsFiniteSet(Stable)
    <2>1. IsFiniteSet(DOMAIN log)
        BY <1>1, FS_Interval
    <2>. QED BY <2>1, FS_Subset DEF Stable
<1>5. Cardinality(1 .. i) <= Cardinality(Stable)
    BY <1>3, <1>4, FS_Subset
<1>6. Cardinality(1 .. i) = i
    BY <1>1, FS_Interval
<1>. QED BY <1>5, <1>6

\* The steps of a goroutine that do not call the broker.
LEMMA JobsAreUndisturbed ==
    ASSUME Inv, Undisturbed, faults' = faults, NEW r \in Replica,
           \/ Open(r) \/ Fenced(r) \/ CommitObserved(r) \/ CommitConflicts(r) \/ WaitExpires(r)
           \/ CatchUp(r) \/ PrimaryObserved(r) \/ PrimarySuperseded(r) \/ Activate(r)
    PROVE  Undisturbed'
<1>. USE DEF broker, store, coordinator
<1>1. Idle.kind = "none"
    BY DEF Idle
<1>2. job \in [Replica -> Job]
    BY UndisturbedTypes
<1>3. JobIs(log, r, job[r], machine[r])
    BY ReplicaFacts
<1>4. ASSUME Open(r) \/ CommitObserved(r) \/ CommitConflicts(r) \/ WaitExpires(r)
                \/ PrimaryObserved(r) \/ PrimarySuperseded(r)
      PROVE  Undisturbed'
    <2>1. /\ job' = [job EXCEPT ![r] = Idle] /\ job[r].step \in {"open", "catchup", "wait"}
          /\ UNCHANGED <<broker, producing, position, primary>>
        BY <1>4 DEF Open, CommitObserved, CommitConflicts, WaitExpires, PrimaryObserved, PrimarySuperseded
    <2>2. job'[r] = Idle /\ \A s \in Replica \ {r} : job'[s] = job[s]
        BY <1>2, <2>1
    <2>3. \A s \in Replica : lease'[s] \in {lease[s], None} \/ lease'[s].holder = s
        <3>1. CASE PrimaryObserved(r)
            BY <3>1, UndisturbedTypes DEF PrimaryObserved
        <3>2. CASE ~PrimaryObserved(r)
            BY <1>4, <3>2 DEF Open, CommitObserved, CommitConflicts, WaitExpires, PrimarySuperseded
        <3>. QED BY <3>1, <3>2
    <2>4. \A i \in CommittedIn(log, "transition") : log[i].by = r => i <= position[r]
        <3>1. CASE job[r].num \in DOMAIN items[r]
            BY <3>1, ArrivedIsRead
        <3>2. CASE job[r].kind # "transition" \/ job[r].step # "wait"
            BY <3>2, NothingIsUnread
        <3>3. CASE /\ job[r].kind = "transition" /\ job[r].step = "wait"
                   /\ job[r].num \notin DOMAIN items[r]
            <4>1. WaitExpires(r)
                BY <1>4, <3>3 DEF Open, CommitObserved, CommitConflicts, PrimaryObserved, PrimarySuperseded
            <4>2. faults' # faults + 1
                BY DEF Inv, Shape
            <4>3. ~(position[r] < Cardinality(Stable))
                BY <4>1, <4>2 DEF WaitExpires, Fault
            <4>. QED BY <4>3, CommittedAreStable, StableIsFinite, UndisturbedTypes
        <3>. QED BY <3>1, <3>2, <3>3
    <2>. QED BY <1>1, <2>1, <2>2, <2>3, <2>4, UndisturbedJob
<1>5. CASE Fenced(r)
    <2>1. /\ owner # r /\ UNCHANGED <<broker, store, producing>> /\ job[r].step # "wait"
          /\ job' = [job EXCEPT ![r] = AfterError(job[r])]
        BY <1>5 DEF Fenced, Admitted, Undisturbed
    <2>2. \A s \in Replica \ {r} : job'[s] = job[s]
        BY <1>2, <2>1
    <2>. QED BY <2>1, <2>2, NothingIsUnread, UndisturbedJob
<1>6. CASE CatchUp(r) \/ Activate(r)
    <2>1. /\ UNCHANGED <<broker, store, producing>> /\ job[r].step \in {"catchup", "idle"}
          /\ \A s \in Replica \ {r} : job'[s] = job[s]
        BY <1>2, <1>6 DEF CatchUp, Activate, Idle
    <2>2. job'[r].kind = "primary"
        <3>1. CASE Activate(r)
            BY <1>2, <3>1 DEF Activate
        <3>2. CASE CatchUp(r)
            <4>1. /\ job'[r] = At(Numbered(job[r], EpochOf(primary[r]) + 1), FirstStep(r))
                  /\ job[r].kind = "primary"
                BY <1>2, <1>3, <3>2 DEF CatchUp, JobIs
            <4>. QED BY <1>2, <4>1 DEF At, Numbered, Job
        <3>. QED BY <1>6, <3>1, <3>2
    <2>. QED BY <2>1, <2>2, NothingIsUnread, UndisturbedJob
<1>. QED BY <1>4, <1>5, <1>6

\* The owner plans a command: it has consumed all committed transitions, its own
\* since it waits for none and those of others since they precede the
\* announcement its lease is from.
LEMMA CommitIsUndisturbed ==
    ASSUME Inv, Undisturbed, NEW r \in Replica, NEW o \in OperationID, Commit(r, o)
    PROVE  Undisturbed'
<1>. USE DEF broker, store, coordinator
<1>. DEFINE j == [step |-> FirstStep(r), kind |-> "transition",
                  num |-> Len(machine[r]) + 1, op |-> o, rec |-> 0, end |-> 0]
<1>1. /\ job' = [job EXCEPT ![r] = j] /\ job[r] = Idle /\ CheckLeadership(r)
      /\ Len(machine[r]) = LastSequence(r)
      /\ UNCHANGED <<broker, store, producing>>
    BY DEF Commit
<1>2. /\ job'[r].num = LastSequence(r) + 1 /\ \A s \in Replica \ {r} : job'[s] = job[s]
    BY <1>1, UndisturbedTypes
<1>3. job[r].step = "idle"
    BY <1>1 DEF Idle
<1>4. \A i \in CommittedIn(log, "transition") : log[i].by = r => i <= position[r]
    BY <1>3, NothingIsUnread
<1>5. ASSUME owner = r, NEW i \in CommittedIn(log, "transition")
      PROVE  log[i].num < job'[r].num
    <2>1. primary[r] # None /\ primary[r].holder = r
        BY <1>1 DEF CheckLeadership, Undisturbed, AnnouncementIsRead
    <2>2. PICK a \in CommittedIn(log, "primary") : a <= position[r] /\ log[a].by = r
        BY <2>1 DEF Undisturbed, AnnouncementIsRead
    <2>3. a \in DOMAIN log /\ i \in DOMAIN log /\ a \in Nat /\ i \in Nat /\ position[r] \in Nat
          /\ log[i].num \in Nat
        BY UndisturbedTypes DEF Record
    <2>4. i <= position[r]
        <3>1. CASE log[i].by = r
            BY <1>4, <3>1
        <3>2. CASE log[i].by # r
            <4>1. ~(a < i)
                BY <1>5, <2>2, <2>3, <3>2 DEF Undisturbed, TermsDoNotOverlap
            <4>. QED BY <2>2, <2>3, <4>1
        <3>. QED BY <3>1, <3>2
    <2>5. log[i].num \in DOMAIN items[r]
        BY <2>3, <2>4, ReplicaFacts, UndisturbedTypes DEF ReadBy
    <2>6. log[i].num <= LastSequence(r) /\ LastSequence(r) \in Nat
        BY <2>5, LastSequenceIsMax
    <2>. QED BY <1>2, <2>3, <2>6
<1>. HIDE DEF j
<1>. QED BY <1>1, <1>2, <1>3, <1>4, <1>5, UndisturbedJob

\* A new owner of the transactional ID has written nothing before, and what the
\* previous one left open is aborted.
LEMMA InitializeIsUndisturbed ==
    ASSUME Inv, Undisturbed, NEW r \in Replica, InitializeProducer(r)
    PROVE  Undisturbed'
<1>. DEFINE m == Settle(log, "aborted")
<1>1. /\ log' = m /\ owner' = r /\ expired' = FALSE /\ job[r].step = "init"
      /\ producing' = [producing EXCEPT ![r] = TRUE]
      /\ job' = [job EXCEPT ![r] = At(job[r], "produce")]
      /\ UNCHANGED <<position, primary, lease>>
    BY DEF InitializeProducer, store
<1>2. ~producing[r] /\ job[r].kind = "primary"
    BY <1>1, ReplicaFacts DEF LeaseIs, JobIs, Job
<1>3. \A i \in DOMAIN log : log[i].by # r
    BY <1>2 DEF Undisturbed, TermsDoNotOverlap
<1>4. job'[r].kind = "primary" /\ \A s \in Replica \ {r} : job'[s] = job[s]
    BY <1>1, <1>2, AtIs, UndisturbedTypes
<1>5. /\ m \in Seq(Record) /\ Len(m) = Len(log) /\ DOMAIN m = DOMAIN log
      /\ \A i \in DOMAIN log :
            /\ m[i].kind = log[i].kind /\ m[i].num = log[i].num /\ m[i].by = log[i].by
            /\ m[i].status = IF log[i].status = "open" THEN "aborted" ELSE log[i].status
    BY UndisturbedTypes, SettleShape, LogIsFunction
<1>. HIDE DEF m
<1>6. \A kind : CommittedIn(m, kind) = CommittedIn(log, kind)
    BY <1>5 DEF CommittedIn
<1>7. SequencesDiffer(m)
    BY <1>5, <1>6, UndisturbedTypes DEF Undisturbed, SequencesDiffer
<1>8. OpenIsOwners'
    BY <1>1, <1>5 DEF OpenIsOwners
<1>9. TermsDoNotOverlap'
    <2>. SUFFICES ASSUME NEW s \in Replica
                  PROVE  /\ ~producing'[s] => r # s /\ \A i \in DOMAIN log : log[i].by # s
                         /\ r = s => \A i, j \in DOMAIN log : i < j /\ log[i].by = s => log[j].by = s
        BY <1>1, <1>5 DEF TermsDoNotOverlap
    <2>1. CASE s = r
        BY <1>1, <1>3, <2>1, UndisturbedTypes
    <2>2. CASE s # r
        BY <1>1, <2>2, UndisturbedTypes DEF Undisturbed, TermsDoNotOverlap
    <2>. QED BY <2>1, <2>2
<1>10. ASSUME NEW s \in Replica
       PROVE  OwnAreRead(s)' /\ AnnouncementIsRead(s)' /\ OwnerIsAhead(s)'
    <2>1. OwnAreRead(s)'
        <3>1. CASE s = r
            <4>1. \A i \in CommittedIn(log, "transition") : m[i].by # r
                BY <1>3, <1>5, UndisturbedTypes
            <4>. QED BY <1>1, <1>6, <3>1, <4>1 DEF OwnAreRead
        <3>2. CASE s # r
            <4>. SUFFICES ASSUME NEW i \in CommittedIn(log, "transition"), m[i].by = s, position[s] < i
                          PROVE  job[s].step = "wait" /\ job[s].kind = "transition" /\ job[s].rec = i
                BY <1>1, <1>4, <1>6, <3>2 DEF OwnAreRead
            <4>1. log[i].by = s
                BY <1>5, UndisturbedTypes
            <4>. QED BY <4>1 DEF Undisturbed, OwnAreRead
        <3>. QED BY <3>1, <3>2
    <2>2. AnnouncementIsRead(s)'
        BY <1>1, <1>5, <1>6, UndisturbedTypes DEF Undisturbed, AnnouncementIsRead
    <2>3. OwnerIsAhead(s)'
        BY <1>1, <1>4 DEF OwnerIsAhead
    <2>. QED BY <2>1, <2>2, <2>3
<1>. QED BY <1>1, <1>7, <1>8, <1>9, <1>10 DEF Undisturbed

\* The owner writes a record.
LEMMA ProduceIsUndisturbed ==
    ASSUME Inv, Undisturbed, NEW r \in Replica, Produce(r)
    PROVE  Undisturbed'
<1>. DEFINE rec == NewRecord(r, "open")
            m == Append(log, rec)
            n == Len(log) + 1
<1>1. /\ log' = m /\ owner = r /\ owner' = r /\ expired' = expired /\ job[r].step = "produce"
      /\ job' = [job EXCEPT ![r] = At(Written(job[r], n), "end")]
      /\ UNCHANGED <<position, primary, lease, producing>>
    BY DEF Produce, Admitted, store
<1>2. rec \in Record /\ rec.status = "open" /\ rec.by = r
    BY <1>1, NewRecordFits
<1>3. /\ Len(m) = n /\ DOMAIN m = DOMAIN log \cup {n} /\ (\A i \in DOMAIN log : m[i] = log[i])
      /\ m[n] = rec /\ n \in Nat /\ \A i \in DOMAIN log : i < n
    BY <1>2, AppendShape, UndisturbedTypes
<1>. HIDE DEF rec, m, n
<1>4. /\ job'[r].step = "end" /\ job'[r].rec = n /\ job'[r].kind = job[r].kind /\ job'[r].num = job[r].num
      /\ \A s \in Replica \ {r} : job'[s] = job[s]
    <2>1. job'[r] = At(Written(job[r], n), "end") /\ \A s \in Replica \ {r} : job'[s] = job[s]
        BY <1>1, UndisturbedTypes
    <2>2. /\ Written(job[r], n) \in Job /\ Written(job[r], n).rec = n
          /\ Written(job[r], n).kind = job[r].kind /\ Written(job[r], n).num = job[r].num
        BY <1>3, UndisturbedTypes, WrittenIs
    <2>. QED BY <2>1, <2>2, AtIs
<1>5. \A kind : CommittedIn(m, kind) = CommittedIn(log, kind)
    BY <1>2, <1>3 DEF CommittedIn
<1>6. SequencesDiffer(m)
    BY <1>3, <1>5, UndisturbedTypes DEF Undisturbed, SequencesDiffer
<1>7. \A i \in DOMAIN log : log[i].status # "open"
    BY <1>1 DEF Undisturbed, OpenIsOwners
<1>8. OpenIsOwners'
    BY <1>1, <1>3, <1>4, <1>7 DEF OpenIsOwners
<1>9. TermsDoNotOverlap'
    <2>. SUFFICES ASSUME NEW s \in Replica
                  PROVE  /\ ~producing[s] => r # s /\ \A i \in DOMAIN m : m[i].by # s
                         /\ r = s => \A i, j \in DOMAIN m : i < j /\ m[i].by = s => m[j].by = s
        BY <1>1 DEF TermsDoNotOverlap
    <2>1. /\ ~producing[s] => r # s /\ \A i \in DOMAIN log : log[i].by # s
          /\ r = s => \A i, j \in DOMAIN log : i < j /\ log[i].by = s => log[j].by = s
        BY <1>1 DEF Undisturbed, TermsDoNotOverlap
    <2>. QED BY <1>2, <1>3, <2>1
<1>10. ASSUME NEW s \in Replica
       PROVE  OwnAreRead(s)' /\ AnnouncementIsRead(s)' /\ OwnerIsAhead(s)'
    <2>1. OwnAreRead(s)'
        <3>1. CASE s = r
            <4>1. \A i \in CommittedIn(log, "transition") : log[i].by = r => i <= position[r]
                BY <1>1, NothingIsUnread
            <4>2. \A i \in CommittedIn(m, "transition") : m[i].by = r => i <= position[r]
                BY <1>3, <1>5, <4>1, UndisturbedTypes
            <4>3. \A i \in CommittedIn(m, "transition") : i \in Nat /\ position[r] \in Nat
                BY <1>5, UndisturbedTypes
            <4>. QED BY <1>1, <3>1, <4>2, <4>3 DEF OwnAreRead
        <3>2. CASE s # r
            <4>. SUFFICES ASSUME NEW i \in CommittedIn(log, "transition"), m[i].by = s, position[s] < i
                          PROVE  job[s].step = "wait" /\ job[s].kind = "transition" /\ job[s].rec = i
                BY <1>1, <1>4, <1>5, <3>2 DEF OwnAreRead
            <4>1. log[i].by = s
                BY <1>3, UndisturbedTypes
            <4>. QED BY <4>1 DEF Undisturbed, OwnAreRead
        <3>. QED BY <3>1, <3>2
    <2>2. AnnouncementIsRead(s)'
        BY <1>1, <1>3, <1>5, UndisturbedTypes DEF Undisturbed, AnnouncementIsRead
    <2>3. OwnerIsAhead(s)'
        <3>1. CASE s = r
            <4>1. OwnerIsAhead(r)
                BY DEF Undisturbed
            <4>2. job[r].kind = "transition" => \A i \in CommittedIn(m, "transition") : m[i].num < job[r].num
                BY <1>1, <1>3, <1>5, <4>1, UndisturbedTypes DEF OwnerIsAhead
            <4>. QED BY <1>1, <1>4, <3>1, <4>2 DEF OwnerIsAhead
        <3>2. CASE s # r
            BY <1>1, <3>2 DEF OwnerIsAhead
        <3>. QED BY <3>1, <3>2
    <2>. QED BY <2>1, <2>2, <2>3
<1>. QED BY <1>1, <1>6, <1>8, <1>9, <1>10 DEF Undisturbed

\* The owner commits its one record, whose sequence nobody has used.
LEMMA EndIsUndisturbed ==
    ASSUME Inv, Undisturbed, NEW r \in Replica, EndTransaction(r)
    PROVE  Undisturbed'
<1>. DEFINE m == Settle(log, "committed")
            n == Len(log)
<1>1. /\ log' = m /\ owner = r /\ owner' = r /\ expired' = expired /\ job[r].step = "end"
      /\ job' = [job EXCEPT ![r] = At(job[r], "wait")]
      /\ UNCHANGED <<position, primary, lease, producing>>
    BY DEF EndTransaction, Admitted, store
<1>2. /\ job'[r].step = "wait" /\ job'[r].rec = job[r].rec /\ job'[r].kind = job[r].kind
      /\ \A s \in Replica \ {r} : job'[s] = job[s]
    BY <1>1, UndisturbedTypes, AtIs
<1>3. /\ job[r].rec = n /\ n \in DOMAIN log /\ log[n].status = "open" /\ log[n].by = r
      /\ log[n].kind = job[r].kind /\ log[n].num = job[r].num
    BY <1>1, ReplicaFacts DEF TermIs, JobIs, Undisturbed
<1>4. \A i \in DOMAIN log : log[i].status = "open" => i = n
    BY DEF Undisturbed, OpenIsOwners
<1>5. /\ DOMAIN m = DOMAIN log
      /\ \A i \in DOMAIN log :
            /\ m[i].kind = log[i].kind /\ m[i].num = log[i].num /\ m[i].by = log[i].by
            /\ m[i].status = IF log[i].status = "open" THEN "committed" ELSE log[i].status
    BY UndisturbedTypes, SettleShape, LogIsFunction
<1>. HIDE DEF m, n
<1>6. \A kind : CommittedIn(log, kind) \subseteq CommittedIn(m, kind)
    BY <1>5 DEF CommittedIn
<1>7. \A kind : CommittedIn(m, kind) \subseteq CommittedIn(log, kind) \cup {n}
    BY <1>4, <1>5 DEF CommittedIn
<1>8. n \in CommittedIn(m, "transition") => job[r].kind = "transition"
    BY <1>3, <1>5 DEF CommittedIn
<1>9. job[r].kind = "transition" => \A i \in CommittedIn(log, "transition") : log[i].num < job[r].num
    BY <1>1 DEF Undisturbed, OwnerIsAhead
<1>10. SequencesDiffer(m)
    <2>. SUFFICES ASSUME NEW i \in CommittedIn(m, "transition"), NEW j \in CommittedIn(m, "transition"),
                         m[i].num = m[j].num
                  PROVE  i = j
        BY DEF SequencesDiffer
    <2>1. i \in DOMAIN log /\ j \in DOMAIN log /\ log[i].num = log[j].num
          /\ log[i].num \in Nat /\ log[j].num \in Nat
        BY <1>5, UndisturbedTypes DEF CommittedIn, Record
    <2>2. CASE i # n /\ j # n
        BY <1>7, <2>1, <2>2 DEF Undisturbed, SequencesDiffer
    <2>3. CASE i = n /\ j # n
        BY <1>3, <1>7, <1>8, <1>9, <2>1, <2>3
    <2>4. CASE i # n /\ j = n
        BY <1>3, <1>7, <1>8, <1>9, <2>1, <2>4
    <2>. QED BY <2>2, <2>3, <2>4
<1>11. OpenIsOwners'
    BY <1>1, <1>5 DEF OpenIsOwners
<1>12. TermsDoNotOverlap'
    BY <1>1, <1>5 DEF Undisturbed, TermsDoNotOverlap
<1>13. ASSUME NEW s \in Replica
       PROVE  OwnAreRead(s)' /\ AnnouncementIsRead(s)' /\ OwnerIsAhead(s)'
    <2>1. OwnAreRead(s)'
        <3>1. CASE s = r
            <4>. SUFFICES ASSUME NEW i \in CommittedIn(m, "transition"), m[i].by = r, position[r] < i
                          PROVE  job[r].kind = "transition" /\ i = n
                BY <1>1, <1>2, <1>3, <3>1 DEF OwnAreRead
            <4>1. \A k \in CommittedIn(log, "transition") : log[k].by = r => k <= position[r]
                BY <1>1, NothingIsUnread
            <4>2. i = n
                <5>1. i \in DOMAIN log /\ log[i].by = r /\ i \in Nat /\ position[r] \in Nat
                    BY <1>5, UndisturbedTypes DEF CommittedIn
                <5>. QED BY <1>7, <4>1, <5>1
            <4>. QED BY <1>8, <4>2
        <3>2. CASE s # r
            <4>. SUFFICES ASSUME NEW i \in CommittedIn(m, "transition"), m[i].by = s, position[s] < i
                          PROVE  job[s].step = "wait" /\ job[s].kind = "transition" /\ job[s].rec = i
                BY <1>1, <1>2, <3>2 DEF OwnAreRead
            <4>1. i \in DOMAIN log /\ log[i].by = s
                BY <1>5 DEF CommittedIn
            <4>2. i \in CommittedIn(log, "transition")
                BY <1>3, <1>7, <3>2, <4>1
            <4>. QED BY <4>1, <4>2 DEF Undisturbed, OwnAreRead
        <3>. QED BY <3>1, <3>2
    <2>2. AnnouncementIsRead(s)'
        BY <1>1, <1>5, <1>6, UndisturbedTypes DEF Undisturbed, AnnouncementIsRead
    <2>3. OwnerIsAhead(s)'
        BY <1>1, <1>2 DEF OwnerIsAhead
    <2>. QED BY <2>1, <2>2, <2>3
<1>. QED BY <1>1, <1>10, <1>11, <1>12, <1>13 DEF Undisturbed

\* A consumer reads a record.
LEMMA ConsumeIsUndisturbed ==
    ASSUME Inv, Undisturbed, NEW r \in Replica, Consume(r)
    PROVE  Undisturbed'
<1>. DEFINE n == position[r] + 1
<1>1. /\ position' = [position EXCEPT ![r] = n] /\ n \in Stable
      /\ primary' = IF log[n].status = "committed" /\ log[n].kind = "primary"
                    THEN [primary EXCEPT ![r] = [holder |-> log[n].by, epoch |-> log[n].num]]
                    ELSE primary
      /\ UNCHANGED <<broker, lease, producing, job>>
    BY DEF Consume, Consumable
<1>2. log' = log /\ owner' = owner /\ expired' = expired
    BY <1>1 DEF broker
<1>3. OpenIsOwners' /\ TermsDoNotOverlap' /\ SequencesDiffer(log')
    BY <1>1, <1>2 DEF Undisturbed, OpenIsOwners, TermsDoNotOverlap
<1>4. n \in DOMAIN log /\ position[r] \in Nat /\ \A s \in Replica : position'[s] \in Nat /\ position[s] <= position'[s]
    BY <1>1, UndisturbedTypes DEF Stable
<1>5. position'[r] = n /\ \A s \in Replica \ {r} : primary'[s] = primary[s]
    BY <1>1, UndisturbedTypes
<1>6. ASSUME NEW s \in Replica
      PROVE  OwnAreRead(s)' /\ AnnouncementIsRead(s)' /\ OwnerIsAhead(s)'
    <2>1. OwnAreRead(s)'
        BY <1>1, <1>2, <1>4, UndisturbedTypes DEF Undisturbed, OwnAreRead
    <2>2. AnnouncementIsRead(s)'
        <3>1. CASE primary'[s] = primary[s]
            BY <1>1, <1>2, <1>4, <3>1, UndisturbedTypes DEF Undisturbed, AnnouncementIsRead
        <3>2. CASE primary'[s] # primary[s]
            <4>1. s = r
                BY <1>5, <3>2
            <4>2. /\ log[n].status = "committed" /\ log[n].kind = "primary"
                  /\ primary'[r].holder = log[n].by
                BY <1>1, <3>2, <4>1, UndisturbedTypes
            <4>3. n \in CommittedIn(log, "primary") /\ n <= position'[r]
                BY <1>4, <1>5, <4>2 DEF CommittedIn
            <4>. QED BY <1>1, <1>2, <4>1, <4>2, <4>3 DEF Undisturbed, AnnouncementIsRead
        <3>. QED BY <3>1, <3>2
    <2>3. OwnerIsAhead(s)'
        BY <1>1, <1>2 DEF Undisturbed, OwnerIsAhead
    <2>. QED BY <2>1, <2>2, <2>3
<1>. QED BY <1>2, <1>3, <1>6 DEF Undisturbed

\* Every step that is not a fault keeps the system undisturbed.
LEMMA StepIsUndisturbed ==
    ASSUME Inv, Undisturbed, [Next]_vars, faults' = faults
    PROVE  Undisturbed'
<1>. USE DEF broker, store, coordinator
<1>1. ~Fault
    BY DEF Fault, Inv, Shape
<1>2. ASSUME NEW r \in Replica,
             Consume(r) \/ Open(r) \/ Follow(r) \/ Working(r)
                \/ Activate(r) \/ AcquireReturns(r) \/ Deactivate(r)
                \/ WaitExpires(r) \/ Assign(r) \/ Revoke(r) \/ Restart(r)
      PROVE  Undisturbed'
    <2>1. CASE Working(r)
        BY <2>1, InitializeIsUndisturbed, ProduceIsUndisturbed, EndIsUndisturbed, JobsAreUndisturbed DEF Working
    <2>2. CASE Follow(r) \/ AcquireReturns(r) \/ Assign(r)
        BY <2>2, UndisturbedRest DEF Follow, AcquireReturns, Assign
    <2>3. CASE Deactivate(r)
        <3>1. UNCHANGED <<broker, producing, position, primary, job>>
            BY <2>3 DEF Deactivate
        <3>2. \A s \in Replica : lease'[s] \in {lease[s], None}
            BY <2>3, UndisturbedTypes DEF Deactivate
        <3>. QED BY <3>1, <3>2, UndisturbedRest
    <2>. QED BY <1>1, <1>2, <2>1, <2>2, <2>3, ConsumeIsUndisturbed, JobsAreUndisturbed DEF Revoke, Restart
<1>3. ASSUME NEW r \in Replica, NEW o \in OperationID,
             Commit(r, o) \/ CommitRetry(r, o) \/ AnswerRetry(r, o)
      PROVE  Undisturbed'
    BY <1>3, CommitIsUndisturbed, UndisturbedRest DEF CommitRetry, AnswerRetry
<1>4. CASE UNCHANGED vars
    BY <1>4, UndisturbedRest DEF vars
<1>. QED BY <1>1, <1>2, <1>3, <1>4 DEF Next, ProduceFails, EndFails, AbortTimedOut

\* As long as no call has failed, no wait has expired, no process was restarted
\* and no replica lost the partition, the topic holds one transition for each
\* sequence, although any number of replicas may have been told that they own the
\* partition and announce themselves over one another: fencing by the
\* transactional ID and the wait for the own record are enough.  So a conflict,
\* which kafka_conflicting_transitions shows, begins with an ambiguous failure.
THEOREM ConflictsNeedAFault == Spec => [](faults = 0 => OneTransitionPerSequence)
<1>1. Init => (faults = 0 => Undisturbed)
    <2>. SUFFICES ASSUME Init PROVE Undisturbed
        OBVIOUS
    <2>1. log = <<>> /\ DOMAIN log = {} /\ owner = None /\ None \notin Replica
        BY SentinelAssumption DEF Init
    <2>2. SequencesDiffer(log) /\ OpenIsOwners /\ TermsDoNotOverlap
        BY <2>1 DEF SequencesDiffer, OpenIsOwners, TermsDoNotOverlap, CommittedIn
    <2>3. \A r \in Replica : OwnAreRead(r) /\ AnnouncementIsRead(r) /\ OwnerIsAhead(r)
        BY <2>1 DEF Init, OwnAreRead, AnnouncementIsRead, OwnerIsAhead, CommittedIn
    <2>. QED BY <2>2, <2>3 DEF Init, Undisturbed
<1>2. Inv /\ Inv' /\ [Next]_vars /\ (faults = 0 => Undisturbed) => (faults = 0 => Undisturbed)'
    <2>. SUFFICES ASSUME Inv, Inv', [Next]_vars, faults = 0 => Undisturbed, faults' = 0
                  PROVE  Undisturbed'
        OBVIOUS
    <2>1. Fault \/ faults' = faults
        <3>1. ASSUME NEW r \in Replica, Working(r) PROVE faults' = faults
            BY <3>1 DEF Working, InitializeProducer, Produce, EndTransaction, Fenced, CommitObserved,
               CommitConflicts, CatchUp, PrimaryObserved, PrimarySuperseded
        <3>2. ASSUME NEW r \in Replica,
                     Consume(r) \/ Open(r) \/ Follow(r) \/ Activate(r) \/ AcquireReturns(r)
                        \/ Deactivate(r) \/ Assign(r)
              PROVE  faults' = faults
            BY <3>2 DEF Consume, Open, Follow, Activate, AcquireReturns, Deactivate, Assign
        <3>3. ASSUME NEW r \in Replica, WaitExpires(r) \/ Revoke(r) \/ Restart(r)
              PROVE  Fault \/ faults' = faults
            BY <3>3 DEF WaitExpires, Revoke, Restart
        <3>4. ASSUME NEW r \in Replica, NEW o \in OperationID,
                     Commit(r, o) \/ CommitRetry(r, o) \/ AnswerRetry(r, o)
              PROVE  faults' = faults
            BY <3>4 DEF Commit, CommitRetry, AnswerRetry
        <3>. QED BY <3>1, <3>2, <3>3, <3>4 DEF Next, vars, ProduceFails, EndFails, AbortTimedOut
    <2>2. faults' = faults
        BY <2>1 DEF Fault, Inv, Shape
    <2>. QED BY <2>2, StepIsUndisturbed
<1>3. (faults = 0 => Undisturbed) => (faults = 0 => OneTransitionPerSequence)
    BY SameSets DEF Undisturbed, SequencesDiffer, OneTransitionPerSequence, Conflicting, SameBytes
<1>. QED BY <1>1, <1>2, <1>3, InvariantHolds, PTL DEF Spec
=============================================================================
