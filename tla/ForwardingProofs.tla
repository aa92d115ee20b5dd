--------------------------- MODULE ForwardingProofs ---------------------------
(***************************************************************************)
(* Proofs about Forwarding: for any replicas, operations, retries, calls   *)
(* that run at a time and faults, a mutation takes effect once and clients *)
(* are told what became of their own one: they implement Ledger.           *)
(***************************************************************************)
EXTENDS Forwarding, FiniteSetTheorems, FunctionTheorems, SequenceTheorems, TLAPS

\* The replies of handlers that nobody has read yet are about their operation.
RepliesAreDecided ==
    \A o \in OperationID : \A k \in Slot : Truthful(decided, o, call[o][k].reply)

\* An import was decided where the mode was there.
ImportsAreAllowed ==
    \A n \in DOMAIN decided :
        decided[n] \in OperationID /\ mutation[decided[n]] = "import" => Present(decided, n - 1)

\* The inductive invariant.
Inv == TypeOK /\ ExecutedOnce /\ ImportsAreAllowed /\ RepliesAreDecided /\ AnswersAreDecided

-----------------------------------------------------------------------------
(* Types of the records a step builds.                                     *)

\* The values handlers reply with are replies.
LEMMA RepliesAreReplies ==
    /\ {Failed, Stale, Nothing} \subseteq Reply
    /\ \A n \in Nat : {Ok(n), Missing(n), Refused(n)} \subseteq Reply
BY DEF Reply, Failed, Missing, Refused, Stale, Nothing, Ok

\* A call that goes to another step is a call.
LEMMA StepIsCall ==
    ASSUME NEW c \in Call, NEW step \in {"free", "sent", "look", "command", "reply"}, NEW reply \in Reply
    PROVE  Step(c, step, reply) \in Call /\ Step(c, step, reply).reply = reply
BY DEF Step, Call

\* A free slot is a call, and a request not yet sent is a request.
LEMMA EmptyOnesAreTyped ==
    ASSUME NEW r \in Replica
    PROVE  NoCall \in Call /\ NoCall.reply = Nothing /\ ToSend \in Request
<1>1. (CHOOSE q \in Replica : TRUE) \in Replica
  OBVIOUS
<1>2. 1 \in Slot /\ 0 \in 0 .. Retries
  BY ForwardingAssumption DEF Slot
<1> QED
  BY <1>1, <1>2, RepliesAreReplies DEF NoCall, ToSend, Call, Request

\* A request on its next attempt is a request.
LEMMA PassIsRequest ==
    ASSUME NEW q \in Request, NEW attempt \in 0 .. Retries
    PROVE  Pass(q, attempt) \in Request
<1>1. 1 \in Slot
  BY ForwardingAssumption DEF Slot
<1> QED
  BY <1>1 DEF Pass, Request

\* A request whose call was given up is a request.
LEMMA WithoutCallIsRequest ==
    ASSUME NEW q \in Request, NEW c
    PROVE  WithoutCall(q, c) \in Request
<1>1. q.attempt \in 0 .. Retries /\ q.at \in Replica
  BY DEF Request
<1> QED
  BY <1>1, PassIsRequest, EmptyOnesAreTyped DEF WithoutCall

-----------------------------------------------------------------------------
(* What setting a call or a request leaves alone.                          *)

\* What clients ask for stays the same, so primed statements are about the new
\* list, calls and answers only.
LEMMA MutationsStay ==
    ASSUME mutation' = mutation
    PROVE  /\ RepliesAreDecided' <=>
                \A o \in OperationID : \A k \in Slot : Truthful(decided', o, call'[o][k].reply)
           /\ AnswersAreDecided' <=> \A o \in OperationID : Truthful(decided', o, answer'[o])
           /\ ImportsAreAllowed' <=>
                \A n \in DOMAIN decided' :
                    decided'[n] \in OperationID /\ mutation[decided'[n]] = "import" => Present(decided', n - 1)
BY DEF RepliesAreDecided, AnswersAreDecided, ImportsAreAllowed, Truthful, Present, Puts, Deletes

\* Decided operations stay where they are: the mode is there after the first n
\* of them or not, whatever is appended.
LEMMA PresentStays ==
    ASSUME NEW d \in Seq(Operation), NEW o \in Operation, NEW n \in 0 .. Len(d)
    PROVE  Present(Append(d, o), n) <=> Present(d, n)
<1>1. \A m \in 1 .. n : Append(d, o)[m] = d[m]
  OBVIOUS
<1>2. \A m \in 1 .. n : \A l \in m + 1 .. n : l \in 1 .. n
  OBVIOUS
<1> QED
  BY <1>1, <1>2 DEF Present

\* What was said of decided operations stays true when one is appended.
LEMMA TruthStays ==
    ASSUME NEW d \in Seq(Operation), NEW p \in Operation, NEW o, NEW reply \in Reply, Truthful(d, o, reply)
    PROVE  Truthful(Append(d, p), o, reply)
<1> DEFINE n == reply.seq
           e == Append(d, p)
<1>1. n \in Nat /\ Len(d) \in Nat /\ DOMAIN d = 1 .. Len(d)
  BY DEF Reply, Failed, Stale, Nothing
<1>2. Len(e) = Len(d) + 1 /\ DOMAIN e = 1 .. Len(d) + 1 /\ \A m \in 1 .. Len(d) : e[m] = d[m]
  OBVIOUS
<1>3. \A m \in 0 .. Len(d) : Present(e, m) <=> Present(d, m)
  BY PresentStays
<1> HIDE DEF e
<1>4. CASE reply.code = "ok"
  <2>1. n \in 1 .. Len(d) /\ d[n] = o /\ (mutation[o] = "import" => Present(d, n - 1))
    BY <1>1, <1>4 DEF Truthful
  <2>2. n - 1 \in 0 .. Len(d) /\ n \in DOMAIN e /\ e[n] = o
    BY <1>1, <1>2, <2>1
  <2> QED
    BY <1>3, <1>4, <2>1, <2>2 DEF Truthful, e
<1>5. CASE reply.code = "missing"
  <2>1. n \in 0 .. Len(d) /\ n <= Len(e)
    BY <1>1, <1>2, <1>5 DEF Truthful
  <2> QED
    BY <1>3, <1>5, <2>1 DEF Truthful, e
<1>6. CASE reply.code = "refused"
  <2>1. n \in 0 .. Len(d) /\ n <= Len(e)
    BY <1>1, <1>2, <1>6 DEF Truthful
  <2>2. \A m \in 1 .. n : e[m] # o
    BY <1>1, <1>2, <1>6, <2>1 DEF Truthful
  <2> QED
    BY <1>3, <1>6, <2>1, <2>2 DEF Truthful, e
<1>7. CASE reply.code \notin {"ok", "missing", "refused"}
  BY <1>7 DEF Truthful
<1> QED
  BY <1>4, <1>5, <1>6, <1>7

\* A slot may take any call whose reply is true of its operation.
LEMMA SetCallKeeps ==
    ASSUME TypeOK, RepliesAreDecided,
           NEW o \in OperationID, NEW k \in Slot, NEW c \in Call,
           SetCall(o, k, c), decided' = decided, mutation' = mutation, Truthful(decided, o, c.reply)
    PROVE  call' \in [OperationID -> [Slot -> Call]] /\ RepliesAreDecided'
<1>1. call \in [OperationID -> [Slot -> Call]]
  BY DEF TypeOK
<1>2. call' = [call EXCEPT ![o] = [call[o] EXCEPT ![k] = c]]
  BY DEF SetCall
<1>3. [call[o] EXCEPT ![k] = c] \in [Slot -> Call]
  BY <1>1
<1>4. call' \in [OperationID -> [Slot -> Call]]
  BY <1>1, <1>2, <1>3
<1>5. \A p \in OperationID : \A l \in Slot : call'[p][l] = IF p = o /\ l = k THEN c ELSE call[p][l]
  BY <1>1, <1>2
<1>6. \A p \in OperationID : \A l \in Slot : Truthful(decided, p, call'[p][l].reply)
  BY <1>5 DEF RepliesAreDecided
<1> QED
  BY <1>4, <1>6, MutationsStay

\* A request may become any request.
LEMMA SetRequestTyped ==
    ASSUME TypeOK, NEW o \in OperationID, NEW q \in Request, SetRequest(o, q)
    PROVE  request' \in [OperationID -> Request]
BY DEF TypeOK, SetRequest

\* A reply that promises nothing.
LEMMA EmptyRepliesAreTruthful ==
    ASSUME NEW o, NEW reply \in {Failed, Stale, Nothing}
    PROVE  \A d : Truthful(d, o, reply)
BY DEF Truthful, Failed, Stale, Nothing

-----------------------------------------------------------------------------
(* Steps that leave the topic alone.                                       *)

\* A step of clients, forwarders and handlers.
LEMMA ClientStep ==
    ASSUME Inv, UNCHANGED <<log, machines, leadership>>, faults' \in 0 .. MaxFaults,
           request' \in [OperationID -> Request], call' \in [OperationID -> [Slot -> Call]],
           RepliesAreDecided', answer' = answer
    PROVE  Inv'
<1>1. TypeOK'
  BY DEF Inv, TypeOK, log, machines, leadership
<1>2. ExecutedOnce'
  BY DEF Inv, ExecutedOnce, log
<1>3. AnswersAreDecided' /\ ImportsAreAllowed'
  BY MutationsStay DEF Inv, AnswersAreDecided, ImportsAreAllowed, log
<1> QED
  BY <1>1, <1>2, <1>3 DEF Inv

\* A step of machines and coordinators.
LEMMA ServerStep ==
    ASSUME Inv, UNCHANGED clients, decided' = decided, mutation' = mutation, TypeOK'
    PROVE  Inv'
<1>1. ExecutedOnce'
  BY DEF Inv, ExecutedOnce
<1>2. AnswersAreDecided' /\ ImportsAreAllowed'
  BY MutationsStay DEF Inv, AnswersAreDecided, ImportsAreAllowed, clients
<1>3. RepliesAreDecided'
  BY MutationsStay DEF Inv, RepliesAreDecided, clients
<1> QED
  BY <1>1, <1>2, <1>3 DEF Inv

\* A handler gets to a step with a reply that is true.
LEMMA HandlerStep ==
    ASSUME Inv, NEW o \in OperationID, NEW k \in Slot, NEW c \in Call,
           SetCall(o, k, c), Truthful(decided, o, c.reply),
           UNCHANGED <<log, machines, leadership, request, answer, faults>>
    PROVE  Inv'
<1>1. call' \in [OperationID -> [Slot -> Call]] /\ RepliesAreDecided'
  BY SetCallKeeps DEF Inv, log
<1> QED
  BY <1>1, ClientStep DEF Inv, TypeOK

\* A request gets to a step of its own.
LEMMA RequestStep ==
    ASSUME Inv, NEW o \in OperationID, NEW q \in Request, SetRequest(o, q),
           UNCHANGED <<log, machines, leadership, call, answer>>, faults' \in 0 .. MaxFaults
    PROVE  Inv'
<1>1. request' \in [OperationID -> Request]
  BY SetRequestTyped DEF Inv
<1>2. RepliesAreDecided'
  BY MutationsStay DEF Inv, RepliesAreDecided, log
<1> QED
  BY <1>1, <1>2, ClientStep DEF Inv, TypeOK

\* A fault is counted up to its bound.
LEMMA FaultsAreBounded == TypeOK /\ Fault => faults' \in 0 .. MaxFaults
<1> SUFFICES ASSUME TypeOK, Fault PROVE faults' \in 0 .. MaxFaults
  OBVIOUS
<1>1. faults \in 0 .. MaxFaults /\ MaxFaults \in Nat
  BY ForwardingAssumption DEF TypeOK
<1>2. faults < MaxFaults /\ faults' = faults + 1
  BY DEF Fault
<1> QED
  BY <1>1, <1>2

-----------------------------------------------------------------------------
(* servePublic and forward.                                                *)

\* A handler is called for a request, here or at the primary.
LEMMA StartKeeps ==
    ASSUME Inv, NEW o \in OperationID, NEW r \in Replica, NEW epoch \in Nat,
           NEW step \in {"look", "sent"}, NEW attempt \in 0 .. Retries,
           Start(o, r, epoch, step, attempt),
           UNCHANGED <<log, machines, leadership, answer, faults>>
    PROVE  Inv'
<1>1. PICK k \in Slot :
        /\ SetCall(o, k, [at |-> r, epoch |-> epoch, step |-> step, reply |-> Nothing])
        /\ SetRequest(o, [at |-> request[o].at, step |-> "waiting", attempt |-> attempt, slot |-> k])
  BY DEF Start
<1> DEFINE c == [at |-> r, epoch |-> epoch, step |-> step, reply |-> Nothing]
           q == [at |-> request[o].at, step |-> "waiting", attempt |-> attempt, slot |-> k]
<1>2. c \in Call /\ c.reply = Nothing
  BY RepliesAreReplies DEF Call
<1>3. Truthful(decided, o, c.reply)
  BY <1>2, EmptyRepliesAreTruthful
<1>4. request[o].at \in Replica
  BY DEF Inv, TypeOK, Request
<1>5. q \in Request
  BY <1>4 DEF Request
<1>6. SetCall(o, k, c) /\ SetRequest(o, q)
  BY <1>1
<1> HIDE DEF c, q
<1>7. call' \in [OperationID -> [Slot -> Call]] /\ RepliesAreDecided'
  BY <1>2, <1>3, <1>6, SetCallKeeps DEF Inv, log
<1>8. request' \in [OperationID -> Request]
  BY <1>5, <1>6, SetRequestTyped DEF Inv
<1> QED
  BY <1>7, <1>8, ClientStep DEF Inv, TypeOK

\* A request is served where it arrived, or goes on to be forwarded.
LEMMA ServePublicKeeps ==
    ASSUME Inv, NEW o \in OperationID, ServePublic(o)
    PROVE  Inv'
<1>1. request[o] \in Request /\ request[o].at \in Replica
  BY DEF Inv, TypeOK, Request
<1>2. 0 \in 0 .. Retries
  BY ForwardingAssumption
<1>3. CASE Start(o, request[o].at, 0, "look", 0)
  BY <1>1, <1>2, <1>3, StartKeeps DEF ServePublic
<1>4. CASE SetRequest(o, Pass(request[o], 0)) /\ UNCHANGED call
  BY <1>1, <1>2, <1>4, PassIsRequest, RequestStep DEF ServePublic, Inv, TypeOK
<1> QED
  BY <1>3, <1>4 DEF ServePublic

\* A request is forwarded to the announced primary.
LEMMA ForwardKeeps ==
    ASSUME Inv, NEW o \in OperationID, Forward(o)
    PROVE  Inv'
<1> DEFINE r == request[o].at
<1>1. request[o] \in Request /\ r \in Replica /\ request[o].attempt \in 0 .. Retries
  BY DEF Inv, TypeOK, Request
<1>2. request[o].attempt + 1 \in 0 .. Retries
  BY <1>1, ForwardingAssumption DEF Forward
<1>3. known[r] \in 0 .. Len(announced) /\ Len(announced) \in Nat
  BY <1>1 DEF Inv, TypeOK
<1>4. CASE known[r] = 0
  BY <1>1, <1>2, <1>4, PassIsRequest, RequestStep DEF Forward, Inv, TypeOK
<1>5. CASE known[r] # 0
  <2>1. announced[known[r]] \in Replica /\ known[r] \in Nat
    BY <1>3, <1>5 DEF Inv, TypeOK
  <2> QED
    BY <1>2, <1>5, <2>1, StartKeeps DEF Forward
<1> QED
  BY <1>4, <1>5

\* The reply of a forwarded call becomes the answer, or another attempt begins.
LEMMA RelayKeeps ==
    ASSUME Inv, NEW o \in OperationID, Relay(o)
    PROVE  Inv'
<1> DEFINE k == request[o].slot
           reply == call[o][k].reply
           q == IF reply = Stale THEN Pass(request[o], request[o].attempt) ELSE ToSend
<1>1. request[o] \in Request /\ k \in Slot /\ request[o].attempt \in 0 .. Retries /\ request[o].at \in Replica
  BY DEF Inv, TypeOK, Request
<1>2. call[o][k] \in Call /\ reply \in Reply
  <2>1. call \in [OperationID -> [Slot -> Call]]
    BY DEF Inv, TypeOK
  <2>2. call[o][k] \in Call
    BY <1>1, <2>1
  <2> QED
    BY <2>2 DEF Call
<1>3. q \in Request
  BY <1>1, PassIsRequest, EmptyOnesAreTyped
<1>4. NoCall \in Call /\ Truthful(decided, o, NoCall.reply)
  BY <1>1, EmptyOnesAreTyped, EmptyRepliesAreTruthful
<1>5. SetCall(o, k, NoCall) /\ SetRequest(o, q) /\ UNCHANGED <<log, machines, leadership, faults>>
  BY DEF Relay
<1>6. answer' = [answer EXCEPT ![o] = IF reply \in {Stale, Failed} THEN answer[o] ELSE reply]
  BY DEF Relay
<1>7. Truthful(decided, o, reply)
  BY <1>1 DEF Inv, RepliesAreDecided
<1> HIDE DEF k, q, reply
<1>8. call' \in [OperationID -> [Slot -> Call]] /\ RepliesAreDecided'
  BY <1>1, <1>4, <1>5, SetCallKeeps DEF Inv, log
<1>9. request' \in [OperationID -> Request]
  BY <1>3, <1>5, SetRequestTyped DEF Inv
<1>10. answer' \in [OperationID -> Reply]
  BY <1>2, <1>6 DEF Inv, TypeOK
<1>11. TypeOK'
  BY <1>5, <1>8, <1>9, <1>10 DEF Inv, TypeOK, log, machines, leadership
<1>12. ExecutedOnce' /\ ImportsAreAllowed'
  BY <1>5, MutationsStay DEF Inv, ExecutedOnce, ImportsAreAllowed, log
<1>13. \A p \in OperationID : Truthful(decided, p, answer[p])
  BY DEF Inv, AnswersAreDecided
<1>14. \A p \in OperationID : answer'[p] = answer[p] \/ (p = o /\ answer'[p] = reply)
  BY <1>6 DEF Inv, TypeOK
<1>15. \A p \in OperationID : Truthful(decided, p, answer'[p])
  BY <1>7, <1>13, <1>14
<1>16. AnswersAreDecided'
  BY <1>5, <1>15, MutationsStay DEF log
<1> QED
  BY <1>8, <1>11, <1>12, <1>16 DEF Inv

\* Sending, giving up and timing out only move the request.
LEMMA RequestMovesKeep ==
    ASSUME Inv, NEW o \in OperationID,
           Unavailable(o) \/ TimeOut(o) \/ \E r \in Replica : Send(o, r)
    PROVE  Inv'
<1>1. request[o] \in Request /\ request[o].at \in Replica
  BY DEF Inv, TypeOK, Request
<1>2. faults \in 0 .. MaxFaults
  BY DEF Inv, TypeOK
<1>3. CASE Unavailable(o)
  BY <1>1, <1>2, <1>3, EmptyOnesAreTyped, RequestStep DEF Unavailable
<1>4. CASE TimeOut(o)
  <2>1. WithoutCall(request[o], call[o][request[o].slot]) \in Request
    BY <1>1, WithoutCallIsRequest
  <2>2. faults' \in 0 .. MaxFaults
    BY <1>4, FaultsAreBounded DEF TimeOut, Inv
  <2> QED
    BY <1>4, <2>1, <2>2, RequestStep DEF TimeOut
<1>5. CASE \E r \in Replica : Send(o, r)
  <2>1. PICK r \in Replica : Send(o, r)
    BY <1>5
  <2> DEFINE q == [at |-> r, step |-> "public", attempt |-> 0, slot |-> 1]
  <2>2. q \in Request
    BY ForwardingAssumption DEF Request, Slot
  <2>3. SetRequest(o, q) /\ UNCHANGED <<log, machines, leadership, call, answer, faults>>
    BY <2>1 DEF Send
  <2> HIDE DEF q
  <2> QED
    BY <1>2, <2>2, <2>3, RequestStep
<1> QED
  BY <1>3, <1>4, <1>5

-----------------------------------------------------------------------------
(* receive and the public handler.                                         *)

\* What is known of a call and of the machine it runs at.
LEMMA CallIsTyped ==
    ASSUME Inv, NEW o \in OperationID, NEW k \in Slot
    PROVE  /\ call[o][k] \in Call /\ call[o][k].at \in Replica
           /\ applied[call[o][k].at] \in 0 .. Len(decided)
           /\ decided \in Seq(Operation) /\ Len(decided) \in Nat
           /\ DOMAIN decided = 1 .. Len(decided)
BY DEF Inv, TypeOK, Call

\* A reply that is true ends a handler.
LEMMA ReturnKeeps ==
    ASSUME Inv, NEW o \in OperationID, NEW k \in Slot, NEW reply \in Reply,
           Return(o, k, reply), Truthful(decided, o, reply),
           UNCHANGED <<log, machines, leadership, request, answer, faults>>
    PROVE  Inv'
<1>1. Step(call[o][k], "reply", reply) \in Call /\ Step(call[o][k], "reply", reply).reply = reply
  BY CallIsTyped, StepIsCall
<1> QED
  BY <1>1, HandlerStep DEF Return

\* A handler goes on.
LEMMA GoOnKeeps ==
    ASSUME Inv, NEW o \in OperationID, NEW k \in Slot, NEW step \in {"look", "command"},
           SetCall(o, k, Step(call[o][k], step, Nothing)),
           UNCHANGED <<log, machines, leadership, request, answer, faults>>
    PROVE  Inv'
<1>1. call[o][k] \in Call /\ Nothing \in Reply
  BY CallIsTyped, RepliesAreReplies
<1>2. /\ Step(call[o][k], step, Nothing) \in Call
      /\ Step(call[o][k], step, Nothing).reply = Nothing
  <2>1. step \in {"free", "sent", "look", "command", "reply"}
    OBVIOUS
  <2>2. \A c \in Call : Step(c, step, Nothing) \in Call /\ Step(c, step, Nothing).reply = Nothing
    BY <1>1, <2>1 DEF Step, Call
  <2> QED
    BY <1>1, <2>2, Zenon
<1> QED
  BY <1>2, HandlerStep, EmptyRepliesAreTruthful

\* The receiver compares the lease in the call with its own.
LEMMA ReceiveKeeps ==
    ASSUME Inv, NEW o \in OperationID, NEW k \in Slot, Receive(o, k)
    PROVE  Inv'
<1>1. CASE SetCall(o, k, Step(call[o][k], "look", Nothing))
  BY <1>1, GoOnKeeps DEF Receive
<1>2. CASE SetCall(o, k, Step(call[o][k], "reply", Stale))
  BY <1>2, ReturnKeeps, RepliesAreReplies, EmptyRepliesAreTruthful DEF Receive, Return
<1> QED
  BY <1>1, <1>2 DEF Receive

\* A handler that looks first finds what it looks for, or replies 404.
LEMMA LookKeeps ==
    ASSUME Inv, NEW o \in OperationID, NEW k \in Slot, Look(o, k)
    PROVE  Inv'
<1> DEFINE n == applied[call[o][k].at]
<1>0. n \in Nat /\ n <= Len(decided)
  BY CallIsTyped
<1>1. CASE SetCall(o, k, Step(call[o][k], "command", Nothing))
  BY <1>1, GoOnKeeps DEF Look
<1>2. CASE mutation[o] = "delete" /\ ~Present(decided, n) /\ Return(o, k, Missing(n))
  <2>1. Truthful(decided, o, Missing(n))
    BY <1>0, <1>2 DEF Truthful, Missing
  <2> QED
    BY <1>0, <1>2, <2>1, ReturnKeeps, RepliesAreReplies DEF Look
<1> QED
  BY <1>1, <1>2 DEF Look

\* A command that is refused leaves everything as it is.
LEMMA RefuseKeeps ==
    ASSUME Inv, NEW o \in OperationID, NEW k \in Slot, Refuse(o, k)
    PROVE  Inv'
<1> DEFINE n == applied[call[o][k].at]
<1>1. n \in Nat /\ n <= Len(decided)
  BY CallIsTyped
<1>2. mutation[o] = "import" /\ ~Present(decided, n) /\ \A m \in 1 .. n : decided[m] # o
  BY DEF Refuse, Allowed, Recorded
<1>3. Truthful(decided, o, Refused(n))
  BY <1>1, <1>2 DEF Truthful, Refused
<1> QED
  BY <1>1, <1>3, ReturnKeeps, RepliesAreReplies DEF Refuse

\* A recorded operation is answered with its place in the list.
LEMMA AnswerRecordedKeeps ==
    ASSUME Inv, NEW o \in OperationID, NEW k \in Slot, AnswerRecorded(o, k)
    PROVE  Inv'
<1>1. PICK n \in 1 .. applied[call[o][k].at] : decided[n] = o /\ Return(o, k, Ok(n))
  BY DEF AnswerRecorded
<1>2. n \in DOMAIN decided /\ n \in Nat
  BY CallIsTyped
<1>3. mutation[o] = "import" => Present(decided, n - 1)
  BY <1>1, <1>2 DEF Inv, ImportsAreAllowed
<1>4. Truthful(decided, o, Ok(n))
  BY <1>1, <1>2, <1>3 DEF Truthful, Ok
<1> QED
  BY <1>1, <1>2, <1>4, ReturnKeeps, RepliesAreReplies DEF AnswerRecorded

\* A handler ends with nobody to read its reply.
LEMMA VanishKeeps ==
    ASSUME Inv, NEW o \in OperationID, NEW k \in Slot, Vanish(o, k)
    PROVE  Inv'
<1>1. NoCall \in Call /\ Truthful(decided, o, NoCall.reply)
  BY CallIsTyped, EmptyOnesAreTyped, EmptyRepliesAreTruthful
<1> QED
  BY <1>1, HandlerStep DEF Vanish

-----------------------------------------------------------------------------
(* Commit.                                                                 *)

\* A machine that has applied every decided operation and does not know o
\* appends it: o was not decided before, and nothing that was said changes.
LEMMA DecideKeeps ==
    ASSUME Inv, NEW r \in Replica, NEW o \in Operation,
           ~Recorded(r, o), applied[r] = Len(decided),
           o \in OperationID => Allowed(r, o), decided' = Append(decided, o),
           call' \in [OperationID -> [Slot -> Call]],
           \A p \in OperationID : \A l \in Slot :
               call'[p][l] = call[p][l] \/ Truthful(decided', p, call'[p][l].reply),
           applied' \in [Replica -> 0 .. Len(decided) + 1], unseen' \subseteq Replica,
           faults' \in 0 .. MaxFaults,
           UNCHANGED <<mutation, torn, announced, known, producer, leadership, request, answer>>
    PROVE  Inv'
<1>1. /\ decided \in Seq(Operation) /\ Len(decided) \in Nat
      /\ DOMAIN decided = 1 .. Len(decided)
      /\ \A n \in DOMAIN decided : decided[n] # o
  <2>1. decided \in Seq(Operation)
    BY DEF Inv, TypeOK
  <2>2. Len(decided) \in Nat /\ DOMAIN decided = 1 .. Len(decided)
    BY <2>1
  <2> QED
    BY <2>1, <2>2 DEF Recorded
<1>2. /\ decided' \in Seq(Operation) /\ Len(decided') = Len(decided) + 1
      /\ DOMAIN decided' = 1 .. Len(decided) + 1
      /\ \A n \in DOMAIN decided : n \in DOMAIN decided' /\ decided'[n] = decided[n]
      /\ decided'[Len(decided) + 1] = o
  BY <1>1
<1>3. ExecutedOnce'
  <2> SUFFICES ASSUME NEW m \in DOMAIN decided', NEW n \in DOMAIN decided', decided'[m] = decided'[n]
               PROVE  m = n
    BY DEF ExecutedOnce
  <2>1. CASE m \in DOMAIN decided /\ n \in DOMAIN decided
    BY <1>2, <2>1 DEF Inv, ExecutedOnce
  <2>2. CASE m = Len(decided) + 1 \/ n = Len(decided) + 1
    BY <1>1, <1>2, <2>2
  <2> QED
    BY <1>1, <1>2, <2>1, <2>2
<1>4. \A p : \A said \in Reply : Truthful(decided, p, said) => Truthful(decided', p, said)
  BY <1>1, TruthStays
<1>5. \A p \in OperationID : \A l \in Slot : Truthful(decided', p, call'[p][l].reply)
  <2>1. \A p \in OperationID : \A l \in Slot : call[p][l].reply \in Reply
    BY DEF Inv, TypeOK, Call
  <2> QED
    BY <1>4, <2>1 DEF Inv, RepliesAreDecided
<1>6. \A p \in OperationID : Truthful(decided', p, answer'[p])
  BY <1>4 DEF Inv, TypeOK, AnswersAreDecided
<1>7. \A n \in 0 .. Len(decided) : Present(decided', n) <=> Present(decided, n)
  BY <1>1, PresentStays
<1>8. ASSUME NEW n \in DOMAIN decided', decided'[n] \in OperationID, mutation[decided'[n]] = "import"
      PROVE  Present(decided', n - 1)
  <2>1. n - 1 \in 0 .. Len(decided)
    BY <1>1, <1>2
  <2>2. CASE n \in DOMAIN decided
    BY <1>2, <1>7, <1>8, <2>1, <2>2 DEF Inv, ImportsAreAllowed
  <2>3. CASE n = Len(decided) + 1
    <3>1. decided'[n] = o /\ n - 1 = applied[r]
      BY <1>1, <1>2, <2>3
    <3> QED
      BY <1>7, <1>8, <2>1, <3>1 DEF Allowed
  <2> QED
    BY <1>1, <1>2, <2>2, <2>3
<1>9. RepliesAreDecided' /\ AnswersAreDecided' /\ ImportsAreAllowed'
  BY <1>5, <1>6, <1>8, MutationsStay
<1>10. TypeOK'
  BY <1>2 DEF Inv, TypeOK, leadership
<1> QED
  BY <1>3, <1>9, <1>10 DEF Inv

\* The reply of one handler is all that changes in the calls.
LEMMA ReturnChanges ==
    ASSUME Inv, NEW o \in OperationID, NEW k \in Slot, NEW reply \in Reply, Return(o, k, reply)
    PROVE  /\ call' \in [OperationID -> [Slot -> Call]]
           /\ \A p \in OperationID : \A l \in Slot :
                call'[p][l] = call[p][l] \/ (p = o /\ call'[p][l].reply = reply)
<1> DEFINE c == Step(call[o][k], "reply", reply)
<1>1. c \in Call /\ c.reply = reply
  BY CallIsTyped, StepIsCall
<1>2. call' = [call EXCEPT ![o] = [call[o] EXCEPT ![k] = c]]
  BY DEF Return, SetCall
<1> HIDE DEF c
<1>3. call \in [OperationID -> [Slot -> Call]]
  BY DEF Inv, TypeOK
<1>4. [call[o] EXCEPT ![k] = c] \in [Slot -> Call]
  BY <1>1, <1>3
<1> QED
  BY <1>1, <1>2, <1>3, <1>4

\* A commit appends its operation to the list and replies with its place.
LEMMA CommitKeeps ==
    ASSUME Inv, NEW o \in OperationID, NEW k \in Slot, Commit(o, k)
    PROVE  Inv'
<1> DEFINE n == Len(decided) + 1
           r == call[o][k].at
<1>1. n \in Nat /\ n - 1 = Len(decided) /\ decided \in Seq(Operation) /\ Len(decided) \in Nat /\ r \in Replica
  BY CallIsTyped
<1>2. decided' = Append(decided, o) /\ o \in Operation
  BY DEF Commit, Operation
<1>3. n \in DOMAIN decided' /\ decided'[n] = o
  BY <1>1, <1>2
<1>4. ~Recorded(r, o) /\ applied[r] = Len(decided) /\ Allowed(r, o)
  BY DEF Commit, MayCommit
<1>5. mutation[o] = "import" => Present(decided', n - 1)
  <2>1. Present(decided', Len(decided)) <=> Present(decided, Len(decided))
    BY <1>1, <1>2, PresentStays
  <2> QED
    BY <1>1, <1>4, <2>1 DEF Allowed
<1>6. Truthful(decided', o, Ok(n))
  BY <1>3, <1>5 DEF Truthful, Ok
<1>7. applied' = [applied EXCEPT ![r] = n]
  BY DEF Commit
<1>8. applied' \in [Replica -> 0 .. Len(decided) + 1]
  <2>1. applied \in [Replica -> 0 .. Len(decided) + 1]
    BY <1>1 DEF Inv, TypeOK
  <2>2. n \in 0 .. Len(decided) + 1
    BY <1>1
  <2> QED
    BY <1>7, <2>1, <2>2
<1>9. Return(o, k, Ok(n)) /\ Ok(n) \in Reply
  BY <1>1, RepliesAreReplies DEF Commit
<1>10. faults' \in 0 .. MaxFaults /\ unseen' \subseteq Replica
  BY DEF Commit, Inv, TypeOK
<1>11. UNCHANGED <<mutation, torn, announced, known, producer, leadership, request, answer>>
  BY DEF Commit
<1> HIDE DEF n, r
<1>12. /\ call' \in [OperationID -> [Slot -> Call]]
       /\ \A p \in OperationID : \A l \in Slot :
             call'[p][l] = call[p][l] \/ Truthful(decided', p, call'[p][l].reply)
  BY <1>6, <1>9, ReturnChanges
<1> QED
  BY <1>1, <1>2, <1>4, <1>8, <1>10, <1>11, <1>12, DecideKeeps

\* So does the mutation of another client.
LEMMA CommitOtherKeeps ==
    ASSUME Inv, NEW o \in OtherPuts \cup OtherDeletes, NEW r \in Replica, CommitOther(o, r)
    PROVE  Inv'
<1>1. decided \in Seq(Operation) /\ Len(decided) \in Nat
  BY DEF Inv, TypeOK
<1>2. /\ o \in Operation /\ o \notin OperationID /\ decided' = Append(decided, o)
      /\ ~Recorded(r, o) /\ applied[r] = Len(decided)
  BY ForwardingAssumption DEF CommitOther, MayCommit, Operation
<1>3. applied' \in [Replica -> 0 .. Len(decided) + 1]
  <2>1. 0 .. Len(decided) \subseteq 0 .. Len(decided) + 1 /\ Len(decided) + 1 \in 0 .. Len(decided) + 1
    BY <1>1
  <2>2. applied \in [Replica -> 0 .. Len(decided)]
    BY DEF Inv, TypeOK
  <2>3. applied' = [applied EXCEPT ![r] = Len(decided) + 1]
    BY DEF CommitOther
  <2> QED
    BY <2>1, <2>2, <2>3
<1>4. call' = call /\ call' \in [OperationID -> [Slot -> Call]] /\ unseen' \subseteq Replica /\ faults' \in 0 .. MaxFaults
  BY DEF CommitOther, clients, Inv, TypeOK
<1>5. UNCHANGED <<mutation, torn, announced, known, producer, leadership, request, answer>>
  BY DEF CommitOther, clients
<1> QED
  BY <1>2, <1>3, <1>4, <1>5, DecideKeeps

\* A commit fails, with or without effect.
LEMMA CommitFailsKeeps ==
    ASSUME Inv, NEW o \in OperationID, NEW k \in Slot, NEW executed \in BOOLEAN,
           CommitFails(o, k, executed)
    PROVE  Inv'
<1> DEFINE r == call[o][k].at
<1>1. Failed \in Reply /\ Truthful(decided, o, Failed) /\ Truthful(decided', o, Failed)
  BY RepliesAreReplies, EmptyRepliesAreTruthful
<1>2. faults' \in 0 .. MaxFaults
  BY FaultsAreBounded DEF CommitFails, Inv, TypeOK
<1>3. /\ Return(o, k, Failed)
      /\ UNCHANGED <<mutation, torn, announced, applied, known, producer, leadership, request, answer>>
  BY DEF CommitFails
<1>4. r \in Replica /\ unseen' \subseteq Replica
  BY CallIsTyped DEF CommitFails, Inv, TypeOK
<1>5. call' \in [OperationID -> [Slot -> Call]]
  BY <1>1, <1>3, ReturnChanges
<1>6. CASE executed
  <2>1. /\ ~Recorded(r, o) /\ applied[r] = Len(decided) /\ Allowed(r, o)
        /\ decided' = Append(decided, o) /\ o \in Operation
    BY <1>6 DEF CommitFails, MayCommit, Operation
  <2>2. applied' \in [Replica -> 0 .. Len(decided) + 1]
    BY <1>3, CallIsTyped DEF Inv, TypeOK
  <2>3. \A p \in OperationID : \A l \in Slot :
          call'[p][l] = call[p][l] \/ Truthful(decided', p, call'[p][l].reply)
    BY <1>1, <1>3, ReturnChanges
  <2> QED
    BY <1>2, <1>3, <1>4, <1>5, <2>1, <2>2, <2>3, DecideKeeps
<1>7. CASE ~executed
  <2>1. decided' = decided /\ unseen' = unseen
    BY <1>7 DEF CommitFails
  <2>2. UNCHANGED <<log, machines, leadership, request, answer>>
    BY <1>3, <2>1 DEF log, machines
  <2>3. \A p \in OperationID : \A l \in Slot : Truthful(decided, p, call'[p][l].reply)
    BY <1>1, <1>3, ReturnChanges DEF Inv, RepliesAreDecided
  <2>4. RepliesAreDecided'
    BY <1>3, <2>1, <2>3, MutationsStay
  <2>5. request' \in [OperationID -> Request]
    BY <2>2 DEF Inv, TypeOK
  <2> QED
    BY <1>2, <1>5, <2>2, <2>4, <2>5, ClientStep
<1> QED
  BY <1>6, <1>7

\* A second transition of a sequence decides nothing.
LEMMA ConflictsKeep ==
    ASSUME Inv,
           \/ \E o \in OperationID, k \in Slot : CommitConflicts(o, k)
           \/ \E o \in OtherPuts \cup OtherDeletes, r \in Replica : OtherConflicts(o, r)
    PROVE  Inv'
<1>1. /\ torn' = TRUE /\ UNCHANGED <<mutation, decided, announced, machines, leadership, request, answer, faults>>
  BY DEF CommitConflicts, OtherConflicts, clients
<1>2. /\ call' \in [OperationID -> [Slot -> Call]]
      /\ \A p \in OperationID : \A l \in Slot : Truthful(decided, p, call'[p][l].reply)
  <2>1. ASSUME NEW o \in OperationID, NEW k \in Slot, CommitConflicts(o, k)
        PROVE  /\ call' \in [OperationID -> [Slot -> Call]]
               /\ \A p \in OperationID : \A l \in Slot : Truthful(decided, p, call'[p][l].reply)
    <3>1. Return(o, k, Failed) /\ Failed \in Reply /\ Truthful(decided, o, Failed)
      BY <2>1, RepliesAreReplies, EmptyRepliesAreTruthful DEF CommitConflicts
    <3> QED
      BY <3>1, ReturnChanges DEF Inv, RepliesAreDecided
  <2>2. ASSUME NEW o \in OtherPuts \cup OtherDeletes, NEW r \in Replica, OtherConflicts(o, r)
        PROVE  call' = call
    BY <2>2 DEF OtherConflicts, clients
  <2> QED
    BY <2>1, <2>2 DEF Inv, TypeOK, RepliesAreDecided
<1>3. TypeOK'
  BY <1>1, <1>2 DEF Inv, TypeOK, machines, leadership
<1>4. RepliesAreDecided'
  BY <1>1, <1>2, MutationsStay
<1>5. ExecutedOnce' /\ AnswersAreDecided' /\ ImportsAreAllowed'
  BY <1>1, MutationsStay DEF Inv, ExecutedOnce, AnswersAreDecided, ImportsAreAllowed
<1> QED
  BY <1>3, <1>4, <1>5 DEF Inv

-----------------------------------------------------------------------------
(* Machines, leadership and restarts.                                      *)

\* Followers, consumers and coordinators say nothing to clients.
LEMMA LeadKeeps ==
    ASSUME Inv, NEW r \in Replica,
           Follow(r) \/ Hear(r) \/ Lead(r) \/ Rebalance(r) \/ \E executed \in BOOLEAN : ActivateFails(r, executed)
    PROVE  Inv'
<1>1. /\ Len(decided) \in Nat /\ Len(announced) \in Nat
      /\ announced \in Seq(Replica) /\ decided \in Seq(Operation)
      /\ mutation \in [OperationID -> Kinds] /\ torn \in BOOLEAN
      /\ producer \in [Replica -> {"new", "ready", "fenced"}] /\ unseen \subseteq Replica
      /\ applied \in [Replica -> 0 .. Len(decided)]
      /\ known \in [Replica -> 0 .. Len(announced)] /\ lease \in [Replica -> 0 .. Len(announced)]
      /\ acquired \in [Replica -> 0 .. Len(announced)] /\ held \in [Replica -> 0 .. Len(announced)]
      /\ assigned \in [Replica -> BOOLEAN] /\ group \in Replica /\ faults \in 0 .. MaxFaults
  <2>1. announced \in Seq(Replica) /\ decided \in Seq(Operation)
    BY DEF Inv, TypeOK
  <2>2. Len(decided) \in Nat /\ Len(announced) \in Nat
    BY <2>1, LenProperties
  <2> QED
    BY <2>1, <2>2 DEF Inv, TypeOK
<1>2. /\ request \in [OperationID -> Request] /\ call \in [OperationID -> [Slot -> Call]]
      /\ answer \in [OperationID -> Reply]
  BY DEF Inv, TypeOK
<1>3. UNCHANGED clients /\ UNCHANGED <<mutation, decided, torn>>
  BY DEF Follow, Hear, Lead, Assign, Revoke, Activate, ActivateFails, AcquireReturns, Deactivate, Rebalance, log
<1>4. /\ request' \in [OperationID -> Request] /\ call' \in [OperationID -> [Slot -> Call]]
      /\ answer' \in [OperationID -> Reply]
  BY <1>2, <1>3 DEF clients
<1> USE DEF log, machines, leadership
<1>5. CASE Follow(r)
  <2>0. applied[r] + 1 \in 0 .. Len(decided)
    BY <1>1, <1>5 DEF Follow
  <2>1. TypeOK'
    BY <1>1, <1>3, <1>4, <1>5, <2>0 DEF TypeOK, Follow
  <2> QED
    BY <1>3, <2>1, ServerStep
<1>6. CASE Hear(r)
  <2>0. known[r] \in 0 .. Len(announced) /\ Len(announced) \in Nat /\ known[r] < Len(announced)
    BY <1>1, <1>6 DEF Hear
  <2>1. TypeOK'
    <3>1. known[r] + 1 \in 0 .. Len(announced)
      BY <2>0
    <3>2. known' = [known EXCEPT ![r] = known[r] + 1]
      BY <1>6 DEF Hear
    <3>3. known' \in [Replica -> 0 .. Len(announced)]
      BY <1>1, <3>1, <3>2
    <3> QED
      BY <1>1, <1>3, <1>4, <1>6, <3>3 DEF TypeOK, Hear
  <2> QED
    BY <1>3, <2>1, ServerStep
<1>7. CASE Assign(r)
  <2>1. TypeOK'
    BY <1>1, <1>3, <1>4, <1>7 DEF TypeOK, Assign
  <2> QED
    BY <1>3, <2>1, ServerStep
<1>8. CASE Revoke(r)
  <2>1. TypeOK'
    BY <1>1, <1>3, <1>4, <1>8 DEF TypeOK, Revoke
  <2> QED
    BY <1>3, <2>1, ServerStep
<1>9. CASE Activate(r)
  <2>1. announced' \in Seq(Replica) /\ Len(announced') = Len(announced) + 1
    BY <1>1, <1>9 DEF Activate
  <2>2. /\ known' \in [Replica -> 0 .. Len(announced) + 1] /\ lease' \in [Replica -> 0 .. Len(announced) + 1]
        /\ acquired' \in [Replica -> 0 .. Len(announced) + 1] /\ held' \in [Replica -> 0 .. Len(announced) + 1]
    <3> DEFINE n == Len(announced) + 1
    <3>1. /\ known \in [Replica -> 0 .. n] /\ lease \in [Replica -> 0 .. n]
          /\ acquired \in [Replica -> 0 .. n] /\ held \in [Replica -> 0 .. n] /\ n \in 0 .. n
      <4>1. Len(announced) \in Nat
        BY <1>1
      <4>2. n \in 0 .. n /\ 0 .. Len(announced) \subseteq 0 .. n
        BY <4>1
      <4> QED
        BY <1>1, <4>2
    <3>2. /\ known' = [known EXCEPT ![r] = n] /\ lease' = [lease EXCEPT ![r] = n]
          /\ acquired' = [acquired EXCEPT ![r] = n] /\ held' = held
      BY <1>9 DEF Activate
    <3> HIDE DEF n
    <3>3. /\ known' \in [Replica -> 0 .. n] /\ lease' \in [Replica -> 0 .. n]
          /\ acquired' \in [Replica -> 0 .. n] /\ held' \in [Replica -> 0 .. n]
      BY <3>1, <3>2
    <3> QED
      BY <3>3 DEF n
  <2>3. producer' \in [Replica -> {"new", "ready", "fenced"}] /\ unseen' \subseteq Replica
    BY <1>1, <1>9 DEF Activate, InitializeProducer
  <2>4. TypeOK'
    BY <1>1, <1>3, <1>4, <1>9, <2>1, <2>2, <2>3 DEF TypeOK, Activate
  <2> QED
    BY <1>3, <2>4, ServerStep
<1>10. CASE AcquireReturns(r)
  <2>1. held' \in [Replica -> 0 .. Len(announced)] /\ acquired' \in [Replica -> 0 .. Len(announced)]
    BY <1>1, <1>10 DEF AcquireReturns
  <2>2. UNCHANGED <<announced, applied, known, producer, unseen, lease, group, assigned, faults>>
    BY <1>10 DEF AcquireReturns, log, machines
  <2>3. TypeOK'
    BY <1>1, <1>3, <1>4, <2>1, <2>2 DEF TypeOK
  <2> QED
    BY <1>3, <2>3, ServerStep
<1>11. CASE Deactivate(r)
  <2>1. lease' \in [Replica -> 0 .. Len(announced)]
    BY <1>1, <1>11 DEF Deactivate
  <2>2. UNCHANGED <<announced, applied, known, producer, unseen, acquired, held, group, assigned, faults>>
    BY <1>11 DEF Deactivate, log, machines
  <2>3. TypeOK'
    BY <1>1, <1>3, <1>4, <2>1, <2>2 DEF TypeOK
  <2> QED
    BY <1>3, <2>3, ServerStep
<1>12. CASE Rebalance(r)
  <2>1. faults' \in 0 .. MaxFaults
    BY <1>12, FaultsAreBounded DEF Rebalance, Inv
  <2>2. TypeOK'
    BY <1>1, <1>3, <1>4, <1>12, <2>1 DEF TypeOK, Rebalance
  <2> QED
    BY <1>3, <2>2, ServerStep
<1>13. ASSUME NEW executed \in BOOLEAN, ActivateFails(r, executed) PROVE Inv'
  <2>1. announced' \in Seq(Replica) /\ Len(announced') \in {Len(announced), Len(announced) + 1}
    BY <1>1, <1>13 DEF ActivateFails
  <2>2. 0 .. Len(announced) \subseteq 0 .. Len(announced')
    BY <1>1, <2>1
  <2>3. producer' \in [Replica -> {"new", "ready", "fenced"}] /\ unseen' \subseteq Replica
    BY <1>1, <1>13 DEF ActivateFails, InitializeProducer
  <2>4. faults' \in 0 .. MaxFaults
    BY <1>13, FaultsAreBounded DEF ActivateFails, Inv
  <2>5. UNCHANGED <<applied, known, lease, group, assigned, acquired, held>>
    BY <1>13 DEF ActivateFails
  <2>6. /\ known' \in [Replica -> 0 .. Len(announced')] /\ lease' \in [Replica -> 0 .. Len(announced')]
        /\ acquired' \in [Replica -> 0 .. Len(announced')] /\ held' \in [Replica -> 0 .. Len(announced')]
    BY <1>1, <2>2, <2>5
  <2>7. TypeOK'
    BY <1>1, <1>3, <1>4, <2>1, <2>3, <2>4, <2>5, <2>6 DEF TypeOK
  <2> QED
    BY <1>3, <2>7, ServerStep
<1> QED
  BY <1>5, <1>6, <1>7, <1>8, <1>9, <1>10, <1>11, <1>12, <1>13 DEF Lead

\* A replica restarts; the calls it ran are gone.
LEMMA RestartKeeps ==
    ASSUME Inv, NEW r \in Replica, Restart(r)
    PROVE  Inv'
<1>1. /\ Len(decided) \in Nat /\ Len(announced) \in Nat
      /\ request \in [OperationID -> Request] /\ call \in [OperationID -> [Slot -> Call]]
  BY DEF Inv, TypeOK
<1>2. NoCall \in Call /\ NoCall.reply = Nothing /\ ToSend \in Request
  BY EmptyOnesAreTyped
<1>3. call' = [o \in OperationID |-> [k \in Slot |-> IF call[o][k].at = r THEN NoCall ELSE call[o][k]]]
  BY DEF Restart
<1>4. call' \in [OperationID -> [Slot -> Call]]
  BY <1>1, <1>2, <1>3
<1>5. request' \in [OperationID -> Request]
  <2>1. \A o \in OperationID : WithoutCall(request[o], call[o][request[o].slot]) \in Request
    BY <1>1, WithoutCallIsRequest
  <2> QED
    BY <1>1, <1>2, <2>1 DEF Restart
<1>6. UNCHANGED <<log, group, answer>>
  BY DEF Restart
<1>7. faults' \in 0 .. MaxFaults
  BY FaultsAreBounded DEF Restart, Inv
<1>8. /\ producer' \in [Replica -> {"new", "ready", "fenced"}] /\ unseen' \subseteq Replica
      /\ applied' \in [Replica -> 0 .. Len(decided)] /\ assigned' \in [Replica -> BOOLEAN]
      /\ known' \in [Replica -> 0 .. Len(announced)] /\ lease' \in [Replica -> 0 .. Len(announced)]
      /\ acquired' \in [Replica -> 0 .. Len(announced)] /\ held' \in [Replica -> 0 .. Len(announced)]
  <2>1. /\ producer \in [Replica -> {"new", "ready", "fenced"}] /\ unseen \subseteq Replica
        /\ applied \in [Replica -> 0 .. Len(decided)] /\ assigned \in [Replica -> BOOLEAN]
        /\ known \in [Replica -> 0 .. Len(announced)] /\ lease \in [Replica -> 0 .. Len(announced)]
        /\ acquired \in [Replica -> 0 .. Len(announced)] /\ held \in [Replica -> 0 .. Len(announced)]
    BY DEF Inv, TypeOK
  <2>2. Len(decided) \in 0 .. Len(decided) /\ Len(announced) \in 0 .. Len(announced) /\ 0 \in 0 .. Len(announced)
    BY <1>1
  <2>3. applied' \in [Replica -> 0 .. Len(decided)] /\ known' \in [Replica -> 0 .. Len(announced)]
    BY <2>1, <2>2 DEF Restart
  <2>4. /\ lease' \in [Replica -> 0 .. Len(announced)] /\ acquired' \in [Replica -> 0 .. Len(announced)]
        /\ held' \in [Replica -> 0 .. Len(announced)]
    BY <2>1, <2>2 DEF Restart
  <2>5. /\ producer' \in [Replica -> {"new", "ready", "fenced"}] /\ unseen' \subseteq Replica
        /\ assigned' \in [Replica -> BOOLEAN]
    BY <2>1 DEF Restart
  <2> QED
    BY <2>3, <2>4, <2>5
<1>9. TypeOK'
  BY <1>4, <1>5, <1>6, <1>7, <1>8 DEF TypeOK, Inv, log
<1>10. \A o \in OperationID : \A k \in Slot : Truthful(decided, o, call'[o][k].reply)
  BY <1>2, <1>3, EmptyRepliesAreTruthful DEF Inv, RepliesAreDecided
<1>11. RepliesAreDecided'
  BY <1>6, <1>10, MutationsStay DEF log
<1>12. ExecutedOnce' /\ AnswersAreDecided' /\ ImportsAreAllowed'
  BY <1>6, MutationsStay DEF Inv, ExecutedOnce, AnswersAreDecided, ImportsAreAllowed, log
<1> QED
  BY <1>9, <1>11, <1>12 DEF Inv

-----------------------------------------------------------------------------
(* The specification.                                                      *)

\* Nothing is decided and nothing answered at first.
LEMMA InitInv == Init => Inv
<1> SUFFICES ASSUME Init PROVE Inv
  OBVIOUS
<1>1. FirstMember \in Replica /\ Earlier \in Seq(OtherPuts \cup OtherDeletes)
  BY ForwardingAssumption
<1>2. NoCall \in Call /\ NoCall.reply = Nothing /\ ToSend \in Request /\ Nothing \in Reply
  BY <1>1, EmptyOnesAreTyped, RepliesAreReplies
<1>3. decided = Earlier /\ announced = <<>>
  BY DEF Init
<1>4. decided \in Seq(Operation) /\ Len(decided) \in Nat /\ DOMAIN decided = 1 .. Len(decided)
      /\ \A n \in DOMAIN decided : decided[n] \notin OperationID
  BY <1>1, <1>3, ForwardingAssumption DEF Operation
<1>5. TypeOK
  <2>1. applied \in [Replica -> 0 .. Len(decided)]
    BY <1>3, <1>4 DEF Init
  <2>2. announced \in Seq(Replica) /\ 0 \in 0 .. Len(announced) /\ 0 \in 0 .. MaxFaults
    BY <1>3, ForwardingAssumption
  <2>3. /\ known \in [Replica -> 0 .. Len(announced)] /\ lease \in [Replica -> 0 .. Len(announced)]
        /\ acquired \in [Replica -> 0 .. Len(announced)] /\ held \in [Replica -> 0 .. Len(announced)]
    BY <2>2 DEF Init
  <2>4. /\ mutation \in [OperationID -> Kinds] /\ torn \in BOOLEAN
        /\ producer \in [Replica -> {"new", "ready", "fenced"}] /\ unseen \subseteq Replica
        /\ group \in Replica /\ assigned \in [Replica -> BOOLEAN] /\ faults \in 0 .. MaxFaults
    BY <1>1, <2>2 DEF Init
  <2>5. /\ request \in [OperationID -> Request] /\ call \in [OperationID -> [Slot -> Call]]
        /\ answer \in [OperationID -> Reply]
    BY <1>2 DEF Init
  <2> QED
    BY <1>4, <2>1, <2>2, <2>3, <2>4, <2>5 DEF TypeOK
<1>6. ExecutedOnce
  BY <1>3, ForwardingAssumption DEF ExecutedOnce
<1>7. ImportsAreAllowed
  BY <1>4 DEF ImportsAreAllowed
<1>8. RepliesAreDecided
  BY <1>2, EmptyRepliesAreTruthful DEF Init, RepliesAreDecided
<1>9. AnswersAreDecided
  BY EmptyRepliesAreTruthful DEF Init, AnswersAreDecided
<1> QED
  BY <1>5, <1>6, <1>7, <1>8, <1>9 DEF Inv

\* Every step keeps the invariant.
LEMMA NextInv == Inv /\ [Next]_vars => Inv'
<1> SUFFICES ASSUME Inv, [Next]_vars PROVE Inv'
  OBVIOUS
<1>1. ASSUME NEW o \in OperationID, Serve(o) \/ TimeOut(o) \/ \E r \in Replica : Send(o, r)
      PROVE  Inv'
  BY <1>1, ServePublicKeeps, ForwardKeeps, RelayKeeps, RequestMovesKeep DEF Serve
<1>2. ASSUME NEW o \in OperationID, NEW k \in Slot, Handle(o, k) \/ CommitFails(o, k, TRUE) \/ Vanish(o, k)
      PROVE  Inv'
  BY <1>2, ReceiveKeeps, LookKeeps, AnswerRecordedKeeps, RefuseKeeps, CommitKeeps, CommitFailsKeeps,
     ConflictsKeep, VanishKeeps DEF Handle
<1>3. ASSUME NEW r \in Replica, Follow(r) \/ Hear(r) \/ Lead(r) \/ Rebalance(r) \/ Restart(r)
      PROVE  Inv'
  BY <1>3, LeadKeeps, RestartKeeps
<1>4. ASSUME NEW r \in Replica, NEW executed \in BOOLEAN, ActivateFails(r, executed)
      PROVE  Inv'
  BY <1>4, LeadKeeps
<1>5. ASSUME NEW r \in Replica, NEW o \in OtherPuts \cup OtherDeletes, CommitOther(o, r) \/ OtherConflicts(o, r)
      PROVE  Inv'
  BY <1>5, CommitOtherKeeps, ConflictsKeep
<1>6. CASE UNCHANGED vars
  BY <1>6, ServerStep DEF vars, log, machines, leadership, clients, Inv, TypeOK
<1> QED
  BY <1>1, <1>2, <1>3, <1>4, <1>5, <1>6 DEF Next

\* Forwarding keeps its inductive invariant.
THEOREM AlwaysInv == Spec => []Inv
BY InitInv, NextInv, PTL DEF Spec

\* The state of replicas, forwarders and handlers keeps its shape: an attempt
\* is never made beyond Forwarder.Retries, and nobody holds an epoch that was
\* not announced.
THEOREM TypeCorrect == Spec => []TypeOK
<1>1. Inv => TypeOK
  BY DEF Inv
<1> QED
  BY <1>1, AlwaysInv, PTL

\* However often a mutation is sent, forwarded and left running, by any number
\* of replicas, it takes effect once.
THEOREM MutationsTakeEffectOnce == Spec => []ExecutedOnce
<1>1. Inv => ExecutedOnce
  BY DEF Inv
<1> QED
  BY <1>1, AlwaysInv, PTL

\* The answer that ends a client's retries is about its own operation.
THEOREM AnswersAreTrue == Spec => []AnswersAreDecided
<1>1. Inv => AnswersAreDecided
  BY DEF Inv
<1> QED
  BY <1>1, AlwaysInv, PTL

-----------------------------------------------------------------------------
(* The ledger.                                                             *)

\* The operations decided after the earlier ones and their places, and the
\* successful answers.
Before == Len(Earlier)
Operations == {[seq |-> n, op |-> decided[Before + n]] : n \in 1 .. Len(decided) - Before}
Answers == {[seq |-> answer[o].seq - Before, op |-> o] : o \in {p \in OperationID : answer[p].code = "ok"}}

L == INSTANCE Ledger WITH OperationID <- Operation, ledger <- Operations, acked <- Answers

\* The earlier operations keep their places, and none is a client's.
EarlierStay == Before <= Len(decided) /\ \A n \in 1 .. Before : decided[n] \notin OperationID

\* A client that has its answer has no request under way.
AnsweredAreIdle == \A o \in OperationID : request[o].step # "idle" => answer[o] = Nothing

\* A client keeps the answer it got: the one step that gives an answer ends the
\* request, and an answered client sends no more.
LEMMA AnswersStay ==
    ASSUME TypeOK, AnsweredAreIdle, [Next]_vars
    PROVE  /\ AnsweredAreIdle'
           /\ \A o \in OperationID : answer[o] = Nothing \/ answer'[o] = answer[o]
<1>1. request \in [OperationID -> Request] /\ answer \in [OperationID -> Reply]
  BY DEF TypeOK
<1>2. ASSUME answer' = answer, NEW o \in OperationID, NEW q, SetRequest(o, q), request[o].step # "idle" \/ answer[o] = Nothing
      PROVE  AnsweredAreIdle'
  <2>1. answer[o] = Nothing
    BY <1>2 DEF AnsweredAreIdle
  <2>2. \A p \in OperationID : p # o => request'[p] = request[p]
    BY <1>1, <1>2 DEF SetRequest
  <2> QED
    BY <1>2, <2>1, <2>2 DEF AnsweredAreIdle
<1>3. ASSUME NEW o \in OperationID, TimeOut(o) \/ Unavailable(o) \/ \E r \in Replica : Send(o, r)
      PROVE  answer' = answer /\ AnsweredAreIdle'
  BY <1>2, <1>3 DEF TimeOut, Unavailable, Send
<1>4. ASSUME NEW o \in OperationID, ServePublic(o) \/ Forward(o)
      PROVE  answer' = answer /\ AnsweredAreIdle'
  <2>1. answer' = answer /\ request[o].step # "idle"
    BY <1>4 DEF ServePublic, Forward
  <2>2. \E q : SetRequest(o, q)
    BY <1>4 DEF ServePublic, Forward, Start
  <2> QED
    BY <1>2, <2>1, <2>2
<1>5. ASSUME NEW o \in OperationID, Relay(o)
      PROVE  AnsweredAreIdle' /\ \A p \in OperationID : answer[p] = Nothing \/ answer'[p] = answer[p]
  <2> DEFINE reply == call[o][request[o].slot].reply
  <2>1. answer[o] = Nothing
    BY <1>5 DEF Relay, AnsweredAreIdle
  <2>2. \A p \in OperationID : p # o => request'[p] = request[p] /\ answer'[p] = answer[p]
    BY <1>1, <1>5 DEF Relay, SetRequest
  <2>3. request'[o].step = "idle" \/ answer'[o] = Nothing
    <3>1. CASE reply = Stale
      BY <1>1, <1>5, <2>1, <3>1 DEF Relay
    <3>2. CASE reply # Stale
      <4>1. request'[o] = ToSend
        BY <1>1, <1>5, <3>2 DEF Relay, SetRequest
      <4> QED
        BY <4>1 DEF ToSend
    <3> QED
      BY <3>1, <3>2
  <2> QED
    BY <2>1, <2>2, <2>3 DEF AnsweredAreIdle
<1>6. ASSUME NEW o \in OperationID, NEW k \in Slot, Handle(o, k) \/ CommitFails(o, k, TRUE) \/ Vanish(o, k)
      PROVE  request' = request /\ answer' = answer
  BY <1>6 DEF Handle, Receive, Look, AnswerRecorded, Refuse, Commit, CommitFails, CommitConflicts, Vanish
<1>7. ASSUME NEW r \in Replica, Follow(r) \/ Hear(r) \/ Lead(r) \/ Rebalance(r)
                                \/ \E executed \in BOOLEAN : ActivateFails(r, executed)
      PROVE  request' = request /\ answer' = answer
  BY <1>7 DEF Follow, Hear, Lead, Rebalance, Assign, Revoke, Activate, ActivateFails, AcquireReturns, Deactivate, clients
<1>12. ASSUME NEW r \in Replica, NEW o \in OtherPuts \cup OtherDeletes, CommitOther(o, r) \/ OtherConflicts(o, r)
       PROVE  request' = request /\ answer' = answer
  BY <1>12 DEF CommitOther, OtherConflicts, clients
<1>8. ASSUME NEW r \in Replica, Restart(r)
      PROVE  answer' = answer /\ AnsweredAreIdle'
  <2>1. answer' = answer
    BY <1>8 DEF Restart
  <2>2. \A o \in OperationID : request[o].step = "idle" => request'[o] = request[o]
    BY <1>8 DEF Restart
  <2> QED
    BY <2>1, <2>2 DEF AnsweredAreIdle
<1>9. ASSUME request' = request /\ answer' = answer PROVE AnsweredAreIdle'
  BY <1>9 DEF AnsweredAreIdle
<1>10. CASE UNCHANGED vars
  BY <1>9, <1>10 DEF vars, clients
<1>11. CASE Next
  <2>1. ASSUME NEW o \in OperationID, Serve(o) \/ TimeOut(o) \/ \E r \in Replica : Send(o, r)
        PROVE  /\ AnsweredAreIdle'
               /\ \A p \in OperationID : answer[p] = Nothing \/ answer'[p] = answer[p]
    BY <2>1, <1>3, <1>4, <1>5 DEF Serve
  <2> QED
    BY <1>6, <1>7, <1>8, <1>9, <1>11, <1>12, <2>1 DEF Next
<1> QED
  BY <1>10, <1>11

\* A step decides nothing, or one operation that was not decided.
LEMMA DecisionSteps ==
    ASSUME Inv, [Next]_vars
    PROVE  \/ decided' = decided
           \/ \E o \in Operation : /\ decided' = Append(decided, o) /\ answer' = answer
                                   /\ \A n \in DOMAIN decided : decided[n] # o
<1>1. ASSUME NEW o \in OperationID, Serve(o) \/ TimeOut(o) \/ \E r \in Replica : Send(o, r)
      PROVE  decided' = decided
  BY <1>1 DEF Serve, ServePublic, Forward, Unavailable, Relay, TimeOut, Send, log
<1>2. ASSUME NEW o \in OperationID, NEW k \in Slot,
             \/ Receive(o, k) \/ Look(o, k) \/ AnswerRecorded(o, k) \/ Refuse(o, k)
             \/ CommitConflicts(o, k) \/ Vanish(o, k)
      PROVE  decided' = decided
  BY <1>2 DEF Receive, Look, AnswerRecorded, Refuse, CommitConflicts, Vanish, log
<1>3. ASSUME NEW o \in OperationID, NEW k \in Slot, NEW executed \in BOOLEAN,
             Commit(o, k) \/ CommitFails(o, k, executed), decided' # decided
      PROVE  /\ decided' = Append(decided, o) /\ answer' = answer
             /\ \A n \in DOMAIN decided : decided[n] # o
  <2>1. ~Recorded(call[o][k].at, o) /\ MayCommit(call[o][k].at) /\ decided' = Append(decided, o) /\ answer' = answer
    BY <1>3 DEF Commit, CommitFails
  <2> QED
    BY <2>1, CallIsTyped DEF Recorded, MayCommit
<1>4. ASSUME NEW r \in Replica, \/ Follow(r) \/ Hear(r) \/ Lead(r) \/ Rebalance(r) \/ Restart(r)
                                \/ \E executed \in BOOLEAN : ActivateFails(r, executed)
      PROVE  decided' = decided
  BY <1>4 DEF Follow, Hear, Lead, Rebalance, Restart, Assign, Revoke, Activate, ActivateFails, AcquireReturns, Deactivate, log
<1>5. CASE UNCHANGED vars
  BY <1>5 DEF vars, log
<1>6. ASSUME NEW r \in Replica, NEW o \in OtherPuts \cup OtherDeletes, OtherConflicts(o, r)
      PROVE  decided' = decided
  BY <1>6 DEF OtherConflicts
<1>7. ASSUME NEW r \in Replica, NEW o \in OtherPuts \cup OtherDeletes, CommitOther(o, r)
      PROVE  /\ decided' = Append(decided, o) /\ answer' = answer
             /\ \A n \in DOMAIN decided : decided[n] # o
  <2>1. ~Recorded(r, o) /\ applied[r] = Len(decided) /\ decided' = Append(decided, o) /\ answer' = answer
    BY <1>7 DEF CommitOther, MayCommit, clients
  <2>2. DOMAIN decided = 1 .. Len(decided)
    BY DEF Inv, TypeOK
  <2> QED
    BY <2>1, <2>2 DEF Recorded
<1>8. OperationID \subseteq Operation /\ OtherPuts \cup OtherDeletes \subseteq Operation
  BY DEF Operation
<1> QED
  BY <1>1, <1>2, <1>3, <1>4, <1>5, <1>6, <1>7, <1>8 DEF Next, Handle

\* The places of the decided operations are counted.
LEMMA OperationsAreCounted ==
    ASSUME Len(decided) \in Nat, Before \in Nat, Before <= Len(decided)
    PROVE  Cardinality(Operations) = Len(decided) - Before
<1> DEFINE T == 1 .. Len(decided) - Before
           S == Operations
           f == [n \in T |-> [seq |-> n, op |-> decided[Before + n]]]
<1>1. Len(decided) - Before \in Nat
  OBVIOUS
<1>2. f \in [T -> S]
  BY DEF Operations
<1>3. \A m, n \in T : f[m] = f[n] => m = n
  OBVIOUS
<1>4. \A x \in S : \E n \in T : f[n] = x
  BY DEF Operations
<1> HIDE DEF f, S, T
<1>5. f \in Bijection(T, S)
  <2>1. DOMAIN f = T
    BY <1>2
  <2>2. f \in Injection(T, S)
    BY <1>2, <1>3, <2>1 DEF Injection, IsInjective
  <2>3. f \in Surjection(T, S)
    BY <1>2, <1>4 DEF Surjection
  <2> QED
    BY <2>2, <2>3 DEF Bijection
<1>6. ExistsBijection(T, S)
  BY <1>5 DEF ExistsBijection
<1>7. IsFiniteSet(T) /\ Cardinality(T) = Len(decided) - Before
  <2>1. \A n \in Nat : IsFiniteSet(1 .. n) /\ Cardinality(1 .. n) = n
    <3> SUFFICES ASSUME NEW n \in Nat PROVE IsFiniteSet(1 .. n) /\ Cardinality(1 .. n) = n
      OBVIOUS
    <3>1. 1 \in Int /\ n \in Int
      OBVIOUS
    <3>2. IsFiniteSet(1 .. n) /\ Cardinality(1 .. n) = IF 1 > n THEN 0 ELSE n - 1 + 1
      BY <3>1, FS_Interval
    <3> QED
      BY <3>2
  <2> QED
    BY <1>1, <2>1 DEF T
<1>8. Cardinality(S) = Cardinality(T)
  BY <1>6, <1>7, FS_Bijection
<1> QED
  BY <1>7, <1>8 DEF S

\* Clients, forwarders and handlers over any number of replicas implement the
\* ledger: whatever is repeated, forwarded, timed out and left running, an
\* operation enters it once and in the next place, a client is told the place
\* of its own operation, and what it was told is never taken back.
THEOREM ForwardersImplementLedger == Spec => L!Spec
<1> DEFINE Idle == AnsweredAreIdle /\ EarlierStay
<1>0. Before \in Nat /\ OperationID \subseteq Operation
  BY ForwardingAssumption, LenProperties DEF Before, Operation
<1>1. Init => L!Init /\ Idle
  <2> SUFFICES ASSUME Init PROVE L!Init /\ Idle
    OBVIOUS
  <2>1. decided = Earlier
    BY DEF Init
  <2>2. Operations = {}
    BY <1>0, <2>1 DEF Operations, Before
  <2>3. Answers = {}
    BY DEF Init, Answers, Nothing
  <2>4. EarlierStay
    <3>1. Earlier \in Seq(OtherPuts \cup OtherDeletes) /\ OperationID \cap (OtherPuts \cup OtherDeletes) = {}
      BY ForwardingAssumption
    <3>2. \A n \in 1 .. Len(Earlier) : Earlier[n] \in OtherPuts \cup OtherDeletes
      BY <3>1
    <3> QED
      BY <1>0, <2>1, <3>1, <3>2 DEF EarlierStay, Before
  <2> QED
    BY <2>2, <2>3, <2>4 DEF Init, L!Init, AnsweredAreIdle
<1>2. Inv /\ Idle /\ [Next]_vars => Idle'
  <2> SUFFICES ASSUME Inv, Idle, [Next]_vars PROVE Idle'
    OBVIOUS
  <2>1. AnsweredAreIdle'
    BY AnswersStay DEF Inv
  <2>2. ASSUME NEW o \in Operation, decided' = Append(decided, o) PROVE EarlierStay'
    <3>1. decided \in Seq(Operation) /\ Len(decided) \in Nat
      BY DEF Inv, TypeOK
    <3>2. Len(decided') = Len(decided) + 1 /\ \A n \in 1 .. Len(decided) : decided'[n] = decided[n]
      BY <2>2, <3>1
    <3> QED
      BY <1>0, <3>1, <3>2 DEF EarlierStay, Before
  <2>3. ASSUME decided' = decided PROVE EarlierStay'
    BY <2>3 DEF EarlierStay, Before
  <2> QED
    BY <2>1, <2>2, <2>3, DecisionSteps
<1>3. Inv /\ Inv' /\ Idle /\ [Next]_vars => [L!Next]_<<Operations, Answers>>
  <2> SUFFICES ASSUME Inv, Inv', AnsweredAreIdle, EarlierStay, [Next]_vars
               PROVE  L!Next \/ (Operations' = Operations /\ Answers' = Answers)
    OBVIOUS
  <2>1. /\ decided \in Seq(Operation) /\ Len(decided) \in Nat /\ DOMAIN decided = 1 .. Len(decided)
        /\ Before <= Len(decided)
    BY LenProperties DEF Inv, TypeOK, EarlierStay
  <2>2. CASE decided' = decided
    <3>1. Operations' = Operations
      BY <2>2 DEF Operations, Before
    <3>2. Answers \subseteq Answers'
      <4>1. \A o \in OperationID : answer[o].code = "ok" => answer'[o] = answer[o]
        BY AnswersStay DEF Inv, Nothing
      <4> QED
        BY <4>1 DEF Answers, Before
    <3>3. Answers' \subseteq Operations'
      <4> SUFFICES ASSUME NEW o \in OperationID, answer'[o].code = "ok"
                   PROVE  [seq |-> answer'[o].seq - Before, op |-> o] \in Operations'
        BY DEF Answers, Before
      <4> DEFINE n == answer'[o].seq
      <4>1. n \in DOMAIN decided /\ decided[n] = o
        BY <2>2 DEF Inv, AnswersAreDecided, Truthful
      <4>2. n \notin 1 .. Before
        BY <4>1 DEF EarlierStay
      <4> HIDE DEF n
      <4>3. n - Before \in 1 .. Len(decided) - Before /\ Before + (n - Before) = n
        BY <1>0, <2>1, <4>1, <4>2
      <4>4. [seq |-> n - Before, op |-> o] \in Operations
        BY <4>1, <4>3 DEF Operations
      <4> QED
        BY <3>1, <4>4 DEF n
    <3> QED
      BY <3>1, <3>2, <3>3 DEF L!Next, L!Answer
  <2>3. ASSUME NEW o \in Operation, decided' = Append(decided, o), answer' = answer,
               \A n \in DOMAIN decided : decided[n] # o
        PROVE  L!Decide
    <3> DEFINE size == Len(decided) - Before
    <3>1. Answers' = Answers
      BY <2>3 DEF Answers, Before
    <3>2. o \in Operation \ {entry.op : entry \in Operations}
      <4>1. \A n \in 1 .. size : Before + n \in DOMAIN decided
        BY <1>0, <2>1
      <4> QED
        BY <2>3, <4>1 DEF Operations
    <3>3. Operations' = Operations \cup {[seq |-> size + 1, op |-> o]}
      <4>1. /\ Len(decided') = Len(decided) + 1
            /\ \A n \in 1 .. Len(decided) : decided'[n] = decided[n]
            /\ decided'[Len(decided) + 1] = o
        BY <2>1, <2>3
      <4>2. 1 .. Len(decided') - Before = (1 .. size) \cup {size + 1}
        BY <1>0, <2>1, <4>1
      <4>3. /\ \A n \in 1 .. size : Before + n \in 1 .. Len(decided)
            /\ Before + (size + 1) = Len(decided) + 1
        BY <1>0, <2>1
      <4> HIDE DEF size
      <4>4. Operations' = {[seq |-> n, op |-> decided'[Before + n]] : n \in (1 .. size) \cup {size + 1}}
        BY <4>2 DEF Operations, Before
      <4>5. Operations' = {[seq |-> n, op |-> decided'[Before + n]] : n \in 1 .. size}
                          \cup {[seq |-> size + 1, op |-> decided'[Before + (size + 1)]]}
        BY <4>4
      <4>6. {[seq |-> n, op |-> decided'[Before + n]] : n \in 1 .. size} = Operations
        BY <4>1, <4>3 DEF Operations, size
      <4> QED
        BY <4>1, <4>3, <4>5, <4>6
    <3>4. L!Cardinality(Operations) = Cardinality(Operations)
      BY DEF L!Cardinality, Cardinality
    <3>5. Cardinality(Operations) = size
      BY <1>0, <2>1, OperationsAreCounted
    <3> QED
      BY <3>1, <3>2, <3>3, <3>4, <3>5 DEF L!Decide
  <2> QED
    BY <2>2, <2>3, DecisionSteps DEF L!Next
<1> QED
  BY <1>1, <1>2, <1>3, AlwaysInv, PTL DEF Spec, L!Spec
=============================================================================
