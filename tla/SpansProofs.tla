---------------------------- MODULE SpansProofs ----------------------------
(***************************************************************************)
(* Proofs about Spans, for any requests, callers, prices and number of     *)
(* events: the causal order of spans, the agreement of the projection with *)
(* the event history, one event per id, and safe retries.                  *)
(***************************************************************************)
EXTENDS Spans, TLAPS

-----------------------------------------------------------------------------
(* The inductive invariant *)

Kinds == {"SPAN_STARTED", "SPAN_ENDED", "SPAN_FAILED", "SPAN_CANCELLED"}

\* A request with the cost that the pricing table p gives it.
Priced(q, p) ==
  [q EXCEPT !.content = [data |-> @, cost |-> IF @ \in Unpriced THEN p
                                              ELSE None]]

SpanReq == {Priced(q, p) : q \in Requests, p \in Prices}

Holding == {"read", "refs", "start", "end", "commit"}

\* A call is idle, one of InsertSpan or one of InsertEvent.
SpanCall(z) ==
  /\ z.pc \in {"lock"} \cup Holding
  /\ z = [pc |-> z.pc, raw |-> z.raw, req |-> z.req, pend |-> z.pend]
  /\ z.raw \in Requests
  /\ \E p \in Prices : z.req = Priced(z.raw, p)

EventCall(z) ==
  /\ z.pc \in {"event", "eventCommit"}
  /\ z = [pc |-> z.pc, ev |-> z.ev, pend |-> z.pend]
  /\ z.ev \in EventRequests

Types ==
  /\ spans \in [SpanIDs -> {NoSpan} \cup SpanReq]
  /\ \A s \in SpanIDs : Exists(s) => spans[s].id = s
  /\ nextSeq \in 1 .. (MaxSeq + 1)
  /\ spanLock \in [SpanIDs -> Callers \cup {None}]
  /\ price \in Prices
  /\ DOMAIN call = Callers /\ call = [c \in Callers |-> call[c]]
  /\ \A c \in Callers : call[c] = Idle \/ SpanCall(call[c]) \/ EventCall(call[c])
  /\ \A a \in acked : a.raw \in Requests /\ \E p \in Prices : a.req = Priced(a.raw, p)

\* The advisory lock of a span belongs to the transaction that works on it.
LockInv ==
  /\ \A s \in SpanIDs : spanLock[s] # None =>
       call[spanLock[s]].pc \in Holding /\ call[spanLock[s]].req.id = s
  /\ \A c \in Callers : call[c].pc \in Holding => spanLock[call[c].req.id] = c

\* The events of the table and of the open transactions.
Pend(c) == IF call[c].pc = "idle" THEN {} ELSE call[c].pend
Known == events \cup UNION {Pend(c) : c \in Callers}

\* An event is of the lifecycle of a span, or a client's with an id of its own.
IsLifecycle(e) == e.id = <<e.span, e.kind>> /\ e.span \in SpanIDs /\ e.kind \in Kinds
IsClients(e) == e.id \notin SpanIDs \X (Kinds \cup {e.kind})

KnownInv ==
  /\ \A e \in Known : (IsLifecycle(e) \/ IsClients(e)) /\ e.seq \in 1 .. (nextSeq - 1)
  /\ \A e, f \in Known : e.id = f.id \/ e.seq = f.seq => e = f

IsStart(e, s) == e.id = <<s, "SPAN_STARTED">>

\* The projection of a span and its history agree.
Recorded(s, k) ==
  /\ Exists(s)
  /\ \/ k = "SPAN_STARTED"
     \/ spans[s].status # Running /\ k = EndKind(spans[s].status)

HistoryOf(s) ==
  /\ \A k \in Kinds : (\E e \in events : e.id = <<s, k>>) <=> Recorded(s, k)
  /\ \A e \in events : IsStart(e, s) /\ spans[s].status = Running => e.payload = spans[s]
  /\ Exists(s) /\ spans[s].status # Running =>
       \A e \in events : e.id = <<s, EndKind(spans[s].status)>> =>
         e.payload = spans[s] /\ \A f \in events : IsStart(f, s) => f.seq < e.seq

HistoryInv == \A s \in SpanIDs : HistoryOf(s)

\* What a span refers to is stored and started before number n.
StartedBefore(q, n) ==
  \A r \in Refs(q) : \A e \in events : IsStart(e, r) => e.seq < n

CausalInv ==
  \A s \in SpanIDs : Exists(s) =>
    /\ RefsExist(spans[s])
    /\ \A e \in events : IsStart(e, s) => StartedBefore(spans[s], e.seq)

\* The lifecycle event of a request with number n.
LifecycleAt(q, kind, payload, n) ==
  [id |-> <<q.id, kind>>, exec |-> q.exec, span |-> q.id, kind |-> kind,
   payload |-> payload, seq |-> n]

StartAt(q, n) == LifecycleAt(q, "SPAN_STARTED", StartOf(q), n)
EndAt(q, n) == LifecycleAt(q, EndKind(q.status), q, n)

\* What a call of InsertSpan has read and inserted so far.
HasStarted(z) ==
  \E m \in 1 .. MaxSeq : z.pend = {StartAt(z.req, m)} /\ StartedBefore(z.req, m)

HasStartedAndEnded(z) ==
  \E m, n \in 1 .. MaxSeq : /\ m < n /\ StartedBefore(z.req, m)
                            /\ z.pend = {StartAt(z.req, m), EndAt(z.req, n)}

HasEnded(z) ==
  \E n \in 1 .. MaxSeq :
    /\ z.pend = {EndAt(z.req, n)}
    /\ \A e \in events : IsStart(e, z.req.id) => e.seq < n

SpanCallOK(z) ==
  /\ z.pc \in {"lock", "read", "refs", "start"} => z.pend = {}
  /\ z.pc \in {"refs", "start", "end", "commit"} /\ Exists(z.req.id) => Completes(z.req)
  /\ z.pc \in {"start", "end", "commit"} => RefsExist(z.req)
  /\ z.pc = "start" => ~Exists(z.req.id)
  /\ z.pc = "end" =>
       /\ z.req.status # Running
       /\ IF Exists(z.req.id) THEN z.pend = {} ELSE HasStarted(z)
  /\ z.pc = "commit" =>
       IF Exists(z.req.id) THEN HasEnded(z)
       ELSE IF z.req.status = Running THEN HasStarted(z) ELSE HasStartedAndEnded(z)

EventCallOK(z) ==
  /\ z.pc = "event" => z.pend = {}
  /\ z.pc = "eventCommit" => \A f \in z.pend : IsClients(f)

CallInv ==
  \A c \in Callers : /\ SpanCall(call[c]) => SpanCallOK(call[c])
                     /\ EventCall(call[c]) => EventCallOK(call[c])

\* What was accepted is what the projection holds, or the recorded start of it.
AckInv == \A a \in acked : Exists(a.req.id) /\ Repeats(a.req)

SpansInv ==
  /\ Types /\ LockInv /\ KnownInv /\ HistoryInv /\ CausalInv /\ CallInv /\ AckInv

-----------------------------------------------------------------------------
(* Requests, calls and events *)

\* Pricing changes only the content of a request.
LEMMA PricedIs ==
  ASSUME NEW q \in Requests, NEW p
  PROVE  /\ Priced(q, p).id = q.id /\ q.id \in SpanIDs
         /\ Priced(q, p) # NoSpan
         /\ Priced(q, p).status = Running => StartOf(Priced(q, p)) = Priced(q, p)
<1>1. DOMAIN q = {"id", "exec", "ident", "parent", "causes", "status", "content"}
  BY RequestsAssumption
<1>2. DOMAIN Priced(q, p) = DOMAIN q
  BY DEF Priced
<1>3. "id" \notin DOMAIN NoSpan
  BY DEF NoSpan
<1>4. Priced(q, p).id = q.id /\ Priced(q, p) # NoSpan
  BY <1>1, <1>2, <1>3 DEF Priced
<1>5. Priced(q, p).status = Running => StartOf(Priced(q, p)) = Priced(q, p)
  BY <1>1 DEF Priced, StartOf
<1> QED BY <1>4, <1>5 DEF SpanIDs

\* So is every request in a call or in the table.
LEMMA ReqIs ==
  ASSUME NEW q \in SpanReq
  PROVE  /\ q.id \in SpanIDs /\ q # NoSpan
         /\ q.status = Running => StartOf(q) = q
BY PricedIs DEF SpanReq

\* With a cost of its own, or none, a request does not depend on the prices.
LEMMA PricedOnce ==
  ASSUME NEW q \in Requests, NEW p, NEW r, q.content \notin Unpriced
  PROVE  Priced(q, p) = Priced(q, r)
BY RequestsAssumption DEF Priced

\* The three kinds of calls do not overlap.
LEMMA CallIs ==
  ASSUME NEW z, z = Idle \/ SpanCall(z) \/ EventCall(z)
  PROVE  /\ z.pc = "idle" <=> z = Idle
         /\ z.pc \in {"lock"} \cup Holding <=> SpanCall(z)
         /\ z.pc \in {"event", "eventCommit"} <=> EventCall(z)
         /\ SpanCall(z) => z.req \in SpanReq /\ z.req.id \in SpanIDs
<1>1. Idle.pc = "idle"
  BY DEF Idle
<1>2. SpanCall(z) => z.req \in SpanReq
  BY DEF SpanCall, SpanReq
<1> QED BY <1>1, <1>2, ReqIs DEF SpanCall, EventCall, Holding

\* The kind of a closing event is not that of the first one.
LEMMA EndKindIs ==
  ASSUME NEW st
  PROVE  EndKind(st) \in Kinds \ {"SPAN_STARTED"}
BY DEF EndKind, Kinds

\* The fields of the two lifecycle events of a span.
LEMMA LifecycleIs ==
  ASSUME NEW q, NEW n
  PROVE  /\ StartAt(q, n).id = <<q.id, "SPAN_STARTED">> /\ StartAt(q, n).span = q.id
         /\ StartAt(q, n).kind = "SPAN_STARTED" /\ StartAt(q, n).seq = n
         /\ StartAt(q, n).payload = StartOf(q)
         /\ EndAt(q, n).id = <<q.id, EndKind(q.status)>> /\ EndAt(q, n).span = q.id
         /\ EndAt(q, n).kind = EndKind(q.status) /\ EndAt(q, n).seq = n
         /\ EndAt(q, n).payload = q
BY DEF StartAt, EndAt, LifecycleAt

\* Lifecycle events of a request are events of its span.
LEMMA LifecycleForm ==
  ASSUME NEW q \in SpanReq, NEW n
  PROVE  IsLifecycle(StartAt(q, n)) /\ IsLifecycle(EndAt(q, n))
BY ReqIs, LifecycleIs, EndKindIs DEF IsLifecycle, Kinds

\* Only one of the two kinds of events bears a lifecycle id.
LEMMA LifecycleID ==
  ASSUME NEW e, IsLifecycle(e) \/ IsClients(e), NEW s \in SpanIDs, NEW k \in Kinds,
         e.id = <<s, k>>
  PROVE  IsLifecycle(e) /\ e.span = s /\ e.kind = k
BY DEF IsLifecycle, IsClients

\* What is known of an open call.
LEMMA CallFacts ==
  ASSUME SpansInv, NEW c \in Callers
  PROVE  /\ call[c].pc = "idle" <=> call[c] = Idle
         /\ call[c].pc \in {"lock"} \cup Holding =>
              /\ SpanCall(call[c]) /\ SpanCallOK(call[c])
              /\ call[c].req \in SpanReq /\ call[c].req.id \in SpanIDs
         /\ call[c].pc \in {"event", "eventCommit"} =>
              EventCall(call[c]) /\ EventCallOK(call[c])
         /\ call[c].pc # "idle" => Pend(c) = call[c].pend
         /\ call[c].pc = "idle" => Pend(c) = {}
         /\ Pend(c) \subseteq Known
<1>1. call[c] = Idle \/ SpanCall(call[c]) \/ EventCall(call[c])
  BY DEF SpansInv, Types
<1>2. /\ SpanCall(call[c]) => SpanCallOK(call[c])
      /\ EventCall(call[c]) => EventCallOK(call[c])
  BY DEF SpansInv, CallInv
<1>3. Pend(c) \subseteq Known
  BY DEF Known
<1> HIDE DEF Known
<1> QED BY <1>1, <1>2, <1>3, CallIs DEF Pend

\* Two transactions work on different spans.
LEMMA Exclusive ==
  ASSUME SpansInv, NEW c \in Callers, NEW d \in Callers, c # d,
         call[c].pc \in Holding, call[d].pc \in Holding
  PROVE  call[c].req.id # call[d].req.id
BY DEF SpansInv, LockInv

\* A stored span is a request, with its own id.
LEMMA StoredIs ==
  ASSUME Types, NEW s, Exists(s)
  PROVE  s \in SpanIDs /\ spans[s] \in SpanReq /\ spans[s].id = s
BY DEF Types, Exists

-----------------------------------------------------------------------------
(* Steps that change no table *)

\* Without spans and events the invariant holds.
LEMMA InitInv == Init => SpansInv
<1> SUFFICES ASSUME Init PROVE SpansInv
  OBVIOUS
<1>1. /\ \A c \in Callers : call[c] = Idle /\ Pend(c) = {}
      /\ events = {} /\ acked = {} /\ \A s : ~Exists(s)
  BY DEF Init, Idle, Pend, Exists
<1>2. Types
  BY <1>1, MaxSeqAssumption DEF Init, Types
<1>3. LockInv
  BY <1>1 DEF Init, LockInv, Holding, Idle
<1>4. Known = {}
  BY <1>1 DEF Known
<1>5. KnownInv
  BY <1>4 DEF KnownInv
<1>6. HistoryInv /\ CausalInv /\ AckInv
  BY <1>1 DEF HistoryInv, HistoryOf, Recorded, CausalInv, AckInv
<1>7. CallInv
  BY <1>1 DEF CallInv, SpanCall, EventCall, Idle, Holding
<1> QED BY <1>2, <1>3, <1>5, <1>6, <1>7 DEF SpansInv

\* What is said of a call says the same of the same tables.
LEMMA SameTables ==
  ASSUME UNCHANGED <<spans, events>>, NEW c \in Callers
  PROVE  /\ SpanCallOK(call[c])' <=> SpanCallOK(call'[c])
         /\ EventCallOK(call[c])' <=> EventCallOK(call'[c])
         /\ SpanCall(call[c])' <=> SpanCall(call'[c])
         /\ EventCall(call[c])' <=> EventCall(call'[c])
         /\ HistoryInv' <=> HistoryInv
         /\ CausalInv' <=> CausalInv
<1>1. /\ SpanCallOK(call[c])' <=> SpanCallOK(call'[c])
      /\ EventCallOK(call[c])' <=> EventCallOK(call'[c])
  BY DEF SpanCallOK, EventCallOK, Exists, Completes, SameIdentity, RefsExist,
         HasStarted, HasStartedAndEnded, HasEnded, StartedBefore, IsStart
<1>2. SpanCall(call[c])' <=> SpanCall(call'[c])
  BY DEF SpanCall
<1>3. EventCall(call[c])' <=> EventCall(call'[c])
  BY DEF EventCall
<1>4. HistoryInv' <=> HistoryInv
  BY DEF HistoryInv, HistoryOf, Recorded, Exists, IsStart
<1>5. CausalInv' <=> CausalInv
  BY DEF CausalInv, RefsExist, Exists, StartedBefore, IsStart
<1> QED BY <1>1, <1>2, <1>3, <1>4, <1>5

\* The one new event a step may add to its open transaction.
Fresh(f) ==
  /\ IsLifecycle(f) \/ IsClients(f)
  /\ f.seq = nextSeq /\ nextSeq' = nextSeq + 1
  /\ \A e \in Known : e.id # f.id

\* The answer to a request that is stored.
Acceptable(a) ==
  /\ a.raw \in Requests /\ \E p \in Prices : a.req = Priced(a.raw, p)
  /\ Exists(a.req.id) /\ Repeats(a.req)

\* One call takes a step of its own.
LEMMA LocalKeeps ==
  ASSUME SpansInv, NEW c \in Callers, UNCHANGED <<spans, events>>,
         \A a \in acked' : a \in acked \/ Acceptable(a),
         DOMAIN call' = Callers, call' = [d \in Callers |-> call'[d]],
         \A d \in Callers \ {c} : call'[d] = call[d],
         nextSeq' \in 1 .. (MaxSeq + 1), nextSeq <= nextSeq',
         spanLock' \in [SpanIDs -> Callers \cup {None}], price' \in Prices,
         call'[c] = Idle \/ SpanCall(call'[c]) \/ EventCall(call'[c]),
         SpanCall(call'[c]) => SpanCallOK(call'[c]),
         EventCall(call'[c]) => EventCallOK(call'[c]),
         LockInv',
         \/ Pend(c)' \subseteq Pend(c)
         \/ \E f : Pend(c)' \subseteq Pend(c) \cup {f} /\ Fresh(f)
  PROVE  SpansInv'
<1>1. Types'
  <2>1. \A d \in Callers : call'[d] = Idle \/ SpanCall(call'[d]) \/ EventCall(call'[d])
    BY DEF SpansInv, Types
  <2>2. \A s \in SpanIDs : Exists(s)' => spans'[s].id = s
    BY DEF SpansInv, Types, Exists
  <2>3. \A d \in Callers : (call[d] = Idle \/ SpanCall(call[d]) \/ EventCall(call[d]))'
    BY <2>1, SameTables
  <2> QED BY <2>2, <2>3 DEF SpansInv, Types, Acceptable
<1>2. \A d \in Callers \ {c} : Pend(d)' = Pend(d)
  BY DEF Pend
<1>3. \/ Known' \subseteq Known
      \/ \E f : Known' \subseteq Known \cup {f} /\ Fresh(f)
  <2>1. \A e \in Known' : e \in Known \/ e \in Pend(c)'
    BY <1>2 DEF Known
  <2>2. Pend(c) \subseteq Known
    BY DEF Known
  <2> HIDE DEF Known
  <2> QED BY <2>1, <2>2
<1>4. KnownInv'
  <2> SUFFICES /\ \A e \in Known' : /\ IsLifecycle(e) \/ IsClients(e)
                                    /\ e.seq \in 1 .. (nextSeq' - 1)
               /\ \A e, g \in Known' : e.id = g.id \/ e.seq = g.seq => e = g
    BY DEF KnownInv, IsLifecycle, IsClients
  <2> HIDE DEF Known
  <2>1. nextSeq \in Nat \ {0} /\ nextSeq' \in Nat \ {0}
    BY MaxSeqAssumption DEF SpansInv, Types
  <2>2. \A e \in Known : /\ IsLifecycle(e) \/ IsClients(e)
                         /\ e.seq \in 1 .. (nextSeq - 1)
    BY DEF SpansInv, KnownInv
  <2>3. \A e, g \in Known : e.id = g.id \/ e.seq = g.seq => e = g
    BY DEF SpansInv, KnownInv
  <2>4. CASE Known' \subseteq Known
    BY <2>1, <2>2, <2>3, <2>4
  <2>5. ASSUME NEW f, Known' \subseteq Known \cup {f} /\ Fresh(f)
        PROVE  /\ \A e \in Known' : /\ IsLifecycle(e) \/ IsClients(e)
                                    /\ e.seq \in 1 .. (nextSeq' - 1)
               /\ \A e, g \in Known' : e.id = g.id \/ e.seq = g.seq => e = g
    <3>1. \A e \in Known : e.seq < nextSeq /\ e.seq \in 1 .. (nextSeq' - 1) /\ e.id # f.id
      BY <2>1, <2>2, <2>5 DEF Fresh
    <3>2. (IsLifecycle(f) \/ IsClients(f)) /\ f.seq = nextSeq /\ f.seq \in 1 .. (nextSeq' - 1)
      BY <2>1, <2>5 DEF Fresh
    <3> QED BY <2>1, <2>2, <2>3, <2>5, <3>1, <3>2
  <2> QED BY <1>3, <2>4, <2>5
<1>5. HistoryInv' /\ CausalInv'
  BY SameTables DEF SpansInv
<1>6. CallInv'
  <2> SUFFICES ASSUME NEW d \in Callers
               PROVE  /\ SpanCall(call'[d]) => SpanCallOK(call'[d])
                      /\ EventCall(call'[d]) => EventCallOK(call'[d])
    BY SameTables DEF CallInv
  <2> QED BY DEF SpansInv, CallInv
<1>7. AckInv'
  BY DEF SpansInv, AckInv, Acceptable, Exists, Repeats, SameIdentity, IsRecordedStart
<1> QED BY <1>1, <1>4, <1>5, <1>6, <1>7 DEF SpansInv

\* A step that neither takes nor gives up the lock.
LEMMA LockKept ==
  ASSUME SpansInv, NEW c \in Callers, UNCHANGED spanLock,
         \A d \in Callers \ {c} : call'[d] = call[d],
         call'[c].pc \in Holding <=> call[c].pc \in Holding,
         call[c].pc \in Holding => call'[c].req = call[c].req
  PROVE  LockInv' /\ spanLock' \in [SpanIDs -> Callers \cup {None}]
BY DEF SpansInv, Types, LockInv

\* The end of a call gives up what it held.
LEMMA ReturnIs ==
  ASSUME SpansInv, NEW c \in Callers, Return(c)
  PROVE  /\ DOMAIN call' = Callers /\ call' = [d \in Callers |-> call'[d]]
         /\ \A d \in Callers \ {c} : call'[d] = call[d]
         /\ call'[c] = Idle /\ Pend(c)' = {}
         /\ ~SpanCall(call'[c]) /\ ~EventCall(call'[c])
         /\ spanLock' \in [SpanIDs -> Callers \cup {None}]
         /\ LockInv'
<1>1. /\ DOMAIN call' = Callers /\ call' = [d \in Callers |-> call'[d]]
      /\ \A d \in Callers \ {c} : call'[d] = call[d]
      /\ call'[c] = Idle
  BY DEF Return, SpansInv, Types
<1>2. Idle.pc = "idle" /\ ~SpanCall(Idle) /\ ~EventCall(Idle)
  BY DEF Idle, SpanCall, EventCall, Holding
<1>3. spanLock' \in [SpanIDs -> Callers \cup {None}]
  BY DEF Return, SpansInv, Types
<1>4. LockInv'
  <2>1. \A s \in SpanIDs : spanLock'[s] # None =>
          /\ spanLock'[s] = spanLock[s] /\ spanLock[s] \in Callers \ {c}
    BY NoneAssumption DEF Return, SpansInv, Types
  <2>2. \A s \in SpanIDs : spanLock'[s] # None =>
          call'[spanLock'[s]].pc \in Holding /\ call'[spanLock'[s]].req.id = s
    BY <1>1, <2>1 DEF SpansInv, LockInv
  <2>3. ASSUME NEW d \in Callers, call'[d].pc \in Holding
        PROVE  spanLock'[call'[d].req.id] = d
    <3>1. d # c /\ call'[d] = call[d]
      BY <1>1, <1>2, <2>3 DEF Holding
    <3>2. call[d].req.id \in SpanIDs
      BY <2>3, <3>1, CallFacts
    <3> QED BY <2>3, <3>1, <3>2 DEF SpansInv, LockInv, Return
  <2> QED BY <2>2, <2>3 DEF LockInv
<1> QED BY <1>1, <1>2, <1>3, <1>4 DEF Pend

\* A call that ends: an answer without effect, a refusal, or an abort.
LEMMA ReturnKeeps ==
  ASSUME SpansInv, NEW c \in Callers, Return(c),
         UNCHANGED <<spans, events, price>>,
         \A a \in acked' : a \in acked \/ Acceptable(a),
         nextSeq' \in 1 .. (MaxSeq + 1), nextSeq <= nextSeq'
  PROVE  SpansInv'
<1>1. price' \in Prices
  BY DEF SpansInv, Types
<1> QED BY <1>1, ReturnIs, LocalKeeps

\* A repeated request is answered and nothing is written.
LEMMA AcceptRepeatKeeps ==
  ASSUME SpansInv, NEW c \in Callers, AcceptRepeat(c)
  PROVE  SpansInv'
<1>1. SpanCall(call[c])
  BY CallFacts DEF AcceptRepeat, Holding
<1> DEFINE a == [raw |-> call[c].raw, req |-> call[c].req]
<1>2. Acceptable(a)
  BY <1>1 DEF Acceptable, AcceptRepeat, SpanCall
<1>3. acked' = acked \cup {a}
  BY DEF AcceptRepeat, Acknowledge
<1> HIDE DEF a
<1>4. nextSeq' \in 1 .. (MaxSeq + 1) /\ nextSeq <= nextSeq'
  BY MaxSeqAssumption DEF AcceptRepeat, SpansInv, Types
<1> QED BY <1>2, <1>3, <1>4, ReturnKeeps DEF AcceptRepeat

\* A refusal, a conflict or an abort: locks are released, a number may be lost.
LEMMA LeaveKeeps ==
  ASSUME SpansInv, NEW c \in Callers, Refuse(c) \/ Abort(c) \/ EventConflict(c)
  PROVE  SpansInv'
<1>1. nextSeq' \in 1 .. (MaxSeq + 1) /\ nextSeq <= nextSeq'
  BY MaxSeqAssumption DEF Refuse, Abort, EventConflict, SpansInv, Types
<1> QED BY <1>1, ReturnKeeps DEF Refuse, Abort, EventConflict

\* A new call has nothing pending.
LEMMA IngestKeeps ==
  ASSUME SpansInv, NEW c \in Callers,
         \/ \E q \in Requests : IngestSpan(c, q)
         \/ \E e \in EventRequests : IngestEvent(c, e)
  PROVE  SpansInv'
<1>1. /\ call[c].pc = "idle"
      /\ UNCHANGED <<spans, events, nextSeq, spanLock, price, acked>>
      /\ DOMAIN call' = Callers /\ call' = [d \in Callers |-> call'[d]]
      /\ \A d \in Callers \ {c} : call'[d] = call[d]
  BY DEF IngestSpan, IngestEvent, SpansInv, Types
<1>2. /\ call'[c].pc \in {"lock", "event"} /\ call'[c].pend = {}
      /\ SpanCall(call'[c]) \/ EventCall(call'[c])
  <2>1. ASSUME NEW q \in Requests, IngestSpan(c, q)
        PROVE  call'[c].pc = "lock" /\ call'[c].pend = {} /\ SpanCall(call'[c])
    <3>1. call'[c] = [pc |-> "lock", raw |-> q, req |-> Priced(q, price), pend |-> {}]
      BY <2>1 DEF IngestSpan, Enrich, Priced, SpansInv, Types
    <3> QED BY <3>1 DEF SpanCall, SpansInv, Types
  <2>2. ASSUME NEW e \in EventRequests, IngestEvent(c, e)
        PROVE  call'[c].pc = "event" /\ call'[c].pend = {} /\ EventCall(call'[c])
    <3>1. call'[c] = [pc |-> "event", ev |-> e, pend |-> {}]
      BY <2>2 DEF IngestEvent, SpansInv, Types
    <3> QED BY <3>1 DEF EventCall
  <2> QED BY <2>1, <2>2
<1>3. /\ SpanCall(call'[c]) => SpanCallOK(call'[c])
      /\ EventCall(call'[c]) => EventCallOK(call'[c])
  <2>1. call'[c].pc = "event" => ~SpanCall(call'[c])
    BY DEF SpanCall, Holding
  <2> QED BY <1>2, <2>1 DEF SpanCallOK, EventCallOK, EventCall
<1>4. LockInv' /\ spanLock' \in [SpanIDs -> Callers \cup {None}]
  BY <1>1, <1>2, LockKept DEF Holding
<1>5. Pend(c)' = {}
  BY <1>2 DEF Pend
<1>6. nextSeq' \in 1 .. (MaxSeq + 1) /\ nextSeq <= nextSeq' /\ price' \in Prices
  BY <1>1, MaxSeqAssumption DEF SpansInv, Types
<1> QED BY <1>1, <1>2, <1>3, <1>4, <1>5, <1>6, LocalKeeps

\* A step of InsertSpan keeps the request.
LEMMA StepIs ==
  ASSUME SpansInv, NEW c \in Callers, SpanCall(call[c]), NEW label \in Holding,
         NEW P,
         call' = [call EXCEPT ![c] = [pc |-> label, raw |-> call[c].raw,
                                      req |-> call[c].req, pend |-> P]]
  PROVE  /\ DOMAIN call' = Callers /\ call' = [d \in Callers |-> call'[d]]
         /\ \A d \in Callers \ {c} : call'[d] = call[d]
         /\ SpanCall(call'[c]) /\ ~EventCall(call'[c])
         /\ call'[c].pc = label /\ call'[c].req = call[c].req
         /\ call'[c].pend = P /\ Pend(c)' = P
<1>1. /\ DOMAIN call' = Callers /\ call' = [d \in Callers |-> call'[d]]
      /\ \A d \in Callers \ {c} : call'[d] = call[d]
      /\ call'[c] = [pc |-> label, raw |-> call[c].raw,
                     req |-> call[c].req, pend |-> P]
  BY DEF SpansInv, Types
<1> QED BY <1>1 DEF SpanCall, EventCall, Holding, Pend

\* The same for Goto.
LEMMA GotoIs ==
  ASSUME SpansInv, NEW c \in Callers, SpanCall(call[c]), NEW label, Goto(c, label)
  PROVE  call' = [call EXCEPT ![c] = [pc |-> label, raw |-> call[c].raw,
                                      req |-> call[c].req, pend |-> call[c].pend]]
<1>1. [call[c] EXCEPT !.pc = label]
        = [pc |-> label, raw |-> call[c].raw, req |-> call[c].req, pend |-> call[c].pend]
  BY DEF SpanCall
<1> QED BY <1>1 DEF Goto, SpansInv, Types

\* A step of InsertSpan between two statements.
LEMMA InsideKeeps ==
  ASSUME SpansInv, NEW c \in Callers, call[c].pc \in Holding,
         NEW label \in Holding, NEW P,
         call' = [call EXCEPT ![c] = [pc |-> label, raw |-> call[c].raw,
                                      req |-> call[c].req, pend |-> P]],
         SpanCallOK(call'[c]),
         nextSeq' \in 1 .. (MaxSeq + 1), nextSeq <= nextSeq',
         UNCHANGED <<spans, events, spanLock, price, acked>>,
         \/ P \subseteq call[c].pend
         \/ \E f : P \subseteq call[c].pend \cup {f} /\ Fresh(f)
  PROVE  SpansInv'
<1>1. SpanCall(call[c]) /\ Pend(c) = call[c].pend
  BY CallFacts DEF Holding
<1>2. /\ DOMAIN call' = Callers /\ call' = [d \in Callers |-> call'[d]]
      /\ \A d \in Callers \ {c} : call'[d] = call[d]
      /\ SpanCall(call'[c]) /\ ~EventCall(call'[c])
      /\ call'[c].pc = label /\ call'[c].req = call[c].req
      /\ Pend(c)' = P
  BY <1>1, StepIs
<1>3. LockInv' /\ spanLock' \in [SpanIDs -> Callers \cup {None}]
  BY <1>2, LockKept
<1>4. price' \in Prices
  BY DEF SpansInv, Types
<1>5. \/ Pend(c)' \subseteq Pend(c)
      \/ \E f : Pend(c)' \subseteq Pend(c) \cup {f} /\ Fresh(f)
  BY <1>1, <1>2
<1>6. /\ SpanCall(call'[c]) => SpanCallOK(call'[c])
      /\ EventCall(call'[c]) => EventCallOK(call'[c])
      /\ \A a \in acked' : a \in acked \/ Acceptable(a)
  BY <1>2
<1> QED BY <1>2, <1>3, <1>4, <1>5, <1>6, LocalKeeps

\* A request takes the lock of its span.
LEMMA LockSpanKeeps ==
  ASSUME SpansInv, NEW c \in Callers, LockSpan(c)
  PROVE  SpansInv'
<1> USE DEF LockSpan
<1>1. /\ SpanCall(call[c]) /\ SpanCallOK(call[c]) /\ Pend(c) = call[c].pend
      /\ call[c].req.id \in SpanIDs
  BY CallFacts
<1>2. call[c].pend = {}
  BY <1>1 DEF SpanCallOK
<1>3. /\ DOMAIN call' = Callers /\ call' = [d \in Callers |-> call'[d]]
      /\ \A d \in Callers \ {c} : call'[d] = call[d]
      /\ SpanCall(call'[c]) /\ ~EventCall(call'[c])
      /\ call'[c].pc = "read" /\ call'[c].req = call[c].req
      /\ call'[c].pend = {} /\ Pend(c)' = {}
  BY <1>1, <1>2, GotoIs, StepIs DEF Holding
<1>4. SpanCallOK(call'[c])
  BY <1>3 DEF SpanCallOK
<1>5. spanLock' \in [SpanIDs -> Callers \cup {None}]
  BY DEF SpansInv, Types
<1>6. LockInv'
  <2>1. \A s \in SpanIDs : spanLock'[s] # None =>
          call'[spanLock'[s]].pc \in Holding /\ call'[spanLock'[s]].req.id = s
    <3> TAKE s \in SpanIDs
    <3>1. CASE s = call[c].req.id
      BY <1>3, <3>1 DEF SpansInv, Types, Holding
    <3>2. CASE s # call[c].req.id
      <4>1. spanLock'[s] = spanLock[s]
        BY <3>2 DEF SpansInv, Types
      <4>2. spanLock[s] # None => spanLock[s] # c /\ spanLock[s] \in Callers
        BY <3>2 DEF SpansInv, Types, LockInv
      <4> QED BY <1>3, <4>1, <4>2 DEF SpansInv, LockInv
    <3> QED BY <3>1, <3>2
  <2>2. ASSUME NEW d \in Callers, call'[d].pc \in Holding
        PROVE  spanLock'[call'[d].req.id] = d
    <3>1. CASE d = c
      BY <1>1, <1>3, <3>1 DEF SpansInv, Types
    <3>2. CASE d # c
      <4>1. call[d].pc \in Holding /\ spanLock[call[d].req.id] = d
        BY <1>3, <2>2, <3>2 DEF SpansInv, LockInv
      <4>2. call[d].req.id # call[c].req.id
        BY <4>1, NoneAssumption
      <4> QED BY <1>1, <1>3, <3>2, <4>1, <4>2 DEF SpansInv, Types
    <3> QED BY <3>1, <3>2
  <2> QED BY <2>1, <2>2 DEF LockInv
<1>7. nextSeq' \in 1 .. (MaxSeq + 1) /\ nextSeq <= nextSeq' /\ price' \in Prices
  BY MaxSeqAssumption DEF SpansInv, Types
<1> QED BY <1>3, <1>4, <1>5, <1>6, <1>7, LocalKeeps

\* A request reads its span under the lock.
LEMMA ReadSpanKeeps ==
  ASSUME SpansInv, NEW c \in Callers, ReadSpan(c)
  PROVE  SpansInv'
<1> USE DEF ReadSpan
<1>1. SpanCall(call[c]) /\ SpanCallOK(call[c])
  BY CallFacts DEF Holding
<1>2. call' = [call EXCEPT ![c] = [pc |-> "refs", raw |-> call[c].raw,
                                   req |-> call[c].req, pend |-> call[c].pend]]
  BY <1>1, GotoIs
<1>3. /\ call'[c].pc = "refs" /\ call'[c].req = call[c].req
      /\ call'[c].pend = call[c].pend
  BY <1>1, <1>2, StepIs DEF Holding
<1>4. SpanCallOK(call'[c])
  BY <1>1, <1>3 DEF SpanCallOK
<1>5. nextSeq' \in 1 .. (MaxSeq + 1) /\ nextSeq <= nextSeq'
  BY MaxSeqAssumption DEF SpansInv, Types
<1>6. call[c].pc \in Holding /\ "refs" \in Holding
  BY DEF Holding
<1>7. UNCHANGED <<spans, events, spanLock, price, acked>>
  OBVIOUS
<1>8. call[c].pend \subseteq call[c].pend
  OBVIOUS
<1> HIDE DEF ReadSpan
<1> QED BY <1>2, <1>4, <1>5, <1>6, <1>7, <1>8, InsideKeeps

\* Parent and execution are checked.
LEMMA CheckRefsKeeps ==
  ASSUME SpansInv, NEW c \in Callers, CheckRefs(c)
  PROVE  SpansInv'
<1> USE DEF CheckRefs
<1> DEFINE label == IF Exists(call[c].req.id) THEN "end" ELSE "start"
<1>1. SpanCall(call[c]) /\ SpanCallOK(call[c])
  BY CallFacts DEF Holding
<1>2. label \in Holding
  BY DEF Holding
<1>3. call' = [call EXCEPT ![c] = [pc |-> label, raw |-> call[c].raw,
                                   req |-> call[c].req, pend |-> call[c].pend]]
  BY <1>1, GotoIs
<1>4. /\ call'[c].pc = label /\ call'[c].req = call[c].req
      /\ call'[c].pend = call[c].pend
  <2> HIDE DEF label
  <2> QED BY <1>1, <1>2, <1>3, StepIs
<1>5. SpanCallOK(call'[c])
  BY <1>1, <1>4 DEF SpanCallOK, Completes
<1>6. nextSeq' \in 1 .. (MaxSeq + 1) /\ nextSeq <= nextSeq'
  BY MaxSeqAssumption DEF SpansInv, Types
<1> HIDE DEF label
<1>7. call[c].pc \in Holding
  BY DEF Holding
<1>8. UNCHANGED <<spans, events, spanLock, price, acked>>
  OBVIOUS
<1>9. call[c].pend \subseteq call[c].pend
  OBVIOUS
<1> HIDE DEF CheckRefs
<1> QED BY <1>2, <1>3, <1>5, <1>6, <1>7, <1>8, <1>9, InsideKeeps

\* No other transaction has an event of a span that is locked.
LEMMA OwnEvents ==
  ASSUME SpansInv, NEW c \in Callers, call[c].pc \in Holding,
         NEW d \in Callers \ {c}, NEW e \in Pend(d), NEW k \in Kinds
  PROVE  e.id # <<call[c].req.id, k>>
<1>1. call[c].req.id \in SpanIDs
  BY CallFacts
<1>2. call[d].pc # "idle" /\ e \in call[d].pend
  BY DEF Pend
<1>3. SpanCall(call[d]) \/ EventCall(call[d])
  BY <1>2, CallFacts DEF SpansInv, Types
<1>4. CASE EventCall(call[d])
  <2>1. EventCallOK(call[d])
    BY <1>4 DEF SpansInv, CallInv
  <2>2. IsClients(e)
    BY <1>2, <1>4, <2>1 DEF EventCall, EventCallOK
  <2> QED BY <1>1, <2>2 DEF IsClients
<1>5. CASE SpanCall(call[d])
  <2>1. SpanCallOK(call[d]) /\ call[d].pc \in {"lock"} \cup Holding
    BY <1>5 DEF SpansInv, CallInv, SpanCall
  <2>2. call[d].pc \in {"end", "commit"}
    BY <1>2, <2>1 DEF SpanCallOK, Holding
  <2>3. call[d].req.id # call[c].req.id
    BY <2>2, Exclusive DEF Holding
  <2>4. \E k2 \in Kinds : e.id = <<call[d].req.id, k2>>
    BY <1>2, <2>1, <2>2, LifecycleIs, EndKindIs
       DEF SpanCallOK, HasStarted, HasStartedAndEnded, HasEnded, Kinds
  <2> QED BY <2>3, <2>4
<1> QED BY <1>3, <1>4, <1>5

\* A lifecycle event is fresh if neither the table nor the transaction has it.
LEMMA LifecycleFresh ==
  ASSUME SpansInv, NEW c \in Callers, call[c].pc \in Holding,
         NEW f, IsLifecycle(f), NEW k \in Kinds, f.id = <<call[c].req.id, k>>,
         f.seq = nextSeq, nextSeq' = nextSeq + 1,
         ~Recorded(call[c].req.id, k), \A e \in call[c].pend : e.id # f.id
  PROVE  Fresh(f)
<1>1. call[c].req.id \in SpanIDs /\ Pend(c) = call[c].pend
  BY CallFacts DEF Holding
<1>2. \A e \in events : e.id # f.id
  BY <1>1 DEF SpansInv, HistoryInv, HistoryOf
<1>3. \A d \in Callers \ {c} : \A e \in Pend(d) : e.id # f.id
  BY OwnEvents
<1>4. \A e \in Known : e.id # f.id
  BY <1>1, <1>2, <1>3 DEF Known
<1> QED BY <1>4 DEF Fresh

\* The local state after a statement that adds to the transaction.
LEMMA StepRecord ==
  ASSUME NEW z, SpanCall(z), NEW label, NEW P
  PROVE  [[z EXCEPT !.pc = label] EXCEPT !.pend = P]
           = [pc |-> label, raw |-> z.raw, req |-> z.req, pend |-> P]
<1> DEFINE y == [z EXCEPT !.pc = label]
           x == [y EXCEPT !.pend = P]
<1>1. DOMAIN z = {"pc", "raw", "req", "pend"}
  BY DEF SpanCall
<1>2. DOMAIN y = {"pc", "raw", "req", "pend"} /\ y.pc = label /\ y.raw = z.raw
      /\ y.req = z.req
  BY <1>1
<1> HIDE DEF y
<1>3. DOMAIN x = {"pc", "raw", "req", "pend"} /\ x.pc = label /\ x.raw = z.raw
      /\ x.req = z.req /\ x.pend = P /\ x = [i \in DOMAIN y |-> x[i]]
  BY <1>2
<1> HIDE DEF x
<1>4. x = [pc |-> label, raw |-> z.raw, req |-> z.req, pend |-> P]
  BY <1>2, <1>3
<1> QED BY <1>4 DEF x, y

\* The lifecycle event of a start is numbered.
LEMMA InsertStartKeeps ==
  ASSUME SpansInv, NEW c \in Callers, InsertStart(c)
  PROVE  SpansInv'
<1> DEFINE z == call[c]
           label == IF z.req.status = Running THEN "commit" ELSE "end"
           f == StartAt(z.req, nextSeq)
<1>1. /\ z.pc = "start" /\ nextSeq <= MaxSeq /\ nextSeq' = nextSeq + 1
      /\ UNCHANGED <<spans, events, spanLock, price, acked>>
  BY DEF InsertStart
<1>2. z.pc \in Holding /\ label \in Holding
  BY <1>1 DEF Holding
<1>3. SpanCall(z) /\ SpanCallOK(z) /\ z.req \in SpanReq /\ z.req.id \in SpanIDs
  BY <1>2, CallFacts
<1>4. z.pend = {} /\ ~Exists(z.req.id) /\ RefsExist(z.req)
  BY <1>1, <1>3 DEF SpanCallOK
<1>5. call' = [call EXCEPT ![c] = [pc |-> label, raw |-> z.raw, req |-> z.req,
                                   pend |-> {f}]]
  <2>1. call' = [call EXCEPT ![c].pc = label, ![c].pend = {f}]
    BY DEF InsertStart, Lifecycle, StartAt, LifecycleAt
  <2>2. [[z EXCEPT !.pc = label] EXCEPT !.pend = {f}]
          = [pc |-> label, raw |-> z.raw, req |-> z.req, pend |-> {f}]
    <3> HIDE DEF z, label, f
    <3> QED BY <1>3, StepRecord
  <2>3. DOMAIN call = Callers
    BY DEF SpansInv, Types
  <2> QED BY <2>1, <2>2, <2>3
<1>6. Fresh(f)
  <2>1. IsLifecycle(f) /\ f.id = <<z.req.id, "SPAN_STARTED">> /\ f.seq = nextSeq
    BY <1>3, LifecycleForm, LifecycleIs
  <2>2. ~Recorded(z.req.id, "SPAN_STARTED") /\ "SPAN_STARTED" \in Kinds
    BY <1>4 DEF Recorded, Kinds
  <2> HIDE DEF f
  <2> QED BY <1>1, <1>2, <1>4, <2>1, <2>2, LifecycleFresh
<1>7. call'[c].pc = label /\ call'[c].req = z.req /\ call'[c].pend = {f}
  <2> HIDE DEF label, f
  <2> QED BY <1>2, <1>3, <1>5, StepIs
<1>8. nextSeq \in 1 .. MaxSeq /\ nextSeq' \in 1 .. (MaxSeq + 1) /\ nextSeq <= nextSeq'
  BY <1>1, MaxSeqAssumption DEF SpansInv, Types
<1>9. StartedBefore(z.req, nextSeq)
  <2>1. \A e \in events : e \in Known
    BY DEF Known
  <2>2. \A e \in events : e.seq < nextSeq
    BY <1>8, <2>1 DEF SpansInv, KnownInv
  <2> QED BY <2>2 DEF StartedBefore
<1>10. SpanCallOK(call'[c])
  <2>1. HasStarted(call'[c])
    BY <1>7, <1>8, <1>9 DEF HasStarted
  <2> QED BY <1>4, <1>7, <2>1 DEF SpanCallOK
<1> HIDE DEF label, f
<1> QED BY <1>1, <1>2, <1>5, <1>6, <1>8, <1>10, InsideKeeps

\* The lifecycle event of an end is numbered.
LEMMA InsertEndKeeps ==
  ASSUME SpansInv, NEW c \in Callers, InsertEnd(c)
  PROVE  SpansInv'
<1> DEFINE z == call[c]
           f == EndAt(z.req, nextSeq)
           P == z.pend \cup {f}
<1>1. /\ z.pc = "end" /\ nextSeq <= MaxSeq /\ nextSeq' = nextSeq + 1
      /\ UNCHANGED <<spans, events, spanLock, price, acked>>
  BY DEF InsertEnd
<1>2. z.pc \in Holding /\ "commit" \in Holding
  BY <1>1 DEF Holding
<1>3. SpanCall(z) /\ SpanCallOK(z) /\ z.req \in SpanReq /\ z.req.id \in SpanIDs
  BY <1>2, CallFacts
<1>4. /\ z.req.status # Running /\ RefsExist(z.req)
      /\ Exists(z.req.id) => Completes(z.req) /\ z.pend = {}
      /\ ~Exists(z.req.id) => HasStarted(z)
  BY <1>1, <1>3 DEF SpanCallOK
<1>5. call' = [call EXCEPT ![c] = [pc |-> "commit", raw |-> z.raw, req |-> z.req,
                                   pend |-> P]]
  <2>1. call' = [call EXCEPT ![c].pc = "commit", ![c].pend = P]
    BY DEF InsertEnd, Lifecycle, EndAt, LifecycleAt, SpansInv, Types
  <2>2. [[z EXCEPT !.pc = "commit"] EXCEPT !.pend = P]
          = [pc |-> "commit", raw |-> z.raw, req |-> z.req, pend |-> P]
    <3> HIDE DEF z, P
    <3> QED BY <1>3, StepRecord
  <2>3. DOMAIN call = Callers
    BY DEF SpansInv, Types
  <2> HIDE DEF P
  <2> QED BY <2>1, <2>2, <2>3
<1>6. Fresh(f)
  <2> DEFINE k == EndKind(z.req.status)
  <2>1. IsLifecycle(f) /\ f.id = <<z.req.id, k>> /\ f.seq = nextSeq
    BY <1>3, LifecycleForm, LifecycleIs
  <2>2. k \in Kinds \ {"SPAN_STARTED"}
    BY EndKindIs
  <2>3. ~Recorded(z.req.id, k)
    <3> HIDE DEF k
    <3> QED BY <1>4, <2>2 DEF Recorded, Completes
  <2>4. \A e \in z.pend : e.id # f.id
    <3> HIDE DEF k, f
    <3> QED BY <1>4, <2>1, <2>2, LifecycleIs DEF HasStarted
  <2> HIDE DEF f, k
  <2> QED BY <1>1, <1>2, <2>1, <2>2, <2>3, <2>4, LifecycleFresh
<1>7. call'[c].pc = "commit" /\ call'[c].req = z.req /\ call'[c].pend = P
  <2> HIDE DEF P
  <2> QED BY <1>2, <1>3, <1>5, StepIs
<1>8. nextSeq \in 1 .. MaxSeq /\ nextSeq' \in 1 .. (MaxSeq + 1) /\ nextSeq <= nextSeq'
  BY <1>1, MaxSeqAssumption DEF SpansInv, Types
<1>9. \A e \in Known : e.seq < nextSeq
  BY <1>8 DEF SpansInv, KnownInv
<1>10. SpanCallOK(call'[c])
  <2>1. CASE Exists(z.req.id)
    <3>1. \A e \in events : e.seq < nextSeq
      BY <1>9 DEF Known
    <3>2. P = {f}
      BY <1>4, <2>1
    <3>3. HasEnded(call'[c])
      BY <1>7, <1>8, <3>1, <3>2 DEF HasEnded
    <3> QED BY <1>4, <1>7, <2>1, <3>3 DEF SpanCallOK
  <2>2. CASE ~Exists(z.req.id)
    <3>1. PICK m \in 1 .. MaxSeq : z.pend = {StartAt(z.req, m)} /\ StartedBefore(z.req, m)
      BY <1>4, <2>2 DEF HasStarted
    <3>2. StartAt(z.req, m) \in Known
      BY <1>2, <3>1, CallFacts DEF Holding
    <3>3. m < nextSeq
      BY <1>9, <3>2, LifecycleIs
    <3>4. P = {StartAt(z.req, m), f}
      BY <3>1
    <3>5. HasStartedAndEnded(call'[c])
      BY <1>7, <1>8, <3>1, <3>3, <3>4 DEF HasStartedAndEnded
    <3> QED BY <1>4, <1>7, <2>2, <3>5 DEF SpanCallOK
  <2> QED BY <2>1, <2>2
<1>11. P \subseteq z.pend \cup {f}
  OBVIOUS
<1> HIDE DEF P, f
<1> QED BY <1>1, <1>2, <1>5, <1>6, <1>8, <1>10, <1>11, InsideKeeps

\* A client event is numbered.
LEMMA InsertEventKeeps ==
  ASSUME SpansInv, NEW c \in Callers, InsertEvent(c)
  PROVE  SpansInv'
<1> DEFINE z == call[c]
           e == z.ev
           f == [id |-> e.id, exec |-> e.exec, span |-> e.span, kind |-> e.kind,
                 payload |-> e.payload, seq |-> nextSeq]
<1>1. /\ z.pc = "event" /\ nextSeq <= MaxSeq /\ nextSeq' = nextSeq + 1
      /\ ~Blocked(c, e) /\ ~Conflicts(e)
      /\ call' = [call EXCEPT ![c].pc = "eventCommit", ![c].pend = {f}]
      /\ UNCHANGED <<spans, events, spanLock, price, acked>>
  BY DEF InsertEvent
<1>2. EventCall(z) /\ EventCallOK(z) /\ Pend(c) = z.pend
  BY <1>1, CallFacts
<1>3. z.pend = {} /\ e \in EventRequests
  BY <1>1, <1>2 DEF EventCallOK, EventCall
<1>4. /\ DOMAIN call' = Callers /\ call' = [d \in Callers |-> call'[d]]
      /\ \A d \in Callers \ {c} : call'[d] = call[d]
      /\ EventCall(call'[c]) /\ call'[c].pc = "eventCommit" /\ call'[c].pend = {f}
  <2> DEFINE y == [z EXCEPT !.pc = "eventCommit"]
             x == [y EXCEPT !.pend = {f}]
  <2>1. DOMAIN z = {"pc", "ev", "pend"}
    BY <1>2 DEF EventCall
  <2>2. DOMAIN y = {"pc", "ev", "pend"} /\ y.pc = "eventCommit" /\ y.ev = z.ev
    BY <2>1
  <2>3. call' = [call EXCEPT ![c] = x] /\ DOMAIN call = Callers
    BY <1>1 DEF SpansInv, Types
  <2> HIDE DEF y, z, f
  <2>4. DOMAIN x = {"pc", "ev", "pend"} /\ x.pc = "eventCommit" /\ x.ev = z.ev
        /\ x.pend = {f} /\ x = [i \in DOMAIN y |-> x[i]]
    BY <2>2
  <2> HIDE DEF x
  <2>5. x = [pc |-> x.pc, ev |-> x.ev, pend |-> x.pend]
    BY <2>2, <2>4
  <2>6. EventCall(x)
    BY <1>3, <2>4, <2>5 DEF EventCall
  <2> QED BY <2>3, <2>4, <2>6
<1>5. /\ f.id = e.id /\ f.kind = e.kind /\ f.seq = nextSeq
  OBVIOUS
<1>6. IsClients(f)
  <2>1. e.id \notin SpanIDs \X (Kinds \cup {e.kind})
    <3>1. Kinds \cup {e.kind} = {"SPAN_STARTED", "SPAN_ENDED", "SPAN_FAILED",
                                 "SPAN_CANCELLED", e.kind}
      BY DEF Kinds
    <3> QED BY <1>3, <3>1, EventIDsAssumption
  <2> HIDE DEF f
  <2> QED BY <1>5, <2>1 DEF IsClients
<1> HIDE DEF f
<1>7. Fresh(f)
  <2>1. \A g \in events : g.id # f.id
    BY <1>1, <1>5 DEF Conflicts
  <2>2. \A d \in Callers : \A g \in Pend(d) : g.id # f.id
    BY <1>1, <1>2, <1>3, <1>5 DEF Blocked, Pend
  <2>3. \A g \in Known : g.id # f.id
    BY <2>1, <2>2 DEF Known
  <2> QED BY <1>1, <1>5, <1>6, <2>3 DEF Fresh
<1>8. EventCallOK(call'[c]) /\ ~SpanCall(call'[c])
  BY <1>4, <1>6 DEF EventCallOK, SpanCall, Holding
<1>9. LockInv' /\ spanLock' \in [SpanIDs -> Callers \cup {None}]
  BY <1>1, <1>4, LockKept DEF Holding
<1>10. Pend(c)' \subseteq Pend(c) \cup {f}
  BY <1>4 DEF Pend
<1>11. /\ nextSeq' \in 1 .. (MaxSeq + 1) /\ nextSeq <= nextSeq' /\ price' \in Prices
       /\ \A a \in acked' : a \in acked \/ Acceptable(a)
  BY <1>1, MaxSeqAssumption DEF SpansInv, Types
<1> QED BY <1>1, <1>4, <1>7, <1>8, <1>9, <1>10, <1>11, LocalKeeps

\* A new pricing table concerns no stored span.
LEMMA PricingKeeps ==
  ASSUME SpansInv, \/ \E p \in Prices : SyncPricing(p)
                   \/ UNCHANGED vars
  PROVE  SpansInv'
<1>1. price' \in Prices /\ UNCHANGED <<spans, events, nextSeq, spanLock, call, acked>>
  BY DEF SyncPricing, vars, SpansInv, Types
<1>2. Types'
  BY <1>1 DEF SpansInv, Types, Exists, SpanCall, EventCall
<1>3. LockInv' /\ KnownInv'
  BY <1>1 DEF SpansInv, LockInv, KnownInv, Known, Pend, IsLifecycle, IsClients
<1>4. \A c \in Callers : /\ SpanCallOK(call[c])' <=> SpanCallOK(call[c])
                         /\ EventCallOK(call[c])' <=> EventCallOK(call[c])
                         /\ SpanCall(call[c])' <=> SpanCall(call[c])
                         /\ EventCall(call[c])' <=> EventCall(call[c])
  BY <1>1, SameTables
<1>5. CallInv'
  BY <1>4 DEF SpansInv, CallInv
<1>6. HistoryInv' /\ CausalInv'
  <2>1. HistoryInv'
    BY <1>1 DEF SpansInv, HistoryInv, HistoryOf, Recorded, Exists, IsStart
  <2>2. CausalInv'
    BY <1>1 DEF SpansInv, CausalInv, RefsExist, Exists, StartedBefore, IsStart
  <2> QED BY <2>1, <2>2
<1>7. AckInv'
  BY <1>1 DEF SpansInv, AckInv, Exists, Repeats, SameIdentity, IsRecordedStart
<1> QED BY <1>2, <1>3, <1>5, <1>6, <1>7 DEF SpansInv

-----------------------------------------------------------------------------
(* Commits *)

\* What a commit of other events and another span leaves alone.
LEMMA OtherCalls ==
  ASSUME SpansInv, NEW d \in Callers, call'[d] = call[d], SpanCall(call[d]),
         events \subseteq events',
         \A r \in SpanIDs : Exists(r) => Exists(r)' /\ spans'[r].exec = spans[r].exec,
         \A r \in SpanIDs : Exists(r) => \A e \in events' : IsStart(e, r) => e \in events,
         call[d].pc \in Holding =>
           /\ spans'[call[d].req.id] = spans[call[d].req.id]
           /\ \A e \in events' : IsStart(e, call[d].req.id) => e \in events
  PROVE  SpanCallOK(call[d])'
<1> DEFINE z == call[d]
<1>1. SpanCallOK(z) /\ z.pc \in {"lock"} \cup Holding /\ z.req.id \in SpanIDs
  BY CallIs DEF SpansInv, CallInv, SpanCall
<1>2. CASE z.pc = "lock"
  BY <1>1, <1>2 DEF SpanCallOK
<1>3. CASE z.pc \in Holding
  <2>1. /\ Exists(z.req.id)' <=> Exists(z.req.id)
        /\ Completes(z.req)' <=> Completes(z.req)
    BY <1>1, <1>3 DEF Exists, Completes, SameIdentity
  <2>2. RefsExist(z.req) => RefsExist(z.req)'
    <3>1. \A r : Exists(r) => r \in SpanIDs
      BY DEF Exists
    <3> QED BY <3>1 DEF RefsExist
  <2>3. \A n : RefsExist(z.req) /\ StartedBefore(z.req, n) => StartedBefore(z.req, n)'
    <3>1. \A r : Exists(r) => r \in SpanIDs
      BY DEF Exists
    <3>2. \A r, e : IsStart(e, r)' <=> IsStart(e, r)
      BY DEF IsStart
    <3> QED BY <3>1, <3>2 DEF RefsExist, StartedBefore
  <2>4. RefsExist(z.req) /\ HasStarted(z) => HasStarted(z)'
    BY <2>3 DEF HasStarted
  <2>5. RefsExist(z.req) /\ HasStartedAndEnded(z) => HasStartedAndEnded(z)'
    BY <2>3 DEF HasStartedAndEnded
  <2>6. HasEnded(z) => HasEnded(z)'
    BY <1>3 DEF HasEnded, IsStart
  <2>7. SpanCallOK(z) => SpanCallOK(z)'
    BY <2>1, <2>2, <2>4, <2>5, <2>6 DEF SpanCallOK
  <2> QED BY <1>1, <2>7
<1> QED BY <1>1, <1>2, <1>3

\* A commit adds no event that was not pending.
LEMMA CommitKnown ==
  ASSUME SpansInv, NEW c \in Callers, Return(c), UNCHANGED nextSeq,
         events' = events \cup Pend(c)
  PROVE  KnownInv'
<1>1. \A d \in Callers : Pend(d)' \subseteq Pend(d)
  BY ReturnIs DEF Pend
<1>2. Known' \subseteq Known
  BY <1>1 DEF Known
<1> QED BY <1>2 DEF SpansInv, KnownInv, IsLifecycle, IsClients

\* The history of a span that a commit does not concern.
LEMMA OtherHistory ==
  ASSUME SpansInv, NEW s \in SpanIDs, spans'[s] = spans[s], events \subseteq events',
         \A e \in events' : \A k \in Kinds : e.id = <<s, k>> => e \in events
  PROVE  HistoryOf(s)'
<1>1. HistoryOf(s)
  BY DEF SpansInv, HistoryInv
<1>2. /\ Exists(s)' <=> Exists(s)
      /\ \A k : Recorded(s, k)' <=> Recorded(s, k)
  BY DEF Exists, Recorded
<1>3. \A k \in Kinds : (\E e \in events' : e.id = <<s, k>>) <=> Recorded(s, k)'
  BY <1>1, <1>2 DEF HistoryOf
<1>4. \A e \in events' : IsStart(e, s)' => e \in events /\ IsStart(e, s)
  BY DEF IsStart, Kinds
<1>5. EndKind(spans[s].status) \in Kinds
  BY EndKindIs
<1>6. \A e \in events' : IsStart(e, s)' /\ spans'[s].status = Running
                         => e.payload = spans'[s]
  BY <1>1, <1>4 DEF HistoryOf
<1>7. Exists(s)' /\ spans'[s].status # Running =>
        \A e \in events' : e.id = <<s, EndKind(spans'[s].status)>> =>
          e.payload = spans'[s] /\ \A f \in events' : IsStart(f, s)' => f.seq < e.seq
  BY <1>1, <1>2, <1>4, <1>5 DEF HistoryOf
<1> QED BY <1>3, <1>6, <1>7 DEF HistoryOf

\* The causes of a span that a commit does not concern.
LEMMA OtherCauses ==
  ASSUME SpansInv, NEW s \in SpanIDs, Exists(s), spans'[s] = spans[s],
         \A r \in SpanIDs : Exists(r) => Exists(r)' /\ spans'[r].exec = spans[r].exec,
         \A r \in SpanIDs : Exists(r) => \A e \in events' : IsStart(e, r) => e \in events
  PROVE  /\ RefsExist(spans[s])'
         /\ \A e \in events' : IsStart(e, s) => StartedBefore(spans[s], e.seq)'
<1>1. RefsExist(spans[s]) /\ \A e \in events : IsStart(e, s) => StartedBefore(spans[s], e.seq)
  BY DEF SpansInv, CausalInv
<1>2. \A r \in Refs(spans[s]) : r \in SpanIDs /\ Exists(r)
  BY <1>1 DEF RefsExist, Exists
<1>3. Refs(spans[s])' = Refs(spans[s])
  BY DEF Refs
<1>4. RefsExist(spans[s])'
  BY <1>1, <1>2, <1>3 DEF RefsExist
<1>5. ASSUME NEW e \in events', IsStart(e, s) PROVE StartedBefore(spans[s], e.seq)'
  <2>1. StartedBefore(spans[s], e.seq)
    BY <1>1, <1>5
  <2>2. \A r \in Refs(spans[s]) : \A f \in events' : IsStart(f, r) => f.seq < e.seq
    BY <1>2, <2>1 DEF StartedBefore
  <2> QED BY <1>3, <2>2 DEF StartedBefore, IsStart
<1> QED BY <1>4, <1>5

\* The calls after a commit that other calls do not notice.
LEMMA CommitCalls ==
  ASSUME SpansInv, NEW c \in Callers, Return(c), events \subseteq events',
         \A r \in SpanIDs : Exists(r) => Exists(r)' /\ spans'[r].exec = spans[r].exec,
         \A r \in SpanIDs : Exists(r) => \A e \in events' : IsStart(e, r) => e \in events,
         \A d \in Callers \ {c} : call[d].pc \in Holding =>
           /\ spans'[call[d].req.id] = spans[call[d].req.id]
           /\ \A e \in events' : IsStart(e, call[d].req.id) => e \in events
  PROVE  CallInv'
<1>1. /\ \A d \in Callers \ {c} : call'[d] = call[d]
      /\ ~SpanCall(call'[c]) /\ ~EventCall(call'[c])
  BY ReturnIs
<1> SUFFICES ASSUME NEW d \in Callers \ {c}
             PROVE  /\ SpanCall(call[d])' => SpanCallOK(call[d])'
                    /\ EventCall(call[d])' => EventCallOK(call[d])'
  BY <1>1 DEF CallInv, SpanCall, EventCall
<1>2. SpanCall(call[d])' => SpanCallOK(call[d])'
  <2>1. SpanCall(call[d])' => SpanCall(call[d])
    BY <1>1 DEF SpanCall
  <2> QED BY <1>1, <2>1, OtherCalls
<1>3. EventCall(call[d])' => EventCallOK(call[d])'
  <2>1. EventCall(call[d]) => EventCallOK(call[d])
    BY DEF SpansInv, CallInv
  <2> QED BY <1>1, <2>1 DEF EventCall, EventCallOK, IsClients
<1> QED BY <1>2, <1>3

\* A client event commits.
LEMMA CommitEventKeeps ==
  ASSUME SpansInv, NEW c \in Callers, CommitEvent(c)
  PROVE  SpansInv'
<1> USE DEF CommitEvent
<1>1. EventCall(call[c]) /\ EventCallOK(call[c]) /\ Pend(c) = call[c].pend
  BY CallFacts
<1>2. /\ \A e \in call[c].pend : IsClients(e)
      /\ events \subseteq events' /\ UNCHANGED <<spans, acked, nextSeq, price>>
      /\ events' = events \cup Pend(c)
  BY <1>1 DEF EventCallOK
<1>3. \A s \in SpanIDs, k \in Kinds : \A e \in events' : e.id = <<s, k>> => e \in events
  <2>1. \A s \in SpanIDs, k \in Kinds : \A e : IsClients(e) => e.id # <<s, k>>
    BY DEF IsClients
  <2> QED BY <1>1, <1>2, <2>1
<1>4. /\ \A s \in SpanIDs : \A e \in events' : IsStart(e, s) => e \in events
      /\ \A s : Exists(s)' <=> Exists(s)
  BY <1>2, <1>3 DEF IsStart, Kinds, Exists
<1>5. Types' /\ LockInv'
  <2>1. /\ DOMAIN call' = Callers /\ call' = [d \in Callers |-> call'[d]]
        /\ \A d \in Callers : call'[d] = call[d] \/ call'[d] = Idle
        /\ spanLock' \in [SpanIDs -> Callers \cup {None}] /\ LockInv'
    BY ReturnIs
  <2>2. \A d \in Callers : (call[d] = Idle \/ SpanCall(call[d]) \/ EventCall(call[d]))'
    BY <2>1 DEF SpansInv, Types, SpanCall, EventCall
  <2> QED BY <1>2, <1>4, <2>1, <2>2 DEF SpansInv, Types
<1>6. KnownInv'
  BY <1>2, CommitKnown
<1>7. HistoryInv'
  <2>1. ASSUME NEW s \in SpanIDs PROVE HistoryOf(s)'
    BY <1>2, <1>3, OtherHistory
  <2> QED BY <2>1 DEF HistoryInv
<1>8. CausalInv'
  <2>1. ASSUME NEW s \in SpanIDs, Exists(s)
        PROVE  /\ RefsExist(spans[s])'
               /\ \A e \in events' : IsStart(e, s) => StartedBefore(spans[s], e.seq)'
    BY <1>2, <1>4, <2>1, OtherCauses
  <2> QED BY <1>4, <2>1 DEF CausalInv, IsStart
<1>9. CallInv'
  <2>1. \A d \in Callers : call[d].pc \in Holding => call[d].req.id \in SpanIDs
    BY CallFacts
  <2> QED BY <1>2, <1>4, <2>1, CommitCalls
<1>10. AckInv'
  BY <1>2, <1>4 DEF SpansInv, AckInv, Repeats, SameIdentity, IsRecordedStart
<1> QED BY <1>5, <1>6, <1>7, <1>8, <1>9, <1>10 DEF SpansInv

\* The events a call of InsertSpan commits are of its own span.
LEMMA CommitAdds ==
  ASSUME SpansInv, NEW c \in Callers, call[c].pc = "commit"
  PROVE  LET z == call[c]
             q == z.req
         IN  /\ SpanCall(z) /\ q \in SpanReq /\ q.id \in SpanIDs /\ Pend(c) = z.pend
             /\ RefsExist(q)
             /\ Exists(q.id) => Completes(q) /\ HasEnded(z)
             /\ ~Exists(q.id) /\ q.status = Running => HasStarted(z)
             /\ ~Exists(q.id) /\ q.status # Running => HasStartedAndEnded(z)
             /\ \A e \in z.pend : \E k \in Kinds : e.id = <<q.id, k>>
             /\ Exists(q.id) => \A e \in z.pend : ~IsStart(e, q.id)
<1> DEFINE z == call[c]
           q == z.req
<1>1. /\ SpanCall(z) /\ SpanCallOK(z) /\ q \in SpanReq /\ q.id \in SpanIDs
      /\ Pend(c) = z.pend
  BY CallFacts DEF Holding
<1>2. /\ RefsExist(q)
      /\ Exists(q.id) => Completes(q) /\ HasEnded(z)
      /\ ~Exists(q.id) /\ q.status = Running => HasStarted(z)
      /\ ~Exists(q.id) /\ q.status # Running => HasStartedAndEnded(z)
  BY <1>1 DEF SpanCallOK
<1>3. \A e \in z.pend : \E k \in Kinds : e.id = <<q.id, k>>
  BY <1>2, LifecycleIs, EndKindIs DEF HasStarted, HasStartedAndEnded, HasEnded, Kinds
<1>4. Exists(q.id) => \A e \in z.pend : ~IsStart(e, q.id)
  BY <1>2, LifecycleIs, EndKindIs DEF HasEnded, IsStart
<1> QED BY <1>1, <1>2, <1>3, <1>4

\* The history of the span that is committed.
LEMMA OwnHistory ==
  ASSUME SpansInv, NEW c \in Callers, call[c].pc = "commit",
         NEW q \in SpanReq, q = call[c].req,
         spans' = [spans EXCEPT ![q.id] = q],
         events' = events \cup call[c].pend
  PROVE  HistoryOf(q.id)'
<1> DEFINE s == q.id
           P == call[c].pend
<1>1. /\ s \in SpanIDs
      /\ Exists(s) => Completes(q) /\ HasEnded(call[c])
      /\ ~Exists(s) /\ q.status = Running => HasStarted(call[c])
      /\ ~Exists(s) /\ q.status # Running => HasStartedAndEnded(call[c])
  BY CommitAdds
<1>2. HistoryOf(s)
  BY <1>1 DEF SpansInv, HistoryInv
<1>3. spans'[s] = q /\ q # NoSpan /\ (q.status = Running => StartOf(q) = q)
  BY <1>1, ReqIs DEF SpansInv, Types
<1>4. Exists(s)' /\ \A k : Recorded(s, k)' <=>
        k = "SPAN_STARTED" \/ (q.status # Running /\ k = EndKind(q.status))
  BY <1>1, <1>3 DEF Exists, Recorded
<1> DEFINE A == \A k \in Kinds : (\E e \in events' : e.id = <<s, k>>) <=>
                  k = "SPAN_STARTED" \/ (q.status # Running /\ k = EndKind(q.status))
           B == \A e \in events' : e.id = <<s, "SPAN_STARTED">> /\ q.status = Running
                                   => e.payload = q
           C == q.status # Running =>
                  \A e \in events' : e.id = <<s, EndKind(q.status)>> =>
                    /\ e.payload = q
                    /\ \A f \in events' : f.id = <<s, "SPAN_STARTED">> => f.seq < e.seq
<1>5. EndKind(q.status) \in Kinds \ {"SPAN_STARTED"} /\ "SPAN_STARTED" \in Kinds
  BY EndKindIs DEF Kinds
<1>6. ASSUME Exists(s) PROVE A /\ B /\ C
  <2>1. PICK n \in 1 .. MaxSeq : /\ P = {EndAt(q, n)}
                                 /\ \A e \in events : IsStart(e, s) => e.seq < n
    BY <1>1, <1>6 DEF HasEnded
  <2>2. spans[s].status = Running /\ q.status # Running
    BY <1>1, <1>6 DEF Completes
  <2>3. \A k \in Kinds : (\E e \in events : e.id = <<s, k>>) <=> k = "SPAN_STARTED"
    BY <1>2, <1>6, <2>2 DEF HistoryOf, Recorded
  <2>4. \A e \in events' : e \in events \/ e = EndAt(q, n)
    BY <2>1
  <2>5. EndAt(q, n) \in events' /\ events \subseteq events'
    BY <2>1
  <2> HIDE DEF P, s
  <2>6. /\ EndAt(q, n).id = <<s, EndKind(q.status)>>
        /\ EndAt(q, n).payload = q /\ EndAt(q, n).seq = n
    BY LifecycleIs DEF s
  <2>7. A
    BY <1>5, <2>2, <2>3, <2>4, <2>5, <2>6
  <2>8. C
    BY <1>5, <2>1, <2>3, <2>4, <2>6 DEF IsStart
  <2> QED BY <2>2, <2>7, <2>8
<1>7. ASSUME ~Exists(s) PROVE A /\ B /\ C
  <2>1. \A k \in Kinds : ~(\E e \in events : e.id = <<s, k>>)
    BY <1>2, <1>7 DEF HistoryOf, Recorded
  <2>2. CASE q.status = Running
    <3>1. PICK m \in 1 .. MaxSeq : P = {StartAt(q, m)}
      BY <1>1, <1>7, <2>2 DEF HasStarted
    <3>2. \A e : e \in events' <=> e \in events \/ e = StartAt(q, m)
      BY <3>1
    <3> HIDE DEF P, s
    <3>3. StartAt(q, m).id = <<s, "SPAN_STARTED">> /\ StartAt(q, m).payload = q
      BY <1>3, <2>2, LifecycleIs DEF s
    <3> QED BY <1>5, <2>1, <2>2, <3>2, <3>3
  <2>3. CASE q.status # Running
    <3>1. PICK m \in 1 .. MaxSeq, n \in 1 .. MaxSeq :
            m < n /\ P = {StartAt(q, m), EndAt(q, n)}
      BY <1>1, <1>7, <2>3 DEF HasStartedAndEnded
    <3>2. \A e : e \in events' <=> e \in events \/ e = StartAt(q, m) \/ e = EndAt(q, n)
      BY <3>1
    <3> HIDE DEF P, s
    <3>3. /\ StartAt(q, m).id = <<s, "SPAN_STARTED">> /\ StartAt(q, m).seq = m
          /\ EndAt(q, n).id = <<s, EndKind(q.status)>>
          /\ EndAt(q, n).payload = q /\ EndAt(q, n).seq = n
      BY LifecycleIs DEF s
    <3>4. A
      BY <1>5, <2>1, <2>3, <3>2, <3>3
    <3>5. C
      BY <1>5, <2>1, <3>1, <3>2, <3>3
    <3> QED BY <2>3, <3>4, <3>5
  <2> QED BY <2>2, <2>3
<1>8. A /\ B /\ C
  BY <1>6, <1>7
<1> QED BY <1>3, <1>4, <1>8 DEF HistoryOf, IsStart

\* The causes of the span that is committed started before it.
LEMMA OwnCauses ==
  ASSUME SpansInv, NEW c \in Callers, call[c].pc = "commit",
         NEW q \in SpanReq, q = call[c].req,
         events' = events \cup call[c].pend,
         \A r \in SpanIDs : Exists(r) => Exists(r)' /\ spans'[r].exec = spans[r].exec,
         \A r \in SpanIDs : Exists(r) => \A e \in events' : IsStart(e, r) => e \in events
  PROVE  /\ RefsExist(q)'
         /\ \A e \in events' : IsStart(e, q.id) => StartedBefore(q, e.seq)'
<1>1. /\ q.id \in SpanIDs /\ RefsExist(q)
      /\ Exists(q.id) => Completes(q)
      /\ ~Exists(q.id) /\ q.status = Running => HasStarted(call[c])
      /\ ~Exists(q.id) /\ q.status # Running => HasStartedAndEnded(call[c])
  BY CommitAdds
<1>2. \A r \in Refs(q) : r \in SpanIDs /\ Exists(r)
  BY <1>1 DEF RefsExist, Exists
<1>3. RefsExist(q)'
  BY <1>1, <1>2 DEF RefsExist
<1>4. ASSUME NEW n, StartedBefore(q, n) PROVE StartedBefore(q, n)'
  BY <1>2, <1>4 DEF StartedBefore, IsStart
<1>5. ASSUME NEW e \in events', IsStart(e, q.id) PROVE StartedBefore(q, e.seq)
  <2>1. CASE Exists(q.id)
    <3>1. e \in events
      BY <1>1, <1>5, <2>1
    <3>2. StartedBefore(spans[q.id], e.seq)
      BY <1>1, <1>5, <2>1, <3>1 DEF SpansInv, CausalInv
    <3>3. Refs(spans[q.id]) = Refs(q)
      BY <1>1, <2>1 DEF Completes, SameIdentity, Refs
    <3> QED BY <3>2, <3>3 DEF StartedBefore
  <2>2. CASE ~Exists(q.id)
    <3>1. e \notin events
      BY <1>1, <1>5, <2>2
         DEF SpansInv, HistoryInv, HistoryOf, Recorded, IsStart, Kinds
    <3>2. \E m \in 1 .. MaxSeq :
            /\ StartedBefore(q, m)
            /\ \/ call[c].pend = {StartAt(q, m)}
               \/ \E n \in 1 .. MaxSeq : call[c].pend = {StartAt(q, m), EndAt(q, n)}
      BY <1>1, <2>2 DEF HasStarted, HasStartedAndEnded
    <3>3. PICK m \in 1 .. MaxSeq :
            /\ StartedBefore(q, m)
            /\ \/ call[c].pend = {StartAt(q, m)}
               \/ \E n \in 1 .. MaxSeq : call[c].pend = {StartAt(q, m), EndAt(q, n)}
      BY <3>2
    <3>4. e = StartAt(q, m)
      BY <1>5, <3>1, <3>3, LifecycleIs, EndKindIs DEF IsStart
    <3> QED BY <3>3, <3>4, LifecycleIs
  <2> QED BY <2>1, <2>2
<1> QED BY <1>3, <1>4, <1>5

\* A span and its lifecycle event commit together.
LEMMA CommitSpanKeeps ==
  ASSUME SpansInv, NEW c \in Callers, NEW told \in BOOLEAN, CommitSpan(c, told)
  PROVE  SpansInv'
<1>1. PICK q : q = call[c].req
  OBVIOUS
<1>2. /\ call[c].pc = "commit" /\ spans' = [spans EXCEPT ![q.id] = q]
      /\ events' = events \cup call[c].pend /\ Return(c) /\ UNCHANGED <<nextSeq, price>>
      /\ \/ acked' = acked
         \/ acked' = acked \cup {[raw |-> call[c].raw, req |-> q]}
  BY <1>1 DEF CommitSpan, Acknowledge
<1>3. /\ SpanCall(call[c]) /\ q \in SpanReq /\ q.id \in SpanIDs
      /\ Pend(c) = call[c].pend
      /\ Exists(q.id) => Completes(q)
      /\ \A e \in call[c].pend : \E k \in Kinds : e.id = <<q.id, k>>
      /\ Exists(q.id) => \A e \in call[c].pend : ~IsStart(e, q.id)
  BY <1>1, <1>2, CommitAdds
<1>4. /\ \A s \in SpanIDs \ {q.id} : spans'[s] = spans[s]
      /\ spans'[q.id] = q /\ q # NoSpan
  BY <1>2, <1>3, ReqIs DEF SpansInv, Types
<1>5. /\ \A s \in SpanIDs : Exists(s)' <=> Exists(s) \/ s = q.id
      /\ \A s \in SpanIDs : Exists(s) => Exists(s)' /\ spans'[s].exec = spans[s].exec
  BY <1>3, <1>4 DEF Exists, Completes, SameIdentity
<1>6. /\ events \subseteq events'
      /\ \A s \in SpanIDs \ {q.id} : \A e \in events' : \A k \in Kinds :
           e.id = <<s, k>> => e \in events
  BY <1>2, <1>3
<1>7. \A s \in SpanIDs \ {q.id} : \A e \in events' : IsStart(e, s) => e \in events
  BY <1>6 DEF IsStart, Kinds
<1>8. \A s \in SpanIDs : Exists(s) => \A e \in events' : IsStart(e, s) => e \in events
  BY <1>2, <1>3, <1>7
<1>9. Types' /\ LockInv'
  <2>1. /\ DOMAIN call' = Callers /\ call' = [d \in Callers |-> call'[d]]
        /\ \A d \in Callers : call'[d] = call[d] \/ call'[d] = Idle
        /\ spanLock' \in [SpanIDs -> Callers \cup {None}] /\ LockInv'
    BY <1>2, ReturnIs
  <2>2. \A d \in Callers : (call[d] = Idle \/ SpanCall(call[d]) \/ EventCall(call[d]))'
    BY <2>1 DEF SpansInv, Types, SpanCall, EventCall
  <2>3. spans' \in [SpanIDs -> {NoSpan} \cup SpanReq]
    BY <1>2, <1>3 DEF SpansInv, Types
  <2>4. \A s \in SpanIDs : Exists(s)' => spans'[s].id = s
    BY <1>4, <1>5 DEF SpansInv, Types
  <2>5. \A a \in acked' : a.raw \in Requests /\ \E p \in Prices : a.req = Priced(a.raw, p)
    BY <1>1, <1>2, <1>3 DEF SpansInv, Types, SpanCall
  <2>6. nextSeq' \in 1 .. (MaxSeq + 1) /\ price' \in Prices
    BY <1>2 DEF SpansInv, Types
  <2> QED BY <2>1, <2>2, <2>3, <2>4, <2>5, <2>6 DEF Types
<1>10. KnownInv'
  BY <1>2, <1>3, CommitKnown
<1>11. HistoryInv'
  <2>1. HistoryOf(q.id)'
    BY <1>1, <1>2, <1>3, OwnHistory
  <2>2. ASSUME NEW s \in SpanIDs, s # q.id PROVE HistoryOf(s)'
    BY <1>4, <1>6, <2>2, OtherHistory
  <2> QED BY <2>1, <2>2 DEF HistoryInv
<1>12. CausalInv'
  <2>1. /\ RefsExist(q)'
        /\ \A e \in events' : IsStart(e, q.id) => StartedBefore(q, e.seq)'
    BY <1>1, <1>2, <1>3, <1>5, <1>8, OwnCauses
  <2>2. ASSUME NEW s \in SpanIDs \ {q.id}, Exists(s)
        PROVE  /\ RefsExist(spans[s])'
               /\ \A e \in events' : IsStart(e, s) => StartedBefore(spans[s], e.seq)'
    BY <1>4, <1>5, <1>8, <2>2, OtherCauses
  <2>3. /\ RefsExist(spans[q.id])'
        /\ \A e \in events' : IsStart(e, q.id)' => StartedBefore(spans[q.id], e.seq)'
    BY <1>4, <2>1 DEF RefsExist, Refs, StartedBefore, IsStart
  <2> QED BY <1>5, <2>2, <2>3 DEF CausalInv, IsStart
<1>13. CallInv'
  <2>1. \A d \in Callers \ {c} : call[d].pc \in Holding =>
          call[d].req.id \in SpanIDs \ {q.id}
    BY <1>1, <1>2, CallFacts, Exclusive DEF Holding
  <2> QED BY <1>2, <1>4, <1>5, <1>6, <1>7, <1>8, <2>1, CommitCalls
<1>14. AckInv'
  <2>1. Exists(q.id)' /\ Repeats(q)'
    BY <1>3, <1>4, <1>5 DEF Repeats
  <2>2. ASSUME NEW a \in acked PROVE Exists(a.req.id)' /\ Repeats(a.req)'
    <3>1. Exists(a.req.id) /\ Repeats(a.req) /\ a.req.id \in SpanIDs
      BY DEF SpansInv, AckInv, Exists
    <3>2. IsRecordedStart(a.req) => IsRecordedStart(a.req)'
      BY <1>6 DEF IsRecordedStart
    <3>3. CASE a.req.id # q.id
      BY <1>4, <1>5, <3>1, <3>2, <3>3 DEF Repeats, SameIdentity
    <3>4. CASE a.req.id = q.id
      <4>1. Completes(q)
        BY <1>3, <3>1, <3>4
      <4>2. spans[q.id] = a.req /\ a.req.status = Running /\ q.status # Running
        BY <3>1, <3>4, <4>1 DEF Repeats, Completes
      <4>3. IsRecordedStart(a.req)
        <5>1. HistoryOf(q.id) /\ Exists(q.id)
          BY <1>3, <3>1, <3>4 DEF SpansInv, HistoryInv
        <5>2. PICK e \in events : e.id = <<q.id, "SPAN_STARTED">>
          BY <5>1 DEF HistoryOf, Recorded, Kinds
        <5>3. e.payload = a.req
          BY <4>2, <5>1, <5>2 DEF HistoryOf, IsStart
        <5> QED BY <3>4, <5>2, <5>3 DEF IsRecordedStart
      <4>4. SameIdentity(q, a.req)
        BY <4>1, <4>2 DEF Completes, SameIdentity
      <4>5. Repeats(a.req)'
        BY <1>4, <3>2, <3>4, <4>2, <4>3, <4>4 DEF Repeats, SameIdentity
      <4> QED BY <1>5, <3>1, <4>5
    <3> QED BY <3>3, <3>4
  <2> QED BY <1>2, <2>1, <2>2 DEF AckInv
<1> QED BY <1>9, <1>10, <1>11, <1>12, <1>13, <1>14 DEF SpansInv

\* Every step preserves the invariant.
LEMMA NextKeeps == SpansInv /\ [Next]_vars => SpansInv'
<1> SUFFICES ASSUME SpansInv, [Next]_vars PROVE SpansInv'
  OBVIOUS
<1>1. ASSUME NEW c \in Callers, SpanStep(c) PROVE SpansInv'
  BY <1>1, LockSpanKeeps, AcceptRepeatKeeps, ReadSpanKeeps, CheckRefsKeeps,
     InsertStartKeeps, InsertEndKeeps, CommitSpanKeeps, LeaveKeeps DEF SpanStep
<1>2. ASSUME NEW c \in Callers,
             \/ \E q \in Requests : IngestSpan(c, q)
             \/ \E e \in EventRequests : IngestEvent(c, e)
             \/ InsertEvent(c) \/ EventConflict(c) \/ CommitEvent(c) \/ Abort(c)
      PROVE  SpansInv'
  BY <1>2, IngestKeeps, InsertEventKeeps, LeaveKeeps, CommitEventKeeps
<1>3. CASE (\E p \in Prices : SyncPricing(p)) \/ UNCHANGED vars
  BY <1>3, PricingKeeps
<1> QED BY <1>1, <1>2, <1>3 DEF Next

\* The invariant holds in every state.
THEOREM Invariance == Spec => []SpansInv
BY InitInv, NextKeeps, PTL DEF Spec

-----------------------------------------------------------------------------
(* The properties *)

\* A stored span has a start event.
LEMMA StartEventIs ==
  ASSUME SpansInv, NEW s \in SpanIDs, Exists(s)
  PROVE  StartEvent(s) \in events /\ IsStart(StartEvent(s), s)
<1>1. \E e \in events : e.id = <<s, "SPAN_STARTED">>
  BY DEF SpansInv, HistoryInv, HistoryOf, Recorded, Kinds
<1> QED BY <1>1 DEF StartEvent, IsStart

\* InsertSpan, for any number of spans, executions and concurrent calls: parent and
\* causes of a stored span are stored in its execution and started before it, so the
\* graph of spans has no cycle.
THEOREM SpansAreCausal == Spec => []CausalOrder
<1>1. SpansInv => CausalOrder
  <2> SUFFICES ASSUME SpansInv, NEW s \in SpanIDs, Exists(s),
                      NEW r \in Refs(spans[s])
               PROVE  /\ Exists(r) /\ spans[r].exec = spans[s].exec
                      /\ StartEvent(r).seq < StartEvent(s).seq
    BY DEF CausalOrder
  <2>1. /\ RefsExist(spans[s])
        /\ \A e \in events : IsStart(e, s) => StartedBefore(spans[s], e.seq)
    BY DEF SpansInv, CausalInv
  <2>2. Exists(r) /\ spans[r].exec = spans[s].exec /\ r \in SpanIDs
    BY <2>1 DEF RefsExist, Exists
  <2>3. /\ StartEvent(s) \in events /\ IsStart(StartEvent(s), s)
        /\ StartEvent(r) \in events /\ IsStart(StartEvent(r), r)
    BY <2>2, StartEventIs
  <2> QED BY <2>1, <2>2, <2>3 DEF StartedBefore
<1> QED BY <1>1, Invariance, PTL

\* "A RUNNING projection may complete once": the execution_events of a span are its
\* start and, exactly if the projection has finished, one end that holds it.
THEOREM ProjectionMatchesHistory == Spec => []HistoryMatches
<1>1. SpansInv => HistoryMatches
  <2> SUFFICES ASSUME SpansInv, NEW s \in SpanIDs
               PROVE  /\ ~Exists(s) => KindsOf(s) = {}
                      /\ Exists(s) /\ spans[s].status = Running
                           => KindsOf(s) = {"SPAN_STARTED"}
                      /\ Exists(s) /\ spans[s].status # Running =>
                           /\ KindsOf(s) = {"SPAN_STARTED", EndKind(spans[s].status)}
                           /\ \A e \in events :
                                e.id = <<s, EndKind(spans[s].status)>> =>
                                  e.payload = spans[s] /\ e.seq > StartEvent(s).seq
    BY DEF HistoryMatches
  <2>1. HistoryOf(s)
    BY DEF SpansInv, HistoryInv
  <2>2. \A e \in events : IsLifecycle(e) \/ IsClients(e)
    BY DEF SpansInv, KnownInv, Known
  <2>3. \A e \in events : e.id = <<s, e.kind>> => e.kind \in Kinds
    BY <2>2 DEF IsLifecycle, IsClients
  <2>4. \A e \in events, k \in Kinds : e.id = <<s, k>> => e.kind = k
    BY <2>2, LifecycleID
  <2>5. \A k : k \in KindsOf(s) <=> k \in Kinds /\ Recorded(s, k)
    <3> SUFFICES ASSUME NEW k PROVE k \in KindsOf(s) <=> k \in Kinds /\ Recorded(s, k)
      OBVIOUS
    <3>1. k \in KindsOf(s) <=> \E e \in events : e.id = <<s, e.kind>> /\ e.kind = k
      BY DEF KindsOf
    <3>2. k \in KindsOf(s) => k \in Kinds /\ \E e \in events : e.id = <<s, k>>
      BY <2>3, <3>1
    <3>3. k \in Kinds /\ (\E e \in events : e.id = <<s, k>>) => k \in KindsOf(s)
      BY <2>4, <3>1
    <3>4. k \in Kinds => ((\E e \in events : e.id = <<s, k>>) <=> Recorded(s, k))
      BY <2>1 DEF HistoryOf
    <3> QED BY <3>2, <3>3, <3>4
  <2>6. EndKind(spans[s].status) \in Kinds /\ "SPAN_STARTED" \in Kinds
    BY EndKindIs DEF Kinds
  <2>7. ~Exists(s) => KindsOf(s) = {}
    BY <2>5 DEF Recorded
  <2>8. Exists(s) /\ spans[s].status = Running => KindsOf(s) = {"SPAN_STARTED"}
    BY <2>5, <2>6 DEF Recorded
  <2>9. Exists(s) /\ spans[s].status # Running
          => KindsOf(s) = {"SPAN_STARTED", EndKind(spans[s].status)}
    BY <2>5, <2>6 DEF Recorded
  <2>10. ASSUME Exists(s), spans[s].status # Running, NEW e \in events,
                e.id = <<s, EndKind(spans[s].status)>>
         PROVE  e.payload = spans[s] /\ e.seq > StartEvent(s).seq
    <3>1. e.payload = spans[s] /\ \A f \in events : IsStart(f, s) => f.seq < e.seq
      BY <2>1, <2>10 DEF HistoryOf
    <3>2. StartEvent(s) \in events /\ IsStart(StartEvent(s), s)
      BY <2>10, StartEventIs
    <3>3. e.seq \in Int /\ StartEvent(s).seq \in Int
      BY <3>2 DEF SpansInv, KnownInv, Known
    <3> QED BY <3>1, <3>2, <3>3
  <2> QED BY <2>7, <2>8, <2>9, <2>10
<1> QED BY <1>1, Invariance, PTL

\* telemetry_write.go, "a duplicate event ID never rewrites history": one event for an
\* id and for a sequence number, and every accepted request among them, whichever
\* calls raced, were repeated or died.
THEOREM HistoryIsOnceAndComplete == Spec => []RecordedOnce
<1>1. SpansInv => TypeOK
  <2> SUFFICES ASSUME SpansInv PROVE TypeOK
    OBVIOUS
  <2>1. \A e \in events : e.seq \in 1 .. (nextSeq - 1)
    BY DEF SpansInv, KnownInv, Known
  <2> QED BY <2>1 DEF SpansInv, Types, LockInv, TypeOK, Holding
<1>2. SpansInv => EventOnce
  BY DEF SpansInv, KnownInv, Known, EventOnce
<1>3. SpansInv => AckedIsRecorded
  <2> SUFFICES ASSUME SpansInv, NEW a \in acked
               PROVE  \E e \in events : e.span = a.req.id /\ e.payload = a.req
    BY DEF AckedIsRecorded
  <2> DEFINE q == a.req
             s == q.id
  <2>1. Exists(s) /\ Repeats(q) /\ s \in SpanIDs
    BY DEF SpansInv, AckInv, Exists
  <2>2. HistoryOf(s)
    BY <2>1 DEF SpansInv, HistoryInv
  <2>3. \A e \in events : IsLifecycle(e) \/ IsClients(e)
    BY DEF SpansInv, KnownInv, Known
  <2>4. \A e \in events, k \in Kinds : e.id = <<s, k>> => e.span = s
    BY <2>1, <2>3, LifecycleID
  <2>5. EndKind(spans[s].status) \in Kinds /\ "SPAN_STARTED" \in Kinds
    BY EndKindIs DEF Kinds
  <2>6. CASE spans[s] = q /\ q.status = Running
    <3>1. PICK e \in events : e.id = <<s, "SPAN_STARTED">>
      BY <2>1, <2>2, <2>5 DEF HistoryOf, Recorded
    <3> QED BY <2>2, <2>4, <2>5, <2>6, <3>1 DEF HistoryOf, IsStart
  <2>7. CASE spans[s] = q /\ q.status # Running
    <3>1. PICK e \in events : e.id = <<s, EndKind(spans[s].status)>>
      BY <2>1, <2>2, <2>5, <2>7 DEF HistoryOf, Recorded
    <3> QED BY <2>1, <2>2, <2>4, <2>5, <2>7, <3>1 DEF HistoryOf
  <2>8. CASE IsRecordedStart(q)
    BY <2>4, <2>5, <2>8 DEF IsRecordedStart
  <2> QED BY <2>1, <2>6, <2>7, <2>8 DEF Repeats
<1>4. SpansInv => RecordedOnce
  BY <1>1, <1>2, <1>3 DEF RecordedOnce
<1> QED BY <1>4, Invariance, PTL

\* ADR-003, "retrying its original start or completion is safe", where the cost does
\* not come from the pricing table: what was accepted once is not refused later.
THEOREM PricedRetriesAreSafe == Spec => []PricedRetryIsSafe
<1>1. SpansInv => PricedRetryIsSafe
  <2> SUFFICES ASSUME SpansInv, NEW c \in Callers, Retries(c),
                      call[c].raw.content \notin Unpriced, Refuses(call[c])
               PROVE  FALSE
    BY DEF PricedRetryIsSafe
  <2>1. PICK a \in acked : a.raw = call[c].raw
    BY DEF Retries
  <2>2. call[c].pc \in {"read", "refs"}
    BY DEF Retries
  <2>3. SpanCall(call[c]) /\ SpanCallOK(call[c])
    BY <2>2, CallFacts DEF Holding
  <2>4. a.req = call[c].req
    <3>1. PICK p \in Prices : call[c].req = Priced(call[c].raw, p)
      BY <2>3 DEF SpanCall
    <3>2. PICK r \in Prices : a.req = Priced(a.raw, r)
      BY DEF SpansInv, Types
    <3>3. call[c].raw \in Requests
      BY <2>3 DEF SpanCall
    <3> QED BY <2>1, <3>1, <3>2, <3>3, PricedOnce
  <2>5. Exists(call[c].req.id) /\ Repeats(call[c].req)
    BY <2>4 DEF SpansInv, AckInv
  <2>6. CASE call[c].pc = "read"
    BY <2>5, <2>6 DEF Refuses
  <2>7. CASE call[c].pc = "refs"
    BY <2>3, <2>5, <2>7 DEF SpanCallOK, Completes, Repeats
  <2> QED BY <2>2, <2>6, <2>7
<1> QED BY <1>1, Invariance, PTL

\* "finished content cannot be rewritten": no step changes a finished span or takes
\* an event out of the history.
THEOREM FinishedStays == Spec => FinishedIsFinal
<1> DEFINE Kept == /\ events \subseteq events'
                   /\ \A s \in SpanIDs : spans[s].status \notin {"none", Running}
                                         => spans'[s] = spans[s]
<1>1. ASSUME SpansInv, [Next]_vars PROVE Kept
  <2>1. ASSUME NEW c \in Callers, NEW told \in BOOLEAN, CommitSpan(c, told) PROVE Kept
    <3>1. /\ call[c].pc = "commit" /\ events \subseteq events'
          /\ spans' = [spans EXCEPT ![call[c].req.id] = call[c].req]
      BY <2>1 DEF CommitSpan
    <3>2. /\ call[c].req.id \in SpanIDs
          /\ Exists(call[c].req.id) => Completes(call[c].req)
      BY <1>1, <3>1, CommitAdds
    <3>3. spans[call[c].req.id].status \in {"none", Running}
      BY <1>1, <3>2 DEF Exists, Completes, NoSpan
    <3> QED BY <1>1, <3>1, <3>3 DEF SpansInv, Types
  <2>2. CASE events \subseteq events' /\ UNCHANGED spans
    BY <2>2
  <2>3. ASSUME NEW c \in Callers, SpanStep(c) PROVE Kept
    BY <2>1, <2>2, <2>3 DEF SpanStep, LockSpan, AcceptRepeat, ReadSpan, CheckRefs,
                            InsertStart, InsertEnd, Refuse
  <2>4. ASSUME NEW c \in Callers,
               \/ \E q \in Requests : IngestSpan(c, q)
               \/ \E e \in EventRequests : IngestEvent(c, e)
               \/ InsertEvent(c) \/ EventConflict(c) \/ CommitEvent(c) \/ Abort(c)
        PROVE  Kept
    BY <2>2, <2>4 DEF IngestSpan, IngestEvent, InsertEvent, EventConflict, CommitEvent,
                      Abort
  <2>5. CASE (\E p \in Prices : SyncPricing(p)) \/ UNCHANGED vars
    BY <2>2, <2>5 DEF SyncPricing, vars
  <2> HIDE DEF Kept
  <2> QED BY <1>1, <2>3, <2>4, <2>5 DEF Next
<1>2. SpansInv /\ [Next]_vars => [Kept]_vars
  BY <1>1
<1> QED BY <1>2, Invariance, PTL DEF Spec, FinishedIsFinal

=============================================================================
