------------------------------- MODULE Spans -------------------------------
(***************************************************************************)
(* Ingesting spans and execution events: ingestion.Service.IngestSpans and *)
(* IngestEvents over Store.InsertSpan, InsertEvent and insertEventTx.      *)
(*                                                                         *)
(* A span request starts a span, completes a running one or records a      *)
(* finished one at once.  InsertSpan is one transaction under an advisory  *)
(* lock of the span id; its statements interleave with the transactions of *)
(* other callers, and it may abort at each of them.  The spans table is a  *)
(* projection: execution_events keeps a snapshot of every transition.      *)
(*                                                                         *)
(* A request keeps: span id, execution, the fields a retry may not change  *)
(* (name, type and start time, one value ident), parent, causes, status    *)
(* and content (metadata, detail and error).  The client's own events have *)
(* ids other than the lifecycle ids that the server derives.               *)
(***************************************************************************)
EXTENDS Integers, FiniteSets

CONSTANTS
  Callers,       \* concurrent requests
  Requests,      \* the valid spans clients send
  EventRequests, \* the valid events clients send
  Unpriced,      \* contents with token counts and without a cost
  Prices,        \* states of the pricing table
  None,          \* no parent, no cost, nobody
  MaxSeq         \* bound on execution_events.sequence_number

ASSUME RequestsAssumption ==
  \A q \in Requests :
    DOMAIN q = {"id", "exec", "ident", "parent", "causes", "status", "content"}
ASSUME MaxSeqAssumption == MaxSeq \in Nat
ASSUME NoneAssumption == None \notin Callers

Running == "RUNNING"
SpanIDs == {q.id : q \in Requests}

\* GenerateEventID is a digest that no client's event id is equal to.
ASSUME EventIDsAssumption ==
  \A e \in EventRequests :
    e.id \notin SpanIDs \X {"SPAN_STARTED", "SPAN_ENDED", "SPAN_FAILED",
                          "SPAN_CANCELLED", e.kind}

NoSpan == [status |-> "none"]
Idle == [pc |-> "idle"]

VARIABLES
  spans,        \* the tables spans and span_causality
  events,       \* the table execution_events
  nextSeq,      \* the next value of its sequence
  spanLock,     \* holder of the advisory lock of each span id
  price,        \* the active pricing table
  call,         \* local state of each caller
  acked         \* accepted requests, as sent and as stored

vars == <<spans, events, nextSeq, spanLock, price, call, acked>>

Init ==
  /\ spans = [s \in SpanIDs |-> NoSpan]
  /\ events = {}
  /\ nextSeq = 1
  /\ spanLock = [s \in SpanIDs |-> None]
  /\ price \in Prices
  /\ call = [c \in Callers |-> Idle]
  /\ acked = {}

-----------------------------------------------------------------------------
Exists(s) == s \in SpanIDs /\ spans[s] # NoSpan

Refs(q) == q.causes \cup ({q.parent} \ {None})

\* enrichModelInvocationCost: the cost is filled in when the span arrives.
Enrich(q) ==
  [q EXCEPT !.content = [data |-> @, cost |-> IF @ \in Unpriced THEN price
                                              ELSE None]]

\* The SPAN_STARTED snapshot, also of a span that arrives finished.
StartOf(q) == [q EXCEPT !.status = Running]

EndKind(status) ==
  CASE status = "FAILED"    -> "SPAN_FAILED"
    [] status = "CANCELLED" -> "SPAN_CANCELLED"
    [] OTHER                -> "SPAN_ENDED"

Lifecycle(q, kind, payload) ==
  [id |-> <<q.id, kind>>, exec |-> q.exec, span |-> q.id, kind |-> kind,
   payload |-> payload, seq |-> nextSeq]

SameIdentity(old, q) ==
  old.exec = q.exec /\ old.ident = q.ident /\ old.parent = q.parent

IsRecordedStart(q) ==
  \E e \in events : e.id = <<q.id, "SPAN_STARTED">> /\ e.payload = q

\* Mutant: a start that arrives after the end is always refused.
RepeatsExact(q) == spans[q.id] = q

\* Mutant: a request for a known span with the same identity counts as stored.
RepeatsIdentity(q) == SameIdentity(spans[q.id], q)

\* The request is stored already: it equals the projection, or it is the
\* recorded start of a span that has finished since.
Repeats(q) ==
  \/ spans[q.id] = q
  \/ /\ SameIdentity(spans[q.id], q)
     /\ spans[q.id].status # Running
     /\ q.status = Running /\ IsRecordedStart(q)

\* Mutant: a finished span can be completed again.
CompletesAgain(q) ==
  /\ SameIdentity(spans[q.id], q)
  /\ q.status # Running
  /\ spans[q.id].causes = q.causes

\* The request completes the running span it names.
Completes(q) ==
  /\ SameIdentity(spans[q.id], q)
  /\ spans[q.id].status = Running /\ q.status # Running
  /\ spans[q.id].causes = q.causes

\* Mutant: the references are checked in no particular execution.
RefsExistAnywhere(q) == \A r \in Refs(q) : r # q.id /\ Exists(r)

RefsExist(q) ==
  \A r \in Refs(q) : r # q.id /\ Exists(r) /\ spans[r].exec = q.exec

-----------------------------------------------------------------------------
(* InsertSpan *)

IngestSpan(c, q) ==
  /\ call[c].pc = "idle"
  /\ call' = [call EXCEPT ![c] =
       [pc |-> "lock", raw |-> q, req |-> Enrich(q), pend |-> {}]]
  /\ UNCHANGED <<spans, events, nextSeq, spanLock, price, acked>>

Goto(c, label) == call' = [call EXCEPT ![c].pc = label]

\* Mutant: the advisory lock is left out.
LockSpanIgnored(c) ==
  /\ call[c].pc = "lock"
  /\ Goto(c, "read")
  /\ UNCHANGED <<spans, events, nextSeq, spanLock, price, acked>>

\* SELECT pg_advisory_xact_lock(GetAdvisoryLockKey("span:" + id))
LockSpan(c) ==
  /\ call[c].pc = "lock"
  /\ spanLock[call[c].req.id] = None
  /\ spanLock' = [spanLock EXCEPT ![call[c].req.id] = c]
  /\ Goto(c, "read")
  /\ UNCHANGED <<spans, events, nextSeq, price, acked>>

\* The call is over and its transaction with it.
Return(c) ==
  /\ call' = [call EXCEPT ![c] = Idle]
  /\ spanLock' = [s \in SpanIDs |-> IF spanLock[s] = c THEN None
                                    ELSE spanLock[s]]

Acknowledge(c) ==
  acked' = acked \cup {[raw |-> call[c].raw, req |-> call[c].req]}

\* A retry of what is stored is accepted without effect.
AcceptRepeat(c) ==
  /\ call[c].pc = "read"
  /\ Exists(call[c].req.id) /\ Repeats(call[c].req)
  /\ Acknowledge(c)
  /\ Return(c)
  /\ UNCHANGED <<spans, events, nextSeq, price>>

\* A new span, or the completion of a running one.
ReadSpan(c) ==
  /\ call[c].pc = "read"
  /\ LET q == call[c].req IN Exists(q.id) => ~Repeats(q) /\ Completes(q)
  /\ Goto(c, "refs")
  /\ UNCHANGED <<spans, events, nextSeq, spanLock, price, acked>>

CheckRefs(c) ==
  /\ call[c].pc = "refs"
  /\ RefsExist(call[c].req)
  /\ Goto(c, IF Exists(call[c].req.id) THEN "end" ELSE "start")
  /\ UNCHANGED <<spans, events, nextSeq, spanLock, price, acked>>

\* Insert the row, its causality and SPAN_STARTED.
InsertStart(c) ==
  LET q == call[c].req IN
    /\ call[c].pc = "start"
    /\ nextSeq <= MaxSeq
    /\ nextSeq' = nextSeq + 1
    /\ call' = [call EXCEPT
         ![c].pc = IF q.status = Running THEN "commit" ELSE "end",
         ![c].pend = {Lifecycle(q, "SPAN_STARTED", StartOf(q))}]
    /\ UNCHANGED <<spans, events, spanLock, price, acked>>

\* Update the row if it is an old one, and insert the closing event.
InsertEnd(c) ==
  LET q == call[c].req IN
    /\ call[c].pc = "end"
    /\ nextSeq <= MaxSeq
    /\ nextSeq' = nextSeq + 1
    /\ call' = [call EXCEPT
         ![c].pc = "commit",
         ![c].pend = @ \cup {Lifecycle(q, EndKind(q.status), q)}]
    /\ UNCHANGED <<spans, events, spanLock, price, acked>>

CommitSpan(c, told) ==
  /\ call[c].pc = "commit"
  /\ spans' = [spans EXCEPT ![call[c].req.id] = call[c].req]
  /\ events' = events \cup call[c].pend
  /\ IF told THEN Acknowledge(c) ELSE UNCHANGED acked
  /\ Return(c)
  /\ UNCHANGED <<nextSeq, price>>

Owned(e) == Exists(e.span) /\ spans[e.span].exec = e.exec

\* The error returns of InsertSpan, and that of insertEventTx for an event
\* whose span is not in its execution.
Refuses(z) ==
  \/ /\ z.pc = "read"
     /\ Exists(z.req.id) /\ ~Repeats(z.req) /\ ~Completes(z.req)
  \/ z.pc = "refs" /\ ~RefsExist(z.req)
  \/ z.pc = "event" /\ ~Owned(z.ev)

Refuse(c) ==
  /\ Refuses(call[c])
  /\ Return(c)
  /\ UNCHANGED <<spans, events, nextSeq, price, acked>>

\* A statement fails, the request is cancelled or the process dies.
Abort(c) ==
  /\ call[c].pc # "idle"
  /\ Return(c)
  /\ UNCHANGED <<spans, events, nextSeq, price, acked>>

-----------------------------------------------------------------------------
(* InsertEvent *)

IngestEvent(c, e) ==
  /\ call[c].pc = "idle"
  /\ call' = [call EXCEPT ![c] = [pc |-> "event", ev |-> e, pend |-> {}]]
  /\ UNCHANGED <<spans, events, nextSeq, spanLock, price, acked>>

\* INSERT ... ON CONFLICT (id) DO NOTHING waits for an open transaction that
\* has inserted the same id.
Blocked(c, e) ==
  \E d \in Callers \ {c} : call[d].pc # "idle"
                           /\ \E f \in call[d].pend : f.id = e.id

Conflicts(e) == \E f \in events : f.id = e.id

\* The id is known: equal content is accepted, other content refused, and
\* either way only a sequence number is lost.
EventConflict(c) ==
  /\ call[c].pc = "event"
  /\ nextSeq <= MaxSeq
  /\ Owned(call[c].ev) /\ ~Blocked(c, call[c].ev) /\ Conflicts(call[c].ev)
  /\ nextSeq' = nextSeq + 1
  /\ Return(c)
  /\ UNCHANGED <<spans, events, price, acked>>

\* The id is new: the event gets the next sequence number.
InsertEvent(c) ==
  /\ call[c].pc = "event"
  /\ nextSeq <= MaxSeq
  /\ LET e == call[c].ev IN
       /\ Owned(e) /\ ~Blocked(c, e) /\ ~Conflicts(e)
       /\ call' = [call EXCEPT ![c].pc = "eventCommit", ![c].pend =
            {[id |-> e.id, exec |-> e.exec, span |-> e.span, kind |-> e.kind,
              payload |-> e.payload, seq |-> nextSeq]}]
  /\ nextSeq' = nextSeq + 1
  /\ UNCHANGED <<spans, events, spanLock, price, acked>>

CommitEvent(c) ==
  /\ call[c].pc = "eventCommit"
  /\ events' = events \cup call[c].pend
  /\ Return(c)
  /\ UNCHANGED <<spans, nextSeq, price, acked>>

-----------------------------------------------------------------------------
\* UpdatePricingFromRemote, once a day and at every start of the process.
SyncPricing(p) ==
  /\ price # p
  /\ price' = p
  /\ UNCHANGED <<spans, events, nextSeq, spanLock, call, acked>>

SpanStep(c) ==
  \/ LockSpan(c) \/ AcceptRepeat(c) \/ ReadSpan(c) \/ CheckRefs(c)
  \/ InsertStart(c) \/ InsertEnd(c)
  \/ \E told \in BOOLEAN : CommitSpan(c, told)
  \/ Refuse(c)

Next ==
  \/ \E c \in Callers :
       \/ \E q \in Requests : IngestSpan(c, q)
       \/ SpanStep(c)
       \/ \E e \in EventRequests : IngestEvent(c, e)
       \/ InsertEvent(c) \/ EventConflict(c) \/ CommitEvent(c)
       \/ Abort(c)
  \/ \E p \in Prices : SyncPricing(p)

Spec == Init /\ [][Next]_vars

-----------------------------------------------------------------------------
(* Properties *)

\* Locks are held by calls in progress, and no event is ahead of the counter.
TypeOK ==
  /\ nextSeq \in 1 .. (MaxSeq + 1)
  /\ \A s \in SpanIDs :
       /\ Exists(s) => spans[s].id = s
       /\ spanLock[s] # None =>
            /\ spanLock[s] \in Callers
            /\ call[spanLock[s]].pc \in {"read", "refs", "start", "end", "commit"}
            /\ call[spanLock[s]].req.id = s
  /\ \A e \in events : e.seq \in 1 .. (nextSeq - 1)

StartEvent(s) == CHOOSE e \in events : e.id = <<s, "SPAN_STARTED">>

\* InsertSpan: parent and causes of a span are stored in the same execution
\* and started earlier in its event sequence.  The graph of spans is acyclic,
\* and a replay in sequence order meets every span after those it refers to.
CausalOrder ==
  \A s \in SpanIDs : Exists(s) =>
    \A r \in Refs(spans[s]) :
      /\ Exists(r) /\ spans[r].exec = spans[s].exec
      /\ StartEvent(r).seq < StartEvent(s).seq

KindsOf(s) == {e.kind : e \in {f \in events : f.id = <<s, f.kind>>}}

\* "A RUNNING projection may complete once": the history of a span holds its
\* start and, exactly if it has finished, one end, which is the projection.
HistoryMatches ==
  \A s \in SpanIDs :
    /\ ~Exists(s) => KindsOf(s) = {}
    /\ Exists(s) /\ spans[s].status = Running => KindsOf(s) = {"SPAN_STARTED"}
    /\ Exists(s) /\ spans[s].status # Running =>
         /\ KindsOf(s) = {"SPAN_STARTED", EndKind(spans[s].status)}
         /\ \A e \in events :
              e.id = <<s, EndKind(spans[s].status)>> =>
                e.payload = spans[s] /\ e.seq > StartEvent(s).seq

\* "finished content cannot be rewritten": neither is any recorded event.
FinishedIsFinal ==
  [][/\ events \subseteq events'
     /\ \A s \in SpanIDs : spans[s].status \notin {"none", Running}
                           => spans'[s] = spans[s]]_vars

\* "A duplicate event ID never rewrites history": concurrent requests with
\* one event id leave one event.
EventOnce == \A e, f \in events : e.id = f.id \/ e.seq = f.seq => e = f

\* Every accepted span request is part of the immutable history, also one
\* that was accepted as a retry, or overtaken by the completion.
AckedIsRecorded ==
  \A a \in acked : \E e \in events : e.span = a.req.id /\ e.payload = a.req

\* telemetry_write.go: every accepted request is in the history, and the history
\* holds one event for an id and for a sequence number.
RecordedOnce == TypeOK /\ EventOnce /\ AckedIsRecorded

Retries(c) == call[c].pc \in {"read", "refs"}
              /\ \E a \in acked : a.raw = call[c].raw

\* ADR-003: "retrying its original start or completion is safe": of a span
\* with a cost of its own, or no tokens, a request that was accepted once is
\* not refused later.
PricedRetryIsSafe ==
  \A c \in Callers :
    Retries(c) /\ call[c].raw.content \notin Unpriced => ~Refuses(call[c])

\* ADR-003 in full: "retrying its original start or completion is safe".
RetryIsSafe == \A c \in Callers : Retries(c) => ~Refuses(call[c])

=============================================================================
