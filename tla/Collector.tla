------------------------------ MODULE Collector ------------------------------
(***************************************************************************)
(* The collector of the Claude Code plugin: hook processes journal each    *)
(* hook in the spool directory, detached workers drain the spool under     *)
(* drain.lock, and a process may die between any two file operations or    *)
(* requests (spool.go, main.go).  One step is one durable write or one     *)
(* request.  The server is reduced to what decides whether a repeated or   *)
(* early operation is accepted.                                            *)
(***************************************************************************)
EXTENDS CollectorSession, TLC

CONSTANTS
  Sessions,
  Workers,     \* collector processes running "flush"
  Scripts,     \* sets of hooks a run of Claude Code sends, per session
  SpoolLimit,  \* spoolLimit(cfg), in units of size
  Limits,      \* request limits the user configures, in this order
  MaxCheckouts, \* bound on changes of the session's working copy
  MaxPrices,   \* bound on changes of the server's price table
  MaxFaults    \* bound on crashes, lost answers and failed requests

ASSUME CollectorAssumption ==
  /\ SpoolLimit \in Nat /\ MaxFaults \in Nat
  /\ MaxCheckouts \in Nat /\ MaxPrices \in Nat
  /\ Limits \in Seq(Nat) /\ Len(Limits) > 0
  /\ None \notin Workers
  /\ \A c \in Scripts : \A s \in Sessions :
       /\ DOMAIN c = Sessions /\ Len(c[s]) \in Nat
       /\ \A i \in 1 .. Len(c[s]) : c[s][i].ev \in HookEvents

\* No tool has the key of the turn, and no execution is none.
ASSUME KeysAssumption ==
  \A c \in Scripts : \A s \in Sessions : \A i \in 1 .. Len(c[s]) :
    (c[s][i].ev = "pre-tool" => c[s][i].tool # Turn) /\ None # <<<<s, i>>, 0>>

VARIABLES
  script,   \* the hooks of each session
  pos,      \* hooks that session has raised
  order,    \* ids of journalled hooks, by file name
  journal,  \* the spool directory: hook id -> envelope
  junk,     \* size of temporary files left behind by dead processes
  files,    \* session state files
  cfg,      \* index of the configured request limit
  git,      \* what ReadGitInfo finds: branch and commit, as a version
  prices,   \* the server's price table, as a version
  lock,     \* holder of drain.lock
  w,        \* the workers
  srv,      \* the server
  applied,  \* history: operations the server has applied
  reported, \* history: hooks in capture-error.json
  faults

vars == <<script, pos, order, journal, junk, files, cfg, git, prices, lock, w, srv,
          applied, reported, faults>>

Limit == Limits[cfg]

\* Hook ids are pairs of session and number.
HookOf(id) ==
  LET h == script[id[1]][id[2]]
  IN  [id |-> id, ev |-> h.ev, tool |-> h.tool, size |-> h.size,
       usage |-> h.usage, error |-> h.error]

NewEnvelope(id) ==
  [id |-> id, prepared |-> FALSE, state |-> NoState, ops |-> <<>>, next |-> 0,
   permanent |-> FALSE, key |-> 0, nonce |-> 0]

OpBytes(op) == IF op.kind = "spans" THEN Bytes(op.spans) ELSE 1

EnvelopeBytes(e) ==
  LET sum[i \in 0 .. Len(e.ops)] ==
        IF i = 0 THEN HookOf(e.id).size ELSE sum[i - 1] + OpBytes(e.ops[i])
  IN  sum[Len(e.ops)]

OtherBytes(id) ==
  LET sum[i \in 0 .. Len(order)] ==
        IF i = 0 THEN junk
        ELSE sum[i - 1] + IF order[i] \in DOMAIN journal \ {id}
                          THEN EnvelopeBytes(journal[order[i]]) ELSE 0
  IN  sum[Len(order)]

\* writeEnvelope: everything else in the directory counts, leftovers included.
Fits(e) == OtherBytes(e.id) + EnvelopeBytes(e) <= SpoolLimit

Written(e) ==
  [id \in DOMAIN journal \cup {e.id} |-> IF id = e.id THEN e ELSE journal[id]]

(***************************************************************************)
(* The server: a start is idempotent by key as long as its metadata are    *)
(* the same, audit events are by id, spans as module Spans describes, and  *)
(* an execution ends once.                                                 *)
(***************************************************************************)
Stored(s, id) == {x \in s.spans : x.id = id}

\* enrichModelInvocationCost: the price table by which a span is estimated, if
\* it carries token counts.  The collector states no cost.
Cost(x) == IF x.id[3] = "model" THEN prices ELSE 0

\* A finished span is accepted again only if nothing in it has changed, its
\* estimate included.
SpanAccepted(s, x) ==
  /\ x.parent = None \/ Stored(s, x.parent) # {}
  /\ \A old \in Stored(s, x.id) :
       \/ "RUNNING" \in {old.status, x.status}
       \/ x.status = old.status /\ Cost(x) = old.cost

StoreSpan(s, exec, x) ==
  IF \E old \in Stored(s, x.id) : old.status # "RUNNING" THEN s
  ELSE [s EXCEPT !.spans = (@ \ Stored(s, x.id)) \cup
          {[id |-> x.id, exec |-> exec, status |-> x.status, cost |-> Cost(x)]}]

\* Items of a batch are accepted or refused one by one; an item without a start
\* time makes the whole request invalid.
IngestSpans(op) ==
  LET item[i \in 0 .. Len(op.spans)] ==
        IF i = 0 THEN [srv |-> srv, result |-> "ok"]
        ELSE LET a == item[i - 1] IN
             IF SpanAccepted(a.srv, op.spans[i])
             THEN [a EXCEPT !.srv = StoreSpan(@, op.exec, op.spans[i])]
             ELSE [a EXCEPT !.result = "permanent"]
  IN  IF \/ op.exec \notin srv.execs
         \/ \E i \in DOMAIN op.spans : op.spans[i].id = NoSpan
      THEN [srv |-> srv, result |-> "permanent"]
      ELSE item[Len(op.spans)]

EndExecutionAt(op) ==
  IF \E e \in srv.ends : e.exec = op.exec /\ e.by # op.by
  THEN [srv |-> srv, result |-> "conflict"]
  ELSE [srv |-> [srv EXCEPT !.ends = @ \cup {[exec |-> op.exec, by |-> op.by]}],
        result |-> "ok"]

Applied(op) ==
  CASE op.kind = "spans" -> IngestSpans(op)
    [] op.kind = "end_execution" -> EndExecutionAt(op)
    [] op.kind = "audit" -> [srv |-> [srv EXCEPT !.audits = @ \cup {op.id}],
                             result |-> "ok"]

Oversize(op, limit) == OpBytes(op) > limit

\* deliverOperation: an oversize operation is not sent at all.
Answer(op) == IF Oversize(op, Limit) THEN [srv |-> srv, result |-> "permanent"]
              ELSE Applied(op)

(***************************************************************************)
(* Capture: Claude Code waits for the hook process of a session, not for   *)
(* other sessions.                                                         *)
(***************************************************************************)
NextHook(s) == <<s, pos[s] + 1>>

Raises(s) == /\ pos[s] < Len(script[s])
             /\ pos' = [pos EXCEPT ![s] = @ + 1]
             /\ UNCHANGED <<script, files, cfg, git, prices, lock, w, srv, applied>>

EnqueueHook(s) ==
  /\ Raises(s)
  /\ Fits(NewEnvelope(NextHook(s)))
  /\ journal' = Written(NewEnvelope(NextHook(s)))
  /\ order' = Append(order, NextHook(s))
  /\ UNCHANGED <<junk, reported, faults>>

\* The spool is full: recordCaptureFailure.
RefuseHook(s) ==
  /\ Raises(s)
  /\ ~Fits(NewEnvelope(NextHook(s)))
  /\ reported' = reported \cup {NextHook(s)}
  /\ UNCHANGED <<order, journal, junk, faults>>

\* The hook process dies after it has written its temporary file.
HookDies(s) ==
  /\ Raises(s)
  /\ Fits(NewEnvelope(NextHook(s)))
  /\ faults < MaxFaults
  /\ faults' = faults + 1
  /\ junk' = junk + HookOf(NextHook(s)).size
  /\ UNCHANGED <<order, journal, reported>>

Reconfigure ==
  /\ cfg < Len(Limits)
  /\ cfg' = cfg + 1
  /\ UNCHANGED <<script, pos, order, journal, junk, files, git, prices, lock, w, srv,
                 applied, reported, faults>>

\* The user commits or changes the branch.
Checkout ==
  /\ git < MaxCheckouts
  /\ git' = git + 1
  /\ UNCHANGED <<script, pos, order, journal, junk, files, cfg, prices, lock, w, srv,
                 applied, reported, faults>>

\* The server gets another price table.
Reprice ==
  /\ prices < MaxPrices
  /\ prices' = prices + 1
  /\ UNCHANGED <<script, pos, order, journal, junk, files, cfg, git, lock, w, srv,
                 applied, reported, faults>>

(***************************************************************************)
(* drainHooks                                                              *)
(***************************************************************************)
Idle == [pc |-> "idle", todo |-> {}, env |-> NewEnvelope(None), blocked |-> {},
         git |-> 0]

\* What no step of a worker changes.
capture == <<script, pos, order, cfg, git, prices>>

LockFree == lock = None

\* The directory is listed once, after the lock is taken.
StartDrain(p) ==
  /\ w[p].pc = "idle" /\ LockFree
  /\ DOMAIN journal # {}
  /\ lock' = p
  /\ w' = [w EXCEPT ![p] = [Idle EXCEPT !.pc = "next", !.todo = DOMAIN journal]]
  /\ UNCHANGED <<capture, journal, junk, files, srv, applied, reported, faults>>

\* Mutant: the lock outlives the pass.
ReturnHolding(p) == w' = [w EXCEPT ![p] = Idle] /\ lock' = lock

\* unlockFile is deferred, and the kernel releases the lock of a dead process.
Return(p) == w' = [w EXCEPT ![p] = Idle] /\ lock' = None

Holds(p, pc) == w[p].pc = pc

\* The entries are taken by file name, which is the order of their capture.
FirstOf(S) ==
  CHOOSE id \in S : \E i \in DOMAIN order :
    order[i] = id /\ \A j \in DOMAIN order : order[j] \in S => i <= j

\* An earlier hook of the session failed in this pass, or this one failed for
\* good and nothing has been reconfigured since.
HeldBack(p, e) == \/ e.id[1] \in w[p].blocked
                  \/ e.permanent /\ e.key = cfg

EndDrain(p) ==
  /\ Holds(p, "next") /\ w[p].todo = {}
  /\ Return(p)
  /\ UNCHANGED <<capture, journal, junk, files, srv, applied, reported, faults>>

SkipEntry(p) ==
  /\ Holds(p, "next") /\ w[p].todo # {}
  /\ LET e == journal[FirstOf(w[p].todo)]
     IN  /\ HeldBack(p, e)
         /\ w' = [w EXCEPT ![p].todo = @ \ {e.id}, ![p].blocked = @ \cup {e.id[1]}]
  /\ UNCHANGED <<capture, journal, junk, files, lock, srv, applied, reported,
                 faults>>

\* Mutant: hooks are mapped again after a restart.
AfterReadAgain(e) == "prepare"

AfterRead(e) == IF e.prepared THEN "save" ELSE "prepare"

\* The git information is read once per preparation, before the request that
\* starts the execution; nothing else that the worker reads depends on it.
ReadEntry(p) ==
  /\ Holds(p, "next") /\ w[p].todo # {}
  /\ LET e == journal[FirstOf(w[p].todo)]
     IN  /\ ~HeldBack(p, e)
         /\ w' = [w EXCEPT ![p].todo = @ \ {e.id}, ![p].env = e,
                    ![p].pc = AfterRead(e), ![p].git = git]
  /\ UNCHANGED <<capture, journal, junk, files, lock, srv, applied, reported,
                 faults>>

HookAt(p) == HookOf(w[p].env.id)
StateAt(p) == files[w[p].env.id[1]]

Starts(p) == Holds(p, "prepare") /\ StartsExecution(HookAt(p), faults, StateAt(p), Limit)

\* startExecution reaches the server, which keeps the metadata; its answer is
\* used by PrepareHook.
StartExecution(p) ==
  /\ Starts(p)
  /\ LET key == ExecutionKey(HookAt(p), faults)
     IN  /\ key \notin srv.execs
         /\ srv' = [srv EXCEPT !.execs = @ \cup {key},
                              !.git = (key :> w[p].git) @@ @]
  /\ UNCHANGED <<capture, journal, junk, files, lock, w, applied, reported,
                 faults>>

Prepared(e) ==
  LET r == DispatchHook(HookOf(e.id), faults, files[e.id[1]], Limit)
  IN  [e EXCEPT !.prepared = TRUE, !.state = r.state, !.ops = r.ops,
                !.nonce = faults]

PreparedEnvelope(p) == Prepared(w[p].env)

Executable(e) == e.state.exec = None \/ e.state.exec \in srv.execs

\* InsertExecution: the execution is there, with other metadata.
OtherInput(key, version) == key \in srv.execs /\ srv.git[key] # version

StartConflicts(p) ==
  Starts(p) /\ OtherInput(ExecutionKey(HookAt(p), faults), w[p].git)

\* An earlier preparation has started the execution and the working copy has
\* changed since: the hook stays unprepared, and the pass ends.
StartRefused(p) ==
  /\ StartConflicts(p)
  /\ reported' = reported \cup {w[p].env.id}
  /\ Return(p)
  /\ UNCHANGED <<capture, journal, junk, files, srv, applied, faults>>

\* prepareHook and the write of the prepared envelope.
PrepareHook(p) ==
  /\ Holds(p, "prepare") /\ Executable(PreparedEnvelope(p)) /\ ~StartConflicts(p)
  /\ Fits(PreparedEnvelope(p))
  /\ journal' = Written(PreparedEnvelope(p))
  /\ w' = [w EXCEPT ![p].env = PreparedEnvelope(p), ![p].pc = "save"]
  /\ UNCHANGED <<capture, junk, files, lock, srv, applied, reported, faults>>

\* The prepared envelope does not fit: the pass ends.
PrepareFull(p) ==
  /\ Holds(p, "prepare") /\ Executable(PreparedEnvelope(p)) /\ ~StartConflicts(p)
  /\ ~Fits(PreparedEnvelope(p))
  /\ reported' = reported \cup {w[p].env.id}
  /\ Return(p)
  /\ UNCHANGED <<capture, journal, junk, files, srv, applied, faults>>

SaveState(p) ==
  /\ Holds(p, "save")
  /\ files' = [files EXCEPT ![w[p].env.id[1]] = w[p].env.state]
  /\ w' = [w EXCEPT ![p].pc = "deliver"]
  /\ UNCHANGED <<capture, journal, junk, lock, srv, applied, reported, faults>>

Op(p) == w[p].env.ops[w[p].env.next + 1]
Undelivered(p) == Holds(p, "deliver") /\ w[p].env.next < Len(w[p].env.ops)

\* Operation number idx of "of", mapped by preparation nonce of the hook.
Record(p) == [hook |-> w[p].env.id, nonce |-> w[p].env.nonce,
              idx |-> w[p].env.next + 1, of |-> Len(w[p].env.ops)]

Deliver(p) ==
  /\ Undelivered(p) /\ Answer(Op(p)).result = "ok"
  /\ srv' = Answer(Op(p)).srv
  /\ applied' = applied \cup {Record(p)}
  /\ w' = [w EXCEPT ![p].pc = "record"]
  /\ UNCHANGED <<capture, journal, junk, files, lock, reported, faults>>

\* The operation is on record as delivered before the next one is sent.
RecordDelivery(p) ==
  /\ Holds(p, "record")
  /\ LET e == [w[p].env EXCEPT !.next = @ + 1, !.permanent = FALSE]
     IN  /\ Fits(e)
         /\ journal' = Written(e)
         /\ w' = [w EXCEPT ![p].env = e, ![p].pc = "deliver"]
  /\ UNCHANGED <<capture, junk, files, lock, srv, applied, reported, faults>>

\* Leftovers have filled the spool meanwhile: the pass ends, and the next one
\* delivers the operation again.
RecordFull(p) ==
  /\ Holds(p, "record") /\ ~Fits(w[p].env)
  /\ reported' = reported \cup {w[p].env.id}
  /\ Return(p)
  /\ UNCHANGED <<capture, journal, junk, files, srv, applied, faults>>

\* The failure is recorded in the envelope if that still fits, and reported.
Fail(p, permanent) ==
  LET e == [w[p].env EXCEPT !.permanent = permanent, !.key = cfg]
  IN  /\ journal' = IF Fits(e) THEN Written(e) ELSE journal
      /\ reported' = reported \cup {e.id}

\* A permanent failure holds back the session; the pass goes on.
DeliverRefused(p) ==
  /\ Undelivered(p) /\ Answer(Op(p)).result = "permanent"
  /\ srv' = Answer(Op(p)).srv
  /\ Fail(p, TRUE)
  /\ w' = [w EXCEPT ![p].pc = "next", ![p].blocked = @ \cup {w[p].env.id[1]}]
  /\ UNCHANGED <<capture, junk, files, lock, applied, faults>>

\* doJSON retries transport errors, 429 and 5xx answers with the same payload.
\* When it gives up, an attempt may still have reached the server.
Reached(a) == {FALSE, a.result = "ok"}

\* Any other failure ends the pass.  The request may have been applied; a
\* conflict is final on the server but not one of the permanent answers.
DeliverFails(p) ==
  /\ Undelivered(p)
  /\ LET a == Answer(Op(p))
     IN  \E reached \in Reached(a) :
           /\ a.result = "conflict" \/ faults < MaxFaults
           /\ faults' = IF a.result = "conflict" THEN faults ELSE faults + 1
           /\ srv' = IF reached THEN a.srv ELSE srv
           /\ applied' = IF reached THEN applied \cup {Record(p)} ELSE applied
  /\ Fail(p, FALSE)
  /\ Return(p)
  /\ UNCHANGED <<capture, junk, files>>

\* Mutant: the journal goes although an operation is left.
FinishedEarly(p) == w[p].env.next + 1 >= Len(w[p].env.ops)

Finished(p) == w[p].env.next = Len(w[p].env.ops)

RemoveEntry(p) ==
  /\ Holds(p, "deliver") /\ Finished(p)
  /\ journal' = [k \in DOMAIN journal \ {w[p].env.id} |-> journal[k]]
  /\ w' = [w EXCEPT ![p].pc = IF w[p].env.state.closed THEN "clear" ELSE "next"]
  /\ UNCHANGED <<capture, junk, files, lock, srv, applied, reported, faults>>

ClearState(p) ==
  /\ Holds(p, "clear")
  /\ files' = [files EXCEPT ![w[p].env.id[1]] = NoState]
  /\ w' = [w EXCEPT ![p].pc = "next"]
  /\ UNCHANGED <<capture, journal, junk, lock, srv, applied, reported, faults>>

\* The process is killed, its deadline passes, or a file operation fails.  While
\* an envelope is being replaced, its temporary file stays behind.
WorkerDies(p) ==
  /\ w[p].pc # "idle" /\ faults < MaxFaults
  /\ faults' = faults + 1
  /\ \/ junk' = junk
     \/ Holds(p, "record") /\ junk' = junk + EnvelopeBytes(w[p].env)
  /\ Return(p)
  /\ UNCHANGED <<capture, journal, files, srv, applied, reported>>

WorkerStep(p) ==
  \/ SkipEntry(p) \/ ReadEntry(p) \/ StartExecution(p) \/ StartRefused(p)
  \/ PrepareHook(p) \/ PrepareFull(p) \/ SaveState(p) \/ Deliver(p) \/ RecordDelivery(p)
  \/ RecordFull(p) \/ DeliverRefused(p) \/ RemoveEntry(p) \/ ClearState(p) \/ EndDrain(p)

Init ==
  /\ script \in Scripts
  /\ pos = [s \in Sessions |-> 0]
  /\ order = <<>>
  /\ journal = <<>>
  /\ junk = 0
  /\ files = [s \in Sessions |-> NoState]
  /\ cfg = 1
  /\ git = 0 /\ prices = 0
  /\ lock = None
  /\ w = [p \in Workers |-> Idle]
  /\ srv = [execs |-> {}, git |-> <<>>, spans |-> {}, ends |-> {}, audits |-> {}]
  /\ applied = {}
  /\ reported = {}
  /\ faults = 0

Next ==
  \/ \E s \in Sessions : EnqueueHook(s) \/ RefuseHook(s) \/ HookDies(s)
  \/ Reconfigure \/ Checkout \/ Reprice
  \/ \E p \in Workers : StartDrain(p) \/ WorkerStep(p) \/ DeliverFails(p)
                          \/ WorkerDies(p)

Spec == Init /\ [][Next]_vars

\* Workers are started by every hook and by the user's "flush"; a running one
\* goes on.
Fairness == \A p \in Workers : WF_vars(StartDrain(p)) /\ WF_vars(WorkerStep(p))

FairSpec == Spec /\ Fairness

(***************************************************************************)
(* Properties                                                              *)
(***************************************************************************)
Captured == {order[i] : i \in DOMAIN order}

Gone(id) == id \in Captured /\ id \notin DOMAIN journal

OpsOf(id) == {r \in applied : r.hook = id}

Before(a, b) == a[1] = b[1] /\ a[2] < b[2]

\* Types of the variables.
TypeOK ==
  /\ pos \in [Sessions -> Nat]
  /\ Captured \subseteq Sessions \X Nat
  /\ DOMAIN journal \subseteq Captured
  /\ \A id \in DOMAIN journal : journal[id].next <= Len(journal[id].ops)
  /\ lock \in Workers \cup {None}
  /\ \A p \in Workers : w[p].pc # "idle" <=> lock = p
  /\ faults \in 0 .. MaxFaults /\ cfg \in DOMAIN Limits

\* A journal is removed only when all of its operations have been applied; only
\* a repeated hook of a tool has none (spool.go:338).
NothingLost ==
  \A id \in Captured : Gone(id) =>
    \/ \E r \in OpsOf(id) : {q.idx : q \in OpsOf(id)} = 1 .. r.of
    \/ /\ HookOf(id).ev \in {"pre-tool", "post-tool", "post-tool-failure"}
       /\ OpsOf(id) = {}

\* A crash at a delivery boundary replays the same ids and payloads, never a
\* freshly mapped event (spool.go:9).
ExactReplay == \A q, r \in applied : q.hook = r.hook => q.nonce = r.nonce

\* Operations of a session are applied in the order its hooks were captured.
InOrder ==
  \A r \in applied :
    /\ \A i \in 1 .. r.idx : [r EXCEPT !.idx = i] \in applied
    /\ \A id \in Captured : Before(id, r.hook) => Gone(id)

\* What the server applies of a session is one sequence of prepared operations,
\* however often the collector dies and sends again (spool.go:9).
ReplayInOrder == TypeOK /\ ExactReplay /\ InOrder

\* An execution started on the server is never orphaned: its hook will be
\* prepared again with the same key, the session refers to it, or it has ended.
ExecutionsUsed ==
  \A x \in srv.execs :
    \/ x[1] \in DOMAIN journal
    \/ files[x[1][1]].exec = x
    \/ \E e \in srv.ends : e.exec = x

\* Everything the operation carries is on the server.
AlreadyThere(op) ==
  /\ op.kind = "spans"
  /\ \A i \in DOMAIN op.spans :
       \E old \in Stored(srv, op.spans[i].id) : old.status = op.spans[i].status

\* A start that ensureExecution has wiped together with the closed state of the
\* session, and that was read back without an id (mapping.go:301).
WipedStart(op) ==
  op.kind = "spans" /\ \E i \in DOMAIN op.spans : op.spans[i].id = NoSpan

\* What is refused for good is too large, or has been stored by an earlier
\* delivery whose estimate differs, or is a wiped start: neither the order of
\* delivery nor a repetition ever costs the server a span (deadletter.go:324).
RefusalsExplained ==
  \A id \in DOMAIN journal : journal[id].permanent =>
    LET op == journal[id].ops[journal[id].next + 1]
    IN  Oversize(op, Limits[journal[id].key]) \/ AlreadyThere(op) \/ WipedStart(op)

\* A tool span is not left RUNNING under an execution that has ended.
ToolsAreClosed ==
  \A x \in srv.spans : \A e \in srv.ends :
    x.exec = e.exec /\ x.id[3] = "tool" => x.status # "RUNNING"

\* mapping.go leaves nothing open behind: no execution that no session knows,
\* and no running tool span under an execution that has ended.
NoOrphans == ExecutionsUsed /\ ToolsAreClosed

\* The documented form, for all spans: incomplete spans are marked CANCELLED
\* when the session ends without a completion hook.
NoRunningChildren ==
  \A x \in srv.spans : \A e \in srv.ends :
    x.exec = e.exec => x.status # "RUNNING"

Waiting(s) == {id \in DOMAIN journal : id[1] = s}

\* The hooks with which the sessions go on.
Firsts(s) == {id \in Waiting(s) : \A other \in Waiting(s) : id[2] <= other[2]}

\* The envelope with which the first hook of some session goes on does not fit.
SpoolStuck ==
  \E s \in Sessions : \E id \in Firsts(s) :
    ~Fits(IF journal[id].prepared THEN journal[id] ELSE Prepared(journal[id]))

\* The session has been started for its first hook, from another working copy.
StartStuck(s) ==
  \E id \in Firsts(s) :
    /\ ~journal[id].prepared
    /\ StartsExecution(HookOf(id), faults, files[s], Limit)
    /\ OtherInput(ExecutionKey(HookOf(id), faults), git)

Refused(s) == \E id \in Waiting(s) : journal[id].permanent

\* Every captured hook is delivered, unless an operation of its session is
\* refused for good, the spool has no room to go on (spool.go:143) or the start
\* of some session meets other metadata (spool.go:305): no other refusal holds
\* back other sessions, and a dead worker holds back none.
Drained ==
  \A s \in Sessions :
    []<>(\/ Waiting(s) = {} \/ Refused(s) \/ SpoolStuck
         \/ \E r \in Sessions : StartStuck(r))

\* "A permanent failure holds later hooks for that session"
\* (claude-code-plugin/README.md:51): a session is not held back by another one.
HeldByItself ==
  \A s \in Sessions :
    []<>(Waiting(s) = {} \/ Refused(s) \/ SpoolStuck \/ StartStuck(s))

\* The same without the exception for a full spool.
AlwaysDrained ==
  \A s \in Sessions :
    []<>(Waiting(s) = {} \/ Refused(s))
=============================================================================
