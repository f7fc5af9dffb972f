-------------------------- MODULE CollectorSession --------------------------
(***************************************************************************)
(* How the Claude Code collector maps one hook of a session to the new     *)
(* session state and to the operations it will send (mapping.go, state.go, *)
(* otel.go).  Handlers run in a hookTransaction: they send nothing         *)
(* themselves, so each is a function of the hook and the loaded state.     *)
(*                                                                         *)
(* A hook is a record: id (of its journal), ev, tool (the correlation      *)
(* key), size (of its payload), usage (it carries model usage) and error   *)
(* (the tool response reports one).  Names, texts and times are left out.  *)
(***************************************************************************)
EXTENDS Naturals, Sequences, FiniteSets

CONSTANTS
  None,     \* an empty string field
  NoSpan,   \* the span id of a zero SpanStart
  Turn,     \* the key "__turn__"
  Unkeyed   \* tools whose hooks carry no tool_use_id: the key is their name

HookEvents ==
  {"session-start", "prompt", "pre-tool", "post-tool", "post-tool-failure",
   "permission", "subagent-stop", "notify", "stop", "session-end"}

NoState == [exec |-> None, turn |-> None, pending |-> <<>>, done |-> {},
            closed |-> FALSE]

\* newSpanID in the preparation n of a hook: two preparations never agree.
NewSpanID(h, n, role) == <<h.id, n, role>>

\* The idempotency key derives from the persisted hook id.  The server answers
\* a start with the execution of that key, so the key names the execution.
ExecutionKey(h, n) == <<h.id, 0>>

\* PendingSpans, in the order in which the keys came: the entry of a key, if any.
Pending(st, key) ==
  {st.pending[i] : i \in {j \in DOMAIN st.pending : st.pending[j].key = key}}

Entry(st, key) == CHOOSE p \in Pending(st, key) : TRUE

Start(key, span, parent) == [key |-> key, span |-> span, parent |-> parent]

\* delete(st.PendingSpans, key): a key has at most one entry.
Drop(st, key) ==
  LET q == st.pending
      at == {j \in DOMAIN q : q[j].key = key}
      i == CHOOSE j \in at : TRUE
  IN  IF at = {} THEN st
      ELSE [st EXCEPT !.pending = SubSeq(q, 1, i - 1) \o SubSeq(q, i + 1, Len(q))]

Put(st, p) == [st EXCEPT !.pending = Append(Drop(st, p.key).pending, p)]

Reset(st) == IF st.closed THEN NoState ELSE st

\* Session state after ensureExecution: a closed session starts over.
EnsureExecution(h, n, st) ==
  LET r == Reset(st)
  IN  IF r.exec = None THEN [r EXCEPT !.exec = ExecutionKey(h, n)] ELSE r

Span(id, status, parent, size) ==
  [id |-> id, status |-> status, parent |-> parent, size |-> size]

Bytes(spans) ==
  LET sum[i \in 0 .. Len(spans)] ==
        IF i = 0 THEN 0 ELSE sum[i - 1] + spans[i].size
  IN  sum[Len(spans)]

SpansOp(exec, spans) == [kind |-> "spans", exec |-> exec, spans |-> spans]
EndOp(exec, h) == [kind |-> "end_execution", exec |-> exec, by |-> h.id]
AuditOp(h, n) == [kind |-> "audit", id |-> NewSpanID(h, n, "audit")]

\* A span joins the last batch, or starts the next one when it does not fit.
Packed(done, exec, span, limit) ==
  LET last == done[Len(done)].spans
  IN  IF done # <<>> /\ Bytes(last) + span.size <= limit
      THEN [done EXCEPT ![Len(done)].spans = Append(@, span)]
      ELSE Append(done, SpansOp(exec, <<span>>))

\* Batches are split at span boundaries.
Batches(exec, spans, limit) ==
  LET ops[i \in 0 .. Len(spans)] ==
        IF i = 0 THEN <<>> ELSE Packed(ops[i - 1], exec, spans[i], limit)
  IN  ops[Len(spans)]

\* A point-in-time MODEL_INVOCATION span when the hook carries usage.
ModelSpan(h, n, parent) ==
  IF h.usage
  THEN <<Span(NewSpanID(h, n, "model"), "COMPLETED", parent, 1)>>
  ELSE <<>>

Result(st, ops) == [state |-> st, ops |-> ops]

HandleSessionStart(h, n, st, limit) ==
  Result(EnsureExecution(h, n, st), <<AuditOp(h, n)>>)

\* Mutant: the turn is sent only when it is complete.
HandleUserPromptLate(h, n, st, limit) ==
  LET r == EnsureExecution(h, n, st)
      turn == NewSpanID(h, n, "turn")
  IN  Result(Put([r EXCEPT !.turn = turn], Start(Turn, turn, None)),
             <<AuditOp(h, n)>>)

\* The turn is ingested as RUNNING before any children.
HandleUserPrompt(h, n, st, limit) ==
  LET r == EnsureExecution(h, n, st)
      turn == NewSpanID(h, n, "turn")
  IN  Result(Put([r EXCEPT !.turn = turn], Start(Turn, turn, None)),
             Batches(r.exec, <<Span(turn, "RUNNING", None, h.size)>>, limit)
               \o <<AuditOp(h, n)>>)

\* A tool that is known to have started or finished is not started again.
KnownTool(h, st) == \/ h.tool \in st.done \ Unkeyed
                    \/ Pending(st, h.tool) # {}

\* The start is recorded before ensureExecution, which may reset the state and
\* with it the record that is read back.
HandlePreTool(h, n, st, limit) ==
  IF KnownTool(h, st) THEN Result(st, <<>>)
  ELSE LET s == Start(h.tool, NewSpanID(h, n, "tool"), st.turn)
           r == EnsureExecution(h, n, Put(st, s))
           back == IF Pending(r, h.tool) # {} THEN s
                   ELSE Start(h.tool, NoSpan, None)
       IN  Result(Put(r, back),
                  Batches(r.exec,
                          <<Span(back.span, "RUNNING", r.turn, h.size)>>,
                          limit))

\* The response reports an error, an error status or a non-zero exit code.
ToolCallFailed(h) == h.error

\* A completion without a recorded start makes up its own.
HandlePostTool(h, n, st, limit) ==
  IF h.tool \in st.done \ Unkeyed THEN Result(st, <<>>)
  ELSE LET s == IF Pending(st, h.tool) # {}
                THEN Entry(st, h.tool)
                ELSE Start(h.tool, NewSpanID(h, n, "tool"), st.turn)
           r == EnsureExecution(h, n, [Drop(st, h.tool) EXCEPT
                                         !.done = @ \cup ({h.tool} \ Unkeyed)])
           status == IF h.ev = "post-tool-failure" \/ ToolCallFailed(h)
                     THEN "FAILED" ELSE "COMPLETED"
       IN  Result(r, Batches(r.exec,
                             <<Span(s.span, status, s.parent, h.size)>>
                               \o ModelSpan(h, n, s.parent), limit)
                       \o <<AuditOp(h, n)>>)

\* A point-in-time span in the turn, and an audit event.
Point(h, n, st, limit) ==
  LET r == EnsureExecution(h, n, st)
  IN  Result(r, Batches(r.exec, <<Span(NewSpanID(h, n, "point"), "COMPLETED",
                                       r.turn, h.size)>>, limit)
                  \o <<AuditOp(h, n)>>)

HandlePermission(h, n, st, limit) == Point(h, n, st, limit)

HandleSubagentStop(h, n, st, limit) == Point(h, n, st, limit)

HandleNotification(h, n, st, limit) == Result(st, <<AuditOp(h, n)>>)

\* The audit event of the turn and its model usage, if any.
EmitTurnComplete(h, n, exec, turn, limit) ==
  <<AuditOp(h, n)>> \o Batches(exec, ModelSpan(h, n, turn), limit)

HandleStop(h, n, st, limit) ==
  LET r == EnsureExecution(h, n, st)
      open == Pending(r, Turn) # {}
      id == IF open THEN Entry(r, Turn).span ELSE None
      close == IF ~open THEN <<>>
               ELSE <<Span(id, "COMPLETED", None, h.size)>>
  IN  Result([Drop(r, Turn) EXCEPT !.turn = None],
             Batches(r.exec, close, limit)
               \o EmitTurnComplete(h, n, r.exec, id, limit))

\* Mutant: what is still open is left to the server.
CancelledNone(st) == <<>>

\* Spans without a completion hook are cancelled.
Cancelled(st) ==
  [i \in DOMAIN st.pending |->
     Span(st.pending[i].span, "CANCELLED", st.pending[i].parent, 1)]

HandleSessionEnd(h, n, st, limit) ==
  LET known == st.exec # None
  IN  Result([st EXCEPT !.closed = TRUE],
             (IF known THEN Batches(st.exec, Cancelled(st), limit) ELSE <<>>)
             \o (IF known THEN <<EndOp(st.exec, h)>> ELSE <<>>)
             \o <<AuditOp(h, n)>>)

\* dispatchHook: state and operations of preparation n of hook h.
DispatchHook(h, n, st, limit) ==
  CASE h.ev = "session-start" -> HandleSessionStart(h, n, st, limit)
    [] h.ev = "prompt" -> HandleUserPrompt(h, n, st, limit)
    [] h.ev = "pre-tool" -> HandlePreTool(h, n, st, limit)
    [] h.ev \in {"post-tool", "post-tool-failure"}
         -> HandlePostTool(h, n, st, limit)
    [] h.ev = "permission" -> HandlePermission(h, n, st, limit)
    [] h.ev = "subagent-stop" -> HandleSubagentStop(h, n, st, limit)
    [] h.ev = "notify" -> HandleNotification(h, n, st, limit)
    [] h.ev = "stop" -> HandleStop(h, n, st, limit)
    [] h.ev = "session-end" -> HandleSessionEnd(h, n, st, limit)

\* The handler calls startExecution: it ends with another execution.
StartsExecution(h, n, st, limit) ==
  DispatchHook(h, n, st, limit).state.exec \notin {None, st.exec}
=============================================================================
