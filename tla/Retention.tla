----------------------------- MODULE Retention -----------------------------
(***************************************************************************)
(* The retention sweeper of every API instance, over the tables of one     *)
(* tenant: recorded telemetry, audit events and copilot transcripts.  Each *)
(* statement of a sweep is a step of its own, and a statement that touches *)
(* a full batch is issued again.  The installed schema rejects updates and *)
(* deletes of recorded history; a statement that is rejected ends the part *)
(* of the sweep it belongs to, and the sweep goes on with the next part.   *)
(* Recorded telemetry is the day of each span: a span is inserted together *)
(* with the events of its lifecycle, which bear its time.                  *)
(***************************************************************************)
EXTENDS Copilot, FiniteSetsExt

CONSTANTS
  Sweepers,         \* instances that run a sweeper
  BatchSize,        \* rows of one statement
  RetentionDays,    \* plans.retention_days of the tenant and of the free plan
  TranscriptDays,   \* plans.copilot_transcript_retention_days
  MaxRows           \* bound on recorded spans and on audit events

ASSUME RetentionAssumption ==
  /\ BatchSize \in Nat \ {0} /\ RetentionDays \in Nat /\ TranscriptDays \in Nat
  /\ MaxRows \in Nat

VARIABLES
  executions,   \* days of executions without a span
  spanRows,     \* days of spans; each has a lifecycle event of the same day
  auditRows,    \* days of audit events that are not tombstoned
  recorded,     \* days of the spans and audit events ever recorded
  sweep,        \* the statement each sweeper is at
  auditSwept,   \* the day sweepAudit last returned
  chosen,       \* the sessions that each sweeper's DELETE has selected
  overtaken     \* history: sessions written to while a DELETE had selected them

sweptRows == <<executions, spanRows, auditRows>>
deleting == <<chosen, overtaken>>
retVars == <<today, copTables, copCall, copHistory, sweptRows, recorded, sweep, auditSwept, deleting>>
copUntouched == <<today, copTables, copCall, copHistory>>

RetentionInit ==
  /\ CopilotInit
  /\ executions = {} /\ spanRows = {} /\ auditRows = {}
  /\ recorded = [spans |-> {}, audit |-> {}]
  /\ sweep = [w \in Sweepers |-> "idle"]
  /\ auditSwept = 0
  /\ chosen = [w \in Sweepers |-> {}] /\ overtaken = {}

(***************************************************************************)
(* What is recorded meanwhile.                                             *)
(***************************************************************************)

RecordAudit ==
  /\ Cardinality(auditRows) < MaxRows
  /\ auditRows' = auditRows \cup {today}
  /\ recorded' = [recorded EXCEPT !.audit = @ \cup {today}]
  /\ UNCHANGED <<copUntouched, executions, spanRows, sweep, auditSwept, deleting>>

RecordExecution ==
  /\ executions' = executions \cup {today}
  /\ UNCHANGED <<copUntouched, spanRows, auditRows, recorded, sweep, auditSwept, deleting>>

\* The first span of an execution that has none.
RecordSpan ==
  /\ Cardinality(spanRows) < MaxRows
  /\ \E d \in executions : executions' = executions \ {d}
  /\ spanRows' = spanRows \cup {today}
  /\ recorded' = [recorded EXCEPT !.spans = @ \cup {today}]
  /\ UNCHANGED <<copUntouched, auditRows, sweep, auditSwept, deleting>>

(***************************************************************************)
(* The sweep.                                                              *)
(***************************************************************************)

\* The batches a statement with LIMIT may touch.
Batches(rows) ==
  IF Cardinality(rows) <= BatchSize THEN {rows} ELSE kSubset(BatchSize, rows)

Drained(batch) == Cardinality(batch) < BatchSize

Old(rows, days) == {d \in rows : d + days < today}

SweepAt(w, pc) == sweep' = [sweep EXCEPT ![w] = pc]

\* The loop around a statement: again after a full batch, else on to the next.
Looped(w, batch, next) == SweepAt(w, IF Drained(batch) THEN next ELSE sweep[w])

BeginSweep(w) ==
  /\ sweep[w] = "idle" /\ SweepAt(w, "events")
  /\ UNCHANGED <<copUntouched, sweptRows, recorded, auditSwept, deleting>>

\* trg_events_no_delete, trg_audit_no_update: any row of a statement raises.
AppendOnly(rows) == rows # {}

\* DELETE FROM execution_events.
SweepEvents(w) ==
  /\ sweep[w] = "events"
  /\ LET rows == Old(spanRows, RetentionDays) IN
     \/ AppendOnly(rows) /\ SweepAt(w, "audit") /\ UNCHANGED spanRows
     \/ /\ ~AppendOnly(rows)
        /\ \E batch \in Batches(rows) :
             spanRows' = spanRows \ batch /\ Looped(w, batch, "executions")
  /\ UNCHANGED <<copUntouched, executions, auditRows, recorded, auditSwept, deleting>>

\* DELETE FROM spans and span_causality find no row when no event was old;
\* DELETE FROM executions takes those without a span.
SweepExecutions(w) ==
  /\ sweep[w] = "executions"
  /\ \E batch \in Batches(Old(executions, RetentionDays)) :
       executions' = executions \ batch /\ Looped(w, batch, "audit")
  /\ UNCHANGED <<copUntouched, spanRows, auditRows, recorded, auditSwept, deleting>>

\* UPDATE audit_events: tombstones a batch.
SweepAudit(w) ==
  /\ sweep[w] = "audit"
  /\ LET rows == Old(auditRows, RetentionDays) IN
     \/ AppendOnly(rows) /\ SweepAt(w, "messages") /\ UNCHANGED auditRows
     \/ /\ ~AppendOnly(rows)
        /\ \E batch \in Batches(rows) :
             auditRows' = auditRows \ batch /\ Looped(w, batch, "messages")
  /\ auditSwept' = IF sweep'[w] = "messages" THEN today ELSE auditSwept
  /\ UNCHANGED <<copUntouched, executions, spanRows, recorded, deleting>>

OldCopilot(rows) == {m \in rows : m[2] + TranscriptDays < today}

RedactMessages(w) ==
  /\ sweep[w] = "messages"
  /\ \E batch \in Batches(OldCopilot(transcript)) :
       transcript' = transcript \ batch /\ Looped(w, batch, "sessions")
  /\ UNCHANGED <<today, touched, copCall, copHistory, sweptRows, recorded, auditSwept, deleting>>

\* Not updated within the resume window, and no message left to read.
Ended(s) == Exists(s) /\ touched[s] + ResumeDays < today /\ \A m \in transcript : m[1] # s

\* The subquery of the DELETE, on the statement's snapshot.
ChooseSessions(w) ==
  /\ sweep[w] = "sessions"
  /\ \E batch \in Batches({s \in Sessions : Ended(s)}) : chosen' = [chosen EXCEPT ![w] = batch]
  /\ SweepAt(w, "delete")
  /\ UNCHANGED <<copUntouched, sweptRows, recorded, auditSwept, overtaken>>

\* The rows with the selected ids go, also when they have been written to since: the
\* subquery is not evaluated again for them.  Messages go with their session.
DeleteSessions(w) ==
  /\ sweep[w] = "delete"
  /\ LET batch == {s \in chosen[w] : Exists(s)} IN
     /\ touched' = [s \in Sessions |-> IF s \in batch THEN NoDay ELSE touched[s]]
     /\ transcript' = {m \in transcript : m[1] \notin batch}
     /\ SweepAt(w, IF Drained(batch) THEN "idle" ELSE "sessions")
  /\ chosen' = [chosen EXCEPT ![w] = {}]
  /\ UNCHANGED <<today, copCall, copHistory, sweptRows, recorded, auditSwept, overtaken>>

\* The process ends; what its statements did stays.
SweeperStops(w) ==
  /\ sweep[w] # "idle" /\ SweepAt(w, "idle")
  /\ chosen' = [chosen EXCEPT ![w] = {}]
  /\ UNCHANGED <<copUntouched, sweptRows, recorded, auditSwept, overtaken>>

\* What a step of a request writes to.
Written ==
  {s \in Sessions : \/ touched'[s] # touched[s]
                    \/ \E m \in transcript' : m[1] = s /\ m \notin transcript}

UseCopilot ==
  /\ CopilotNext
  /\ overtaken' = overtaken \cup (Written \cap UNION {chosen[w] : w \in Sweepers})
  /\ UNCHANGED <<sweptRows, recorded, sweep, auditSwept, chosen>>

RecordHistory == RecordAudit \/ RecordExecution \/ RecordSpan

Sweep ==
  \E w \in Sweepers :
       \/ BeginSweep(w) \/ SweepEvents(w) \/ SweepExecutions(w) \/ SweepAudit(w)
       \/ RedactMessages(w) \/ ChooseSessions(w) \/ DeleteSessions(w)
       \/ SweeperStops(w)

RetentionNext == UseCopilot \/ RecordHistory \/ Sweep

RetentionSpec == RetentionInit /\ [][RetentionNext]_retVars

-----------------------------------------------------------------------------

\* Type correctness; messages never outlive their session, which the foreign
\* key and its cascade see to.
RetentionTypeOK ==
  /\ today \in 0..FinalDay /\ auditSwept \in 0..today
  /\ touched \in [Sessions -> 0..NoDay]
  /\ \A m \in transcript : Exists(m[1]) /\ m[2] <= today
  /\ executions \subseteq 0..today /\ spanRows \subseteq 0..today /\ auditRows \subseteq 0..today

\* docs/adr/004-append-only-storage.md: "PostgreSQL triggers reject UPDATE and
\* DELETE on audit_events and execution_events".  Whatever the sweepers do, in
\* any order, every recorded audit event and span keeps what was recorded.
HistoryStays == auditRows = recorded.audit /\ spanRows = recorded.spans

\* copilot/service.go: sessions can be resumed for sessionTTL.  A session whose
\* creation or append was answered can be resumed for that long after the
\* answer, however sweeps of several instances and other requests interleave,
\* unless it was written to during the very DELETE that takes it.
AnsweredIsResumable ==
  \A s \in Sessions \ overtaken :
    ackDay[s] # NoDay /\ today <= ackDay[s] + ResumeDays => Resumable(s)

\* A message whose append was answered with 201 stays as it was written until its
\* transcript retention ends: until then it is neither redacted nor, with the same
\* exception, deleted with its session.
TranscriptIsKept ==
  \A m \in acked : m[1] \notin overtaken /\ today <= m[2] + TranscriptDays => m \in transcript

\* The sweepers take nothing that is still to be kept: no recorded history, no
\* resumable session and no message within its retention.
KeptUntilDue == RetentionTypeOK /\ HistoryStays /\ AnsweredIsResumable /\ TranscriptIsKept

\* retention/sweeper.go: sweepCopilot "deletes stale sessions whose messages are all
\* redacted (or absent)": no session goes that could be resumed or has a message
\* left to read when it goes.  A DELETE whose subquery is overtaken does not keep it.
OnlyStaleDeleted ==
  [][\A s \in Sessions : touched[s] # NoDay /\ touched'[s] = NoDay => Ended(s)]_retVars

\* retention/sweeper.go: "TOMBSTONE rows older than the cutoff by NULLing PII
\* columns".  When sweepAudit has returned, no audit event is left that was
\* older than the retention.
RetentionApplies == \A d \in auditRows : d + RetentionDays >= auditSwept

=============================================================================
