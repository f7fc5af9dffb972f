------------------------- MODULE ExecutionLifecycle -------------------------
(***************************************************************************)
(* The life of an execution: ingestion.Service.StartExecution and          *)
(* EndExecutionAt over Store.InsertExecution, GetExecution and             *)
(* UpdateExecutionStatus.                                                  *)
(*                                                                         *)
(* The id of an execution is a digest of tenant, agent and idempotency     *)
(* key, so requests with the same key name the same execution, and another *)
(* tenant's requests never do.  Ending one takes three statements that are *)
(* not in a transaction, and any number of clients run them concurrently;  *)
(* the guard status = 'RUNNING' of the UPDATE is all that orders them.     *)
(***************************************************************************)
EXTENDS Integers

CONSTANTS
  Callers,      \* concurrent requests
  Execs,        \* execution ids
  Inputs,       \* agent name, trigger and metadata of a start request
  Times,        \* points in time at microsecond precision
  None          \* an omitted started_at or ended_at, no end yet

ASSUME TimesAssumption == Times \subseteq Nat /\ None \notin Times

Running == "RUNNING"
Terminal == {"COMPLETED", "FAILED", "CANCELLED"}

NoExec == [status |-> "none"]

VARIABLES
  exec,         \* the executions table
  call,         \* local state of each EndExecutionAt
  started,      \* answers of StartExecution
  ended         \* answers of EndExecutionAt

vars == <<exec, call, started, ended>>

Idle == [pc |-> "idle"]

Exists(x) == exec[x] # NoExec

Init ==
  /\ exec = [x \in Execs |-> NoExec]
  /\ call = [c \in Callers |-> Idle]
  /\ started = {}
  /\ ended = {}

-----------------------------------------------------------------------------
(* StartExecution.  The fields that a retry is compared with never change, *)
(* so the insert and the read after a conflict are one step.               *)

\* Mutant: a new execution has its end time filled in.
NewExecEnded(input, at) ==
  [status |-> Running, input |-> input, startedAt |-> at, endedAt |-> at]

NewExec(input, at) ==
  [status |-> Running, input |-> input, startedAt |-> at, endedAt |-> None]

\* The key is new: the start time is the client's, or the server's clock.
StartExecution(x, input, at, clock) ==
  LET e == NewExec(input, IF at = None THEN clock ELSE at) IN
    /\ ~Exists(x)
    /\ exec' = [exec EXCEPT ![x] = e]
    /\ started' = started \cup {[id |-> x, asked |-> at, row |-> e]}
    /\ UNCHANGED <<call, ended>>

\* Mutant: the answer carries the retry's own start time.
StartAgainOwnTime(x, input, at, clock) ==
  /\ Exists(x)
  /\ exec[x].input = input
  /\ started' = started \cup {[id |-> x, asked |-> at,
                               row |-> NewExec(input, IF at = None THEN clock ELSE at)]}
  /\ UNCHANGED <<exec, call, ended>>

\* The key is known: the same input is answered with the stored execution,
\* other input or another explicit start time is refused.
StartAgain(x, input, at, clock) ==
  /\ Exists(x)
  /\ exec[x].input = input
  /\ at \in {None, exec[x].startedAt}
  /\ started' = started \cup {[id |-> x, asked |-> at, row |-> exec[x]]}
  /\ UNCHANGED <<exec, call, ended>>

-----------------------------------------------------------------------------
(* EndExecutionAt *)

\* asked is the client's ended_at; end what the code works with.
EndExecution(c, x, status, asked, clock) ==
  /\ call[c].pc = "idle"
  /\ call' = [call EXCEPT ![c] =
       [pc |-> "get", id |-> x, status |-> status, asked |-> asked,
        end |-> IF asked = None THEN clock ELSE asked]]
  /\ UNCHANGED <<exec, started, ended>>

Answer(c) ==
  LET z == call[c] IN
    /\ ended' = ended \cup {[id |-> z.id, status |-> z.status,
                             asked |-> z.asked, row |-> exec[z.id]]}
    /\ call' = [call EXCEPT ![c] = Idle]

\* Mutant: a retry without ended_at is treated like a first request.
AlreadyEndedNever(z) == FALSE

\* A retry without ended_at is answered with the stored end.
AlreadyEnded(z) == z.asked = None /\ exec[z.id].status = z.status

\* Mutant: the end is not compared with the start.
TooEarlyNever(z) == FALSE

TooEarly(z) == z.end < exec[z.id].startedAt

\* Mutant: UPDATE without AND status = 'RUNNING'.
UpdatesAlways(x) == TRUE

\* WHERE ... AND status = 'RUNNING'
Updates(x) == exec[x].status = Running

\* Mutant: any explicit ended_at is confirmed.
ConfirmsAlways(z) == TRUE

\* An explicit ended_at is confirmed only if it is the one stored.
Confirms(z) == z.asked = None \/ exec[z.id].endedAt = z.end

\* The error returns of EndExecutionAt and UpdateExecutionStatus.
Refuses(z) ==
  \/ z.pc = "get" /\ ~Exists(z.id)
  \/ z.pc = "get" /\ Exists(z.id) /\ ~AlreadyEnded(z) /\ TooEarly(z)
  \/ z.pc = "update" /\ ~Updates(z.id) /\ exec[z.id].status # z.status
  \/ z.pc = "reread" /\ ~Confirms(z)

Refuse(c) ==
  /\ Refuses(call[c])
  /\ call' = [call EXCEPT ![c] = Idle]
  /\ UNCHANGED <<exec, started, ended>>

Goto(c, label) == call' = [call EXCEPT ![c].pc = label] /\ UNCHANGED ended

GetExecution(c) ==
  /\ call[c].pc = "get" /\ ~Refuses(call[c])
  /\ IF AlreadyEnded(call[c]) THEN Answer(c) ELSE Goto(c, "update")
  /\ UNCHANGED <<exec, started>>

\* The UPDATE takes effect, or the status asked for is stored already.
UpdateExecutionStatus(c) ==
  LET z == call[c] IN
    /\ z.pc = "update" /\ ~Refuses(z)
    /\ exec' = IF Updates(z.id)
               THEN [exec EXCEPT ![z.id].status = z.status,
                                 ![z.id].endedAt = z.end]
               ELSE exec
    /\ Goto(c, "reread")
    /\ UNCHANGED started

Reread(c) ==
  /\ call[c].pc = "reread" /\ ~Refuses(call[c])
  /\ Answer(c)
  /\ UNCHANGED <<exec, started>>

\* The request is cancelled, or the process dies, between two statements.
GiveUp(c) ==
  /\ call[c].pc # "idle"
  /\ call' = [call EXCEPT ![c] = Idle]
  /\ UNCHANGED <<exec, started, ended>>

-----------------------------------------------------------------------------
EndStep(c) == GetExecution(c) \/ UpdateExecutionStatus(c) \/ Reread(c)
              \/ Refuse(c)

Start(x) ==
  \E input \in Inputs, at \in Times \cup {None}, clock \in Times :
    \/ StartExecution(x, input, at, clock)
    \/ StartAgain(x, input, at, clock)

Next ==
  \/ \E x \in Execs : Start(x)
  \/ \E c \in Callers :
       \/ \E x \in Execs, status \in Terminal, asked \in Times \cup {None},
             clock \in Times : EndExecution(c, x, status, asked, clock)
       \/ EndStep(c)
       \/ GiveUp(c)

Spec == Init /\ [][Next]_vars

-----------------------------------------------------------------------------
(* Properties *)

Execution == [status : {Running} \cup Terminal, input : Inputs,
              startedAt : Times, endedAt : Times \cup {None}]

EndCall == [pc : {"get", "update", "reread"}, id : Execs, status : Terminal,
            asked : Times \cup {None}, end : Times]

\* A stored execution is running without an end, or terminal with one.
TypeOK ==
  /\ exec \in [Execs -> Execution \cup {NoExec}]
  /\ \A x \in Execs : Exists(x) =>
       (exec[x].status = Running <=> exec[x].endedAt = None)
  /\ call \in [Callers -> EndCall \cup {Idle}]

\* UpdateExecutionStatus: a terminal execution never changes again, however
\* many concurrent or repeated requests end it with other statuses or times.
TerminalIsFinal ==
  [][\A x \in Execs : Exists(x) /\ exec[x].status \in Terminal
                      => exec'[x] = exec[x]]_vars

\* EndExecutionAt: all clients that were told an execution ended were told
\* the truth: the stored status is the one each asked for, and the stored end
\* the one in each answer, which is the asked one if there was one.
EndAgreement ==
  \A a \in ended :
    /\ exec[a.id] = a.row
    /\ a.row.status = a.status
    /\ a.asked \in {None, a.row.endedAt}

\* GetExecution's test of the end, made before the UPDATE, still holds of the
\* stored row: no execution ends before it started.
EndsAfterStart ==
  \A x \in Execs : Exists(x) /\ exec[x].endedAt # None
                   => exec[x].startedAt <= exec[x].endedAt

\* ADR-003: "Retrying returns the stored execution and its original start
\* time", the one that every other client was told, also after the end.
StartIsStable ==
  \A a \in started :
    /\ Exists(a.id)
    /\ a.row.startedAt = exec[a.id].startedAt /\ a.row.input = exec[a.id].input
    /\ a.asked \in {None, exec[a.id].startedAt}

Confirmed(z) ==
  \E a \in ended : a.id = z.id /\ a.status = z.status /\ a.asked = z.asked

\* EndExecutionAt: a request that was confirmed once is never refused when it
\* is sent again, whatever arrived in between and wherever it is overtaken.
EndRetryIsSafe ==
  \A c \in Callers :
    call[c].pc # "idle" /\ Confirmed(call[c]) => ~Refuses(call[c])

=============================================================================
