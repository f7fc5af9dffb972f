------------------------------- MODULE Outbox -------------------------------
(***************************************************************************)
(* Asynchronous audit ingest of the hosted deployment: the REST handler's  *)
(* enqueueBatch, the receipts and outbox tables of outbox.Store, and the   *)
(* outbox.Worker of every API replica.                                     *)
(*                                                                         *)
(* Each statement group that the code runs in one transaction is one       *)
(* action.  A worker claims rows, commits the events of each to the audit  *)
(* chain (CommitBatch, see AuditChain) and then records the outcome; it    *)
(* may crash between any two of these.  Rows left in 'processing' are      *)
(* returned to 'pending' by ResetStaleProcessing, which any replica runs   *)
(* between its own batches.                                                *)
(*                                                                         *)
(* Time is kept as classes of ages: available_at is in the future, has     *)
(* passed, or passed more than the five minutes of ResetStaleProcessing    *)
(* ago; a claim is younger or older than those five minutes.               *)
(***************************************************************************)
EXTENDS Naturals, FiniteSets, Sequences, SequencesExt

CONSTANTS
  Receipts,     \* requests, each with the receipt id it is given
  Workers,      \* one outbox worker per API replica
  Poison,       \* requests whose chain commit can never succeed
  BatchSize,    \* rows claimed at a time
  MaxAttempts,  \* the worker's maxAttempts
  MaxFaults     \* bound on crashes and failed outcome updates

ASSUME PoisonAssumption == Poison \subseteq Receipts
ASSUME SizesAssumption ==
  BatchSize \in Nat \ {0} /\ MaxAttempts \in Nat \ {0} /\ MaxFaults \in Nat

VARIABLES
  receipt,      \* status of ingest_receipts; "none" and "sync" have no row
  row,          \* ingest_outbox: status, attempts and class of available_at
  claimAge,     \* class of the time since the row was last claimed
  order,        \* requests in order of created_at
  worker,       \* local state of each worker: claimed rows and position
  eventID,      \* the event id prepareBatch gave the request's event
  stored,       \* events of the audit chain, as <<request, event id>>
  nextID,       \* the next generated event id
  alerted,      \* receipts ReceiptFailed was called for
  faults        \* crashes and failed updates so far

vars == <<receipt, row, claimAge, order, worker, eventID, stored, nextID,
          alerted, faults>>

NoRow == [status |-> "none", attempts |-> 0, avail |-> "future"]
Resting == [pc |-> "idle", todo |-> {}, attempts |-> [r \in {} |-> 0]]

Position(r) == CHOOSE i \in DOMAIN order : order[i] = r
Current(w) == CHOOSE r \in worker[w].todo :
                \A q \in worker[w].todo : Position(r) <= Position(q)

Init ==
  /\ receipt = [r \in Receipts |-> "none"]
  /\ row = [r \in Receipts |-> NoRow]
  /\ claimAge = [r \in Receipts |-> "none"]
  /\ order = <<>>
  /\ worker = [w \in Workers |-> Resting]
  /\ eventID = [r \in Receipts |-> 0]
  /\ stored = {}
  /\ nextID = 1
  /\ alerted = {}
  /\ faults = 0

-----------------------------------------------------------------------------
(* The request *)

NewRow == [status |-> "pending", attempts |-> 0, avail |-> "ready"]

\* applyDefaults fixes the event id before the event is queued.
AssignID(r) ==
  /\ eventID' = [eventID EXCEPT ![r] = nextID]
  /\ nextID' = nextID + 1

\* Store.Enqueue: receipt and outbox row in one transaction.
Enqueue(r) ==
  /\ receipt[r] = "none"
  /\ AssignID(r)
  /\ receipt' = [receipt EXCEPT ![r] = "queued"]
  /\ row' = [row EXCEPT ![r] = NewRow]
  /\ order' = Append(order, r)
  /\ UNCHANGED <<claimAge, worker, stored, alerted, faults>>

\* Enqueue reports an error, so enqueueBatch commits the same events
\* synchronously.  The error may hide an enqueue that took effect.  (If the
\* synchronous commit fails too, the client gets an error, and the state is
\* that of Enqueue or unchanged.)
EnqueueFallback(r, effective) ==
  /\ receipt[r] = "none"
  /\ r \notin Poison
  /\ AssignID(r)
  /\ stored' = stored \cup {<<r, nextID>>}
  /\ IF effective
     THEN /\ receipt' = [receipt EXCEPT ![r] = "queued"]
          /\ row' = [row EXCEPT ![r] = NewRow]
          /\ order' = Append(order, r)
     ELSE /\ receipt' = [receipt EXCEPT ![r] = "sync"]
          /\ UNCHANGED <<row, order>>
  /\ UNCHANGED <<claimAge, worker, alerted, faults>>

-----------------------------------------------------------------------------
(* The worker *)

Claimable == {r \in Receipts : row[r].status = "pending"
                               /\ row[r].avail # "future"}

\* ClaimPending.  SKIP LOCKED passes over rows that another worker is just
\* claiming, so any of the claimable rows may be missing from the result.
ClaimPending(w, C) ==
  /\ worker[w].pc = "idle"
  /\ C # {} /\ Cardinality(C) <= BatchSize
  /\ worker' = [worker EXCEPT ![w] =
       [pc |-> "commit", todo |-> C,
        attempts |-> [r \in C |-> row[r].attempts]]]
  /\ row' = [r \in Receipts |->
       IF r \in C THEN [row[r] EXCEPT !.status = "processing"] ELSE row[r]]
  /\ claimAge' = [r \in Receipts |-> IF r \in C THEN "fresh" ELSE claimAge[r]]
  /\ UNCHANGED <<receipt, order, eventID, stored, nextID, alerted, faults>>

\* Mutant: alert one failure too late.
LastAttemptLate(w) == worker[w].attempts[Current(w)] + 1 > MaxAttempts

\* processRow: is the row to be given up if this commit fails?
LastAttempt(w) == worker[w].attempts[Current(w)] + 1 >= MaxAttempts

\* MarkRetry's own test of the same.
Exhausted(n) == n >= MaxAttempts

Goto(w, label) == worker' = [worker EXCEPT ![w].pc = label]

\* Mutant: the worker gives the event a new id.
CommitBatchNewID(w) ==
  /\ worker[w].pc = "commit"
  /\ Current(w) \notin Poison
  /\ stored' = stored \cup {<<Current(w), nextID>>}
  /\ nextID' = nextID + 1
  /\ Goto(w, "mark")
  /\ UNCHANGED <<receipt, row, claimAge, order, eventID, alerted, faults>>

\* CommitBatch succeeded; ids already in the chain count as written.
CommitBatch(w) ==
  /\ worker[w].pc = "commit"
  /\ Current(w) \notin Poison
  /\ stored' = stored \cup {<<Current(w), eventID[Current(w)]>>}
  /\ Goto(w, "mark")
  /\ UNCHANGED <<receipt, row, claimAge, order, eventID, nextID, alerted,
                 faults>>

\* CommitBatch returned an error, which may hide a commit.  The last failure
\* is announced before it is recorded.
CommitFails(w, effective) ==
  /\ worker[w].pc = "commit"
  /\ LET r == Current(w) IN
       /\ effective => r \notin Poison
       /\ stored' = IF effective THEN stored \cup {<<r, eventID[r]>>}
                    ELSE stored
       /\ alerted' = IF LastAttempt(w) THEN alerted \cup {r} ELSE alerted
  /\ Goto(w, "retry")
  /\ UNCHANGED <<receipt, row, claimAge, order, eventID, nextID, faults>>

\* On to the next claimed row, or back to polling.
Done(w) ==
  LET rest == worker[w].todo \ {Current(w)}
  IN  worker' = [worker EXCEPT ![w] =
                   IF rest = {} THEN Resting
                   ELSE [worker[w] EXCEPT !.pc = "commit", !.todo = rest]]

\* Mutant: the outcome is recorded before the commit.
MarkCommittedEarly(w) ==
  /\ worker[w].pc \in {"commit", "mark"}
  /\ row' = [row EXCEPT ![Current(w)].status = "done"]
  /\ receipt' = [receipt EXCEPT ![Current(w)] = "committed"]
  /\ Done(w)
  /\ UNCHANGED <<claimAge, order, eventID, stored, nextID, alerted, faults>>

\* MarkCommitted tests neither the row's status nor who claimed it.
MarkCommitted(w) ==
  /\ worker[w].pc = "mark"
  /\ row' = [row EXCEPT ![Current(w)].status = "done"]
  /\ receipt' = [receipt EXCEPT ![Current(w)] = "committed"]
  /\ Done(w)
  /\ UNCHANGED <<claimAge, order, eventID, stored, nextID, alerted, faults>>

\* MarkRetry, likewise, with the attempts read when the row was claimed.
MarkRetry(w) ==
  /\ worker[w].pc = "retry"
  /\ LET r == Current(w)
         n == worker[w].attempts[r] + 1
     IN  IF Exhausted(n)
         THEN /\ row' = [row EXCEPT ![r].status = "failed", ![r].attempts = n]
              /\ receipt' = [receipt EXCEPT ![r] = "failed"]
         ELSE /\ row' = [row EXCEPT ![r] = [status |-> "pending",
                                            attempts |-> n,
                                            avail |-> "future"]]
              /\ UNCHANGED receipt
  /\ Done(w)
  /\ UNCHANGED <<claimAge, order, eventID, stored, nextID, alerted, faults>>

\* The update failed; the worker logs or ignores the error and goes on.
MarkFails(w) ==
  /\ worker[w].pc \in {"mark", "retry"}
  /\ faults < MaxFaults
  /\ faults' = faults + 1
  /\ Done(w)
  /\ UNCHANGED <<receipt, row, claimAge, order, eventID, stored, nextID,
                 alerted>>

Crash(w) ==
  /\ worker[w].pc # "idle"
  /\ faults < MaxFaults
  /\ faults' = faults + 1
  /\ worker' = [worker EXCEPT ![w] = Resting]
  /\ UNCHANGED <<receipt, row, claimAge, order, eventID, stored, nextID,
                 alerted>>

\* Mutant: the age is compared the wrong way round.
StaleReversed(r) == row[r].status = "processing" /\ row[r].avail = "future"

Stale(r) == row[r].status = "processing" /\ row[r].avail = "old"

\* ResetStaleProcessing compares available_at, which claiming leaves alone.
\* It runs in the worker's own loop, hence never while it processes rows.
ResetStaleProcessing(w) ==
  /\ worker[w].pc = "idle"
  /\ \E r \in Receipts : Stale(r)
  /\ row' = [r \in Receipts |->
       IF Stale(r) THEN [row[r] EXCEPT !.status = "pending", !.avail = "ready"]
       ELSE row[r]]
  /\ UNCHANGED <<receipt, claimAge, order, worker, eventID, stored, nextID,
                 alerted, faults>>

-----------------------------------------------------------------------------
(* Time *)

Live(r) == row[r].status \in {"pending", "processing"}

Later(avail) == IF avail = "future" THEN "ready" ELSE "old"

TimePasses(r) ==
  /\ Live(r) /\ row[r].avail # "old"
  /\ row' = [row EXCEPT ![r].avail = Later(@)]
  /\ UNCHANGED <<receipt, claimAge, order, worker, eventID, stored, nextID,
                 alerted, faults>>

\* A row was available when it was claimed: an old claim is of an old row.
ClaimAges(r) ==
  /\ row[r].status = "processing" /\ claimAge[r] = "fresh"
  /\ row[r].avail = "old"
  /\ claimAge' = [claimAge EXCEPT ![r] = "old"]
  /\ UNCHANGED <<receipt, row, order, worker, eventID, stored, nextID,
                 alerted, faults>>

-----------------------------------------------------------------------------
Claim(w) == \E C \in SUBSET Claimable : ClaimPending(w, C)

Process(w) ==
  \/ CommitBatch(w)
  \/ \E effective \in BOOLEAN : CommitFails(w, effective)
  \/ MarkCommitted(w) \/ MarkRetry(w)

Next ==
  \/ \E r \in Receipts : \/ Enqueue(r)
                         \/ \E effective \in BOOLEAN : EnqueueFallback(r, effective)
                         \/ TimePasses(r) \/ ClaimAges(r)
  \/ \E w \in Workers : Claim(w) \/ Process(w) \/ MarkFails(w) \/ Crash(w)
                        \/ ResetStaleProcessing(w)

Spec == Init /\ [][Next]_vars

\* Workers poll, work and reclaim for ever (a crashed replica is restarted)
\* and the clock runs.  Rows are claimed in order of creation, so a row that
\* is claimable again and again is claimed.
Fairness ==
  /\ \A w \in Workers : /\ WF_vars(Process(w))
                        /\ WF_vars(ResetStaleProcessing(w))
  /\ \A r \in Receipts :
       /\ WF_vars(TimePasses(r))
       /\ SF_vars(\E w \in Workers, C \in SUBSET Claimable :
                    r \in C /\ ClaimPending(w, C))

FairSpec == Spec /\ Fairness

-----------------------------------------------------------------------------
(* Properties *)

\* A worker that is not polling has claimed rows in hand, with the attempts
\* it read for each of them.
TypeOK ==
  /\ \A r \in Receipts :
       /\ receipt[r] \in {"none", "sync", "queued", "committed", "failed"}
       /\ row[r].attempts \in 0 .. MaxAttempts
       /\ row[r].status # "none" <=> receipt[r] \notin {"none", "sync"}
  /\ \A w \in Workers :
       /\ worker[w].pc = "idle" <=> worker[w].todo = {}
       /\ worker[w].todo \subseteq DOMAIN worker[w].attempts
       /\ worker[w].todo \subseteq Range(order)
  /\ Cardinality(stored) <= nextID /\ faults <= MaxFaults

\* MarkCommitted runs after CommitBatch: a client that polls a receipt and
\* reads 'committed' finds its events in the chain, whatever crashed or was
\* processed twice before.
CommittedIsStored ==
  \A r \in Receipts : receipt[r] = "committed" => <<r, eventID[r]>> \in stored

\* The id is assigned before the event is queued: a request processed twice,
\* reset while in progress, or committed by the fallback as well as by a
\* worker, still leaves one copy of its event.
OneCopy == \A p, q \in stored : p[1] = q[1] => p = q

\* Receipt and row change together: a queued receipt always has a row that
\* some worker will process, so no accepted request is forgotten.
QueuedIsLive == \A r \in Receipts : receipt[r] = "queued" => Live(r)

\* "ReceiptFailed notifies when async ingest exhausts retries": no receipt
\* fails silently, even if the worker crashes between alert and update.
FailureIsAnnounced ==
  \A r \in Receipts : receipt[r] = "failed" => r \in alerted

\* No accepted request is lost sight of: its row and its receipt agree, one
\* that is queued is still to be processed and one that failed was announced.
NoneForgotten == TypeOK /\ QueuedIsLive /\ FailureIsAnnounced

\* Every accepted request settles, although workers crash with claimed rows
\* and updates fail.
Settles ==
  \A r \in Receipts :
    receipt[r] = "queued" ~> receipt[r] \in {"committed", "failed"}

\* store.go: "resets outbox items stuck in 'processing' status for more than
\* a given age": a row goes back to 'pending', with its attempts unchanged,
\* only if it was claimed longer ago than that.
ResetOnlyStuck ==
  [][\A r \in Receipts :
       /\ row[r].status = "processing" /\ row'[r].status = "pending"
       /\ row'[r].attempts = row[r].attempts
       => claimAge[r] = "old"]_vars

\* sdk/python/fact0/audit/transport.py: poll_receipt stops at 'committed' or
\* 'failed' and calls every other receipt "not settled": a settled receipt
\* does not change any more.
SettledIsFinal ==
  [][\A r \in Receipts :
       receipt[r] \in {"committed", "failed"} => receipt'[r] = receipt[r]]_vars

=============================================================================
