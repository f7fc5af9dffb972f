----------------------------- MODULE AuditChain -----------------------------
(***************************************************************************)
(* Appending audit events to the per-tenant hash chain: audit.Service.Log  *)
(* and LogBatch over AuditStore.AppendBatchChained, as several API         *)
(* processes run it against one PostgreSQL database.                       *)
(*                                                                         *)
(* One writer is one call of AppendBatchChained with its transaction.  A   *)
(* step of a writer is one statement of that transaction: statements of    *)
(* different transactions interleave, and under READ COMMITTED each sees   *)
(* every row committed before it.  Transactions abort at any statement     *)
(* (connection loss, statement error, process crash, cancelled request),   *)
(* and a COMMIT may take effect although the client is told it failed.     *)
(*                                                                         *)
(* From PostgreSQL the model takes: pg_advisory_xact_lock excludes and is  *)
(* released when the transaction ends; nextval is global, never rolls back *)
(* and fails past its maximum; an INSERT of an id that another transaction *)
(* has inserted and not yet committed waits for that transaction, and      *)
(* fails if the id is committed, in whatever tenant (id is the primary     *)
(* key of the table); a cycle of waiting transactions loses one member.    *)
(***************************************************************************)
EXTENDS ChainBase, FiniteSets, Sequences

CONSTANTS
  Writers,      \* concurrent calls of AppendBatchChained
  None,         \* no holder of a lock, no tenant of an idle writer
  Batches,      \* the request bodies clients send: sequences of events
  ValidData,    \* the payloads Validate accepts
  Redact,       \* what applyRedaction makes of a payload
  MaxSeq        \* the largest value nextval can return

Event == [id : EventIDs, ts : Times, data : Data]

ASSUME WritersAssumption == None \notin Writers \cup Tenants
ASSUME BatchesAssumption == Batches \subseteq Seq(Event)
\* Redaction rewrites metadata, which Validate does not look at.
ASSUME RedactAssumption ==
  /\ Redact \in [Data -> Data]
  /\ \A d \in Data : Redact[d] \in ValidData <=> d \in ValidData
ASSUME MaxSeqAssumption == MaxSeq \in Nat
ASSUME ValidDataAssumption == ValidData \subseteq Data
\* GenesisHash is the word "genesis", which is no row's digest.
ASSUME GenesisAssumption ==
  \A i \in EventIDs, t \in Tenants, x \in Times, d \in Data, n \in 1 .. MaxSeq :
    GenesisHash # <<i, t, x, d, GenesisHash, n>>

VARIABLES
  rows,         \* committed rows of audit_events
  nextSeq,      \* the next value of the table's sequence
  lock,         \* holder of each tenant's advisory lock
  pc,           \* the statement each writer executes next
  tenant,       \* tenant of the writer's call
  batch,        \* the events of the call, after prepareBatch
  todo,         \* positions of the batch the loop has not reached
  prevHash,     \* the local variable prevHash
  existing,     \* the local map existing, as the set of its rows
  toInsert,     \* the local slice toInsert, as the set of its rows
  inserted,     \* rows of toInsert the open transaction has inserted
  acked         \* what clients were told is committed

vars == <<rows, nextSeq, lock, pc, tenant, batch, todo, prevHash, existing,
          toInsert, inserted, acked>>

PC == {"idle", "lock", "head", "load", "chain", "insert", "commit"}

-----------------------------------------------------------------------------
(* Request preparation *)

Valid(e) == e.data \in ValidData

\* applyRedaction runs before the event is hashed.
Prepare(b) == [i \in 1 .. Len(b) |-> [b[i] EXCEPT !.data = Redact[@]]]

\* Mutant: accepted positions counted from zero and used as if from one.
ValidPositionsZeroBased(b) == {i \in 0 .. Len(b) - 1 : Valid(b[i + 1])}

ValidPositions(b) == {i \in 1 .. Len(b) : Valid(b[i])}

BatchIDs(b, I) == {b[i].id : i \in I}

\* Mutant: the batch is ranged over as a map, in no particular order.
IsFirstUnordered(i, I) == i \in I

IsFirst(i, I) == i \in I /\ \A j \in I : i <= j

-----------------------------------------------------------------------------
Init ==
  /\ rows = {}
  /\ nextSeq = 1
  /\ lock = [t \in Tenants |-> None]
  /\ pc = [w \in Writers |-> "idle"]
  /\ tenant = [w \in Writers |-> None]
  /\ batch = [w \in Writers |-> <<>>]
  /\ todo = [w \in Writers |-> {}]
  /\ prevHash = [w \in Writers |-> GenesisHash]
  /\ existing = [w \in Writers |-> {}]
  /\ toInsert = [w \in Writers |-> {}]
  /\ inserted = [w \in Writers |-> {}]
  /\ acked = {}

\* LogBatch: prepareBatch drops the invalid events; a batch with none left is
\* answered without touching the store.
LogBatch(w, t, b) ==
  /\ pc[w] = "idle"
  /\ ValidPositions(b) # {}
  /\ pc' = [pc EXCEPT ![w] = "lock"]
  /\ tenant' = [tenant EXCEPT ![w] = t]
  /\ batch' = [batch EXCEPT ![w] = Prepare(b)]
  /\ todo' = [todo EXCEPT ![w] = ValidPositions(b)]
  /\ UNCHANGED <<rows, nextSeq, lock, prevHash, existing, toInsert, inserted,
                 acked>>

\* Mutant: the transaction does not take the tenant's advisory lock.
AcquireLockIgnored(w) ==
  /\ pc[w] = "lock"
  /\ pc' = [pc EXCEPT ![w] = "head"]
  /\ UNCHANGED <<rows, nextSeq, lock, tenant, batch, todo, prevHash, existing,
                 toInsert, inserted, acked>>

\* SELECT pg_advisory_xact_lock(GetAdvisoryLockKey(tenant))
AcquireLock(w) ==
  /\ pc[w] = "lock"
  /\ lock[tenant[w]] = None
  /\ lock' = [lock EXCEPT ![tenant[w]] = w]
  /\ pc' = [pc EXCEPT ![w] = "head"]
  /\ UNCHANGED <<rows, nextSeq, tenant, batch, todo, prevHash, existing,
                 toInsert, inserted, acked>>

\* Mutant: ORDER BY sequence_number without DESC.
LastHashAscending(S) ==
  IF S = {} THEN GenesisHash
  ELSE (CHOOSE r \in S : \A q \in S : r.seq <= q.seq).hash

\* The hash of the newest row of S, or the genesis hash.
LastHash(S) ==
  IF S = {} THEN GenesisHash ELSE (CHOOSE r \in S : IsLast(S, r)).hash

\* lastHashTx: a statement of its own, so it sees the rows committed by now.
ReadHead(w) ==
  /\ pc[w] = "head"
  /\ prevHash' = [prevHash EXCEPT ![w] = LastHash(RowsOf(rows, tenant[w]))]
  /\ pc' = [pc EXCEPT ![w] = "load"]
  /\ UNCHANGED <<rows, nextSeq, lock, tenant, batch, todo, existing,
                 toInsert, inserted, acked>>

\* Mutant: the lookup forgets the tenant.
LoadExistingAnyTenant(w) ==
  /\ pc[w] = "load"
  /\ existing' = [existing EXCEPT ![w] =
       {r \in rows : r.id \in BatchIDs(batch[w], todo[w])}]
  /\ pc' = [pc EXCEPT ![w] = "chain"]
  /\ UNCHANGED <<rows, nextSeq, lock, tenant, batch, todo, prevHash,
                 toInsert, inserted, acked>>

\* loadExistingEventsTx looks the ids up within the tenant only.
LoadExisting(w) ==
  /\ pc[w] = "load"
  /\ existing' =
       [existing EXCEPT ![w] = {r \in RowsOf(rows, tenant[w]) :
                                   r.id \in BatchIDs(batch[w], todo[w])}]
  /\ pc' = [pc EXCEPT ![w] = "chain"]
  /\ UNCHANGED <<rows, nextSeq, lock, tenant, batch, todo, prevHash,
                 toInsert, inserted, acked>>

\* The row the loop body builds from event e: nextval, prev_hash, ComputeHash.
NewRow(e, t, prev, n) ==
  LET unsigned == [id |-> e.id, tenant |-> t, ts |-> e.ts, data |-> e.data,
                   seq |-> n, prev |-> prev]
  IN  [id |-> e.id, tenant |-> t, ts |-> e.ts, data |-> e.data,
       seq |-> n, prev |-> prev, hash |-> ComputeHash(unsigned)]

IsKnown(w, e) == \E r \in existing[w] : r.id = e.id

\* One iteration of the loop for an id that is stored already, or that an
\* earlier event of the same batch carries: the event is skipped.
SkipExisting(w) ==
  /\ pc[w] = "chain"
  /\ \E i \in todo[w] :
       /\ IsFirst(i, todo[w])
       /\ IsKnown(w, batch[w][i])
       /\ todo' = [todo EXCEPT ![w] = @ \ {i}]
  /\ UNCHANGED <<rows, nextSeq, lock, pc, tenant, batch, prevHash, existing,
                 toInsert, inserted, acked>>

\* One iteration of the loop for a new id: the event is linked to prevHash.
ChainOne(w) ==
  /\ pc[w] = "chain"
  /\ nextSeq <= MaxSeq
  /\ \E i \in todo[w] :
       LET r == NewRow(batch[w][i], tenant[w], prevHash[w], nextSeq) IN
         /\ IsFirst(i, todo[w])
         /\ ~IsKnown(w, batch[w][i])
         /\ todo' = [todo EXCEPT ![w] = @ \ {i}]
         /\ nextSeq' = nextSeq + 1
         /\ toInsert' = [toInsert EXCEPT ![w] = @ \cup {r}]
         /\ existing' = [existing EXCEPT ![w] = @ \cup {r}]
         /\ prevHash' = [prevHash EXCEPT ![w] = r.hash]
  /\ UNCHANGED <<rows, lock, pc, tenant, batch, inserted, acked>>

\* The loop is over; bulkInsertAuditEventsTx runs only for a non-empty list.
EndLoop(w) ==
  /\ pc[w] = "chain"
  /\ todo[w] = {}
  /\ pc' = [pc EXCEPT ![w] = IF toInsert[w] = {} THEN "commit" ELSE "insert"]
  /\ UNCHANGED <<rows, nextSeq, lock, tenant, batch, todo, prevHash, existing,
                 toInsert, inserted, acked>>

\* r is the next row of the multi-row INSERT.
NextInsert(w, r) ==
  /\ r \in toInsert[w] \ inserted[w]
  /\ \A q \in toInsert[w] \ inserted[w] : r.seq <= q.seq

\* Transaction v holds, uncommitted, the id that w is about to insert.
WaitsFor(w, v) ==
  /\ v # w
  /\ pc[w] = "insert"
  /\ \E r \in toInsert[w] :
        NextInsert(w, r) /\ \E q \in inserted[v] : q.id = r.id

\* Mutant: a primary key of tenant and id.
PrimaryKeyTakenInTenant(r) ==
  \E q \in rows : q.id = r.id /\ q.tenant = r.tenant

PrimaryKeyTaken(r) == \E q \in rows : q.id = r.id

\* bulkInsertChunkTx, one row of it.
InsertOne(w) ==
  /\ pc[w] = "insert"
  /\ \A v \in Writers : ~WaitsFor(w, v)
  /\ \E r \in toInsert[w] :
       /\ NextInsert(w, r)
       /\ ~PrimaryKeyTaken(r)
       /\ inserted' = [inserted EXCEPT ![w] = @ \cup {r}]
       /\ pc' = [pc EXCEPT ![w] =
                   IF toInsert[w] \subseteq inserted[w] \cup {r}
                   THEN "commit" ELSE "insert"]
  /\ UNCHANGED <<rows, nextSeq, lock, tenant, batch, todo, prevHash, existing,
                 toInsert, acked>>

\* Mutant: a session lock, which outlives the transaction.
ReleasedNever(w) == lock

\* Transaction-level advisory locks go with the transaction.
Released(w) == [t \in Tenants |-> IF lock[t] = w THEN None ELSE lock[t]]

\* The transaction is over: its locks are released, its locals are gone.
EndTx(w) ==
  /\ pc' = [pc EXCEPT ![w] = "idle"]
  /\ lock' = Released(w)
  /\ tenant' = [tenant EXCEPT ![w] = None]
  /\ batch' = [batch EXCEPT ![w] = <<>>]
  /\ todo' = [todo EXCEPT ![w] = {}]
  /\ prevHash' = [prevHash EXCEPT ![w] = GenesisHash]
  /\ existing' = [existing EXCEPT ![w] = {}]
  /\ toInsert' = [toInsert EXCEPT ![w] = {}]
  /\ inserted' = [inserted EXCEPT ![w] = {}]
  /\ UNCHANGED nextSeq

\* What LogBatch reports: for each accepted event the stored row of its id.
Answers(w) ==
  {[tenant |-> tenant[w], event |-> batch[w][i], row |-> r] :
      i \in ValidPositions(batch[w]), r \in existing[w]}

Acknowledged(w) == {a \in Answers(w) : a.row.id = a.event.id}

Commit(w) ==
  /\ pc[w] = "commit"
  /\ rows' = rows \cup inserted[w]
  /\ acked' = acked \cup Acknowledged(w)
  /\ EndTx(w)

\* COMMIT took effect, and the client got an error or no answer.
CommitUnacknowledged(w) ==
  /\ pc[w] = "commit"
  /\ rows' = rows \cup inserted[w]
  /\ EndTx(w)
  /\ UNCHANGED acked

\* A statement failed, ComputeHash refused the metadata, the request was
\* cancelled or the process died.
Abort(w) ==
  /\ pc[w] # "idle"
  /\ EndTx(w)
  /\ UNCHANGED <<rows, acked>>

SequenceExhausted(w) ==
  /\ pc[w] = "chain"
  /\ \E i \in todo[w] : IsFirst(i, todo[w]) /\ ~IsKnown(w, batch[w][i])
  /\ nextSeq > MaxSeq
  /\ EndTx(w)
  /\ UNCHANGED <<rows, acked>>

\* The id is a committed row's, necessarily of another tenant.
DuplicateKey(w) ==
  /\ pc[w] = "insert"
  /\ \E r \in toInsert[w] : NextInsert(w, r) /\ PrimaryKeyTaken(r)
  /\ EndTx(w)
  /\ UNCHANGED <<rows, acked>>

\* PostgreSQL aborts one transaction of a cycle of waiting transactions.
InWaitCycle(w) ==
  \E S \in SUBSET Writers :
    /\ w \in S
    /\ \A v \in S : /\ \E u \in S : WaitsFor(v, u)
                    /\ \E u \in S : WaitsFor(u, v)

DeadlockVictim(w) ==
  /\ InWaitCycle(w)
  /\ EndTx(w)
  /\ UNCHANGED <<rows, acked>>

-----------------------------------------------------------------------------
\* What a running transaction does when nothing fails spontaneously.
Step(w) ==
  \/ ReadHead(w) \/ LoadExisting(w)
  \/ SkipExisting(w) \/ ChainOne(w) \/ EndLoop(w)
  \/ InsertOne(w)
  \/ Commit(w) \/ CommitUnacknowledged(w)
  \/ SequenceExhausted(w) \/ DuplicateKey(w) \/ DeadlockVictim(w)

Next ==
  \E w \in Writers :
    \/ \E t \in Tenants, b \in Batches : LogBatch(w, t, b)
    \/ AcquireLock(w)
    \/ Step(w)
    \/ Abort(w)

Spec == Init /\ [][Next]_vars

\* Running transactions make progress, and the lock queue is first come,
\* first served: a waiter that finds the lock free again and again gets it.
\* Nothing obliges a client to send a request or a transaction to fail.
Fairness ==
  \A w \in Writers : SF_vars(AcquireLock(w)) /\ WF_vars(Step(w))

FairSpec == Spec /\ Fairness

-----------------------------------------------------------------------------
(* Properties *)

IsRow(r) ==
  /\ r = [id |-> r.id, tenant |-> r.tenant, ts |-> r.ts, data |-> r.data,
          seq |-> r.seq, prev |-> r.prev, hash |-> r.hash]
  /\ r.id \in EventIDs /\ r.tenant \in Tenants
  /\ r.ts \in Times /\ r.data \in Data /\ r.seq \in 1 .. MaxSeq

OnWriters(f) == f = [w \in Writers |-> f[w]]

StoreType ==
  /\ \A r \in rows : IsRow(r) /\ r.seq < nextSeq
  /\ nextSeq \in 1 .. (MaxSeq + 1)
  /\ lock \in [Tenants -> Writers \cup {None}]

CallType ==
  /\ pc \in [Writers -> PC]
  /\ tenant \in [Writers -> Tenants \cup {None}]
  /\ batch \in [Writers -> Seq(Event)]
  /\ todo \in [Writers -> SUBSET Nat]
  /\ OnWriters(prevHash) /\ OnWriters(existing)
  /\ OnWriters(toInsert) /\ OnWriters(inserted)

WriterType(w) ==
  /\ pc[w] # "idle" => tenant[w] \in Tenants
  /\ todo[w] \subseteq 1 .. Len(batch[w])
  /\ \A r \in existing[w] \cup toInsert[w] : IsRow(r) /\ r.seq < nextSeq
  /\ inserted[w] \subseteq toInsert[w]

\* Every variable of the store and of the writers has the shape the code
\* gives it: in particular no sequence number is at or past the counter.
TypeOK == StoreType /\ CallType /\ \A w \in Writers : WriterType(w)

\* AppendBatchChained: however the transactions of all writers interleave and
\* fail, each tenant's committed rows form one unbroken, unforked hash chain.
ChainIntact == \A t \in Tenants : ChainOK(RowsOf(rows, t))

\* loadExistingEventsTx and the primary key: a retried, repeated or contended
\* event id is stored at most once, and no two rows share a sequence number.
StoredOnce ==
  \A p, q \in rows : p.id = q.id \/ p.seq = q.seq => p = q

\* LogBatch reports an id only for a row that is durable, in the caller's
\* tenant, also when the event was a duplicate of a concurrent request.
AckedIsStored ==
  \A a \in acked : a.row \in rows /\ a.row.tenant = a.tenant

\* "chain ordering follows slice order": new events of one request enter the
\* chain in the order in which the request lists their ids.
SliceOrder ==
  \A w \in Writers : \A p, q \in toInsert[w] : p.seq < q.seq =>
    \E i \in ValidPositions(batch[w]) :
      /\ batch[w][i].id = p.id
      /\ \A j \in ValidPositions(batch[w]) : batch[w][j].id = q.id => i < j

\* Every call of LogBatch returns: no interleaving of lock waits, primary key
\* waits, skipped duplicates and aborts leaves a request waiting for ever.
CallsReturn == \A w \in Writers : pc[w] # "idle" ~> pc[w] = "idle"

Log == INSTANCE ChainedLog WITH log <- rows

\* The table implements the abstract chained log: it only grows, a commit
\* appends one tenant's rows after all that tenant's rows, other tenants see
\* nothing, and the chain holds at every step.
RefinesChainedLog == Log!Spec

=============================================================================
