-------------------------- MODULE AuditChainProofs --------------------------
(***************************************************************************)
(* Proofs about AuditChain, for any number of tenants, writers, events and *)
(* batches: type correctness, the integrity of the hash chain, uniqueness  *)
(* of stored events, durability of acknowledged ones, and refinement of    *)
(* ChainedLog.                                                             *)
(***************************************************************************)
EXTENDS AuditChain, TLAPS

-----------------------------------------------------------------------------
(* The inductive invariant *)

HoldsLock(w) == pc[w] \in {"head", "load", "chain", "insert", "commit"}
Chaining(w) == pc[w] \in {"chain", "insert", "commit"}

\* The tenant's committed rows and the ones this transaction is adding.
Extended(w) == RowsOf(rows, tenant[w]) \cup toInsert[w]

HasHead(S) == S = {} \/ \E r \in S : IsLast(S, r)

\* The advisory lock belongs to the transaction that works on the tenant.
LockInv == \A w \in Writers : HoldsLock(w) => lock[tenant[w]] = w

\* ReadHead has something to read: a non-empty chain has a last row.
HeadInv == \A t \in Tenants : HasHead(RowsOf(rows, t))

\* prevHash is the head of what the tenant's chain will be after the commit.
PrevOf(w) ==
  /\ pc[w] = "load" => IsHead(RowsOf(rows, tenant[w]), prevHash[w])
  /\ Chaining(w) => /\ ChainOK(Extended(w))
                    /\ IsHead(Extended(w), prevHash[w])

PrevInv == \A w \in Writers : PrevOf(w)

\* The rows being added, and the rows found, are the caller's; those being added
\* are above everything committed.
PendingOf(w) ==
  /\ ~Chaining(w) => toInsert[w] = {} /\ existing[w] = {}
  /\ pc[w] = "chain" => inserted[w] = {}
  /\ pc[w] = "commit" => inserted[w] = toInsert[w]
  /\ \A r \in toInsert[w] :
       r.tenant = tenant[w] /\ \A q \in RowsOf(rows, tenant[w]) : q.seq < r.seq
  /\ \A r \in existing[w] : r.tenant = tenant[w]

PendingInv == \A w \in Writers : PendingOf(w)

\* Sequence numbers come from one counter, whoever draws them.
SeqInv ==
  /\ \A p, q \in rows : p.seq = q.seq => p = q
  /\ \A w \in Writers : \A p \in toInsert[w], q \in rows :
       p.seq = q.seq => p = q
  /\ \A w, v \in Writers : \A p \in toInsert[w], q \in toInsert[v] :
       p.seq = q.seq => p = q

\* The primary key, over committed rows and rows inserted but not committed.
KeyInv ==
  /\ \A p, q \in rows : p.id = q.id => p = q
  /\ \A w \in Writers :
       /\ toInsert[w] \subseteq existing[w]
       /\ \A p, q \in toInsert[w] : p.id = q.id => p = q
       /\ \A p \in inserted[w], q \in rows : p.id # q.id
       /\ \A v \in Writers \ {w} :
            \A p \in inserted[w], q \in inserted[v] : p.id # q.id

\* What locks, keys and sequence numbers guarantee.  It does not mention what
\* the rows contain, so that it also holds of a table someone tampered with.
StoreInv ==
  /\ TypeOK
  /\ LockInv
  /\ PendingInv
  /\ SeqInv
  /\ KeyInv

\* The map existing holds rows that are committed or about to be.
KnownInv ==
  \A w \in Writers : \A r \in existing[w] : r \in rows \/ r \in toInsert[w]

IInv ==
  /\ StoreInv
  /\ HeadInv
  /\ PrevInv
  /\ KnownInv
  /\ ChainIntact
  /\ AckedIsStored

-----------------------------------------------------------------------------
(* Facts about chains and rows *)

\* Linking a row above all others to the head keeps the chain intact and
\* makes that row the head: the loop body of AppendBatchChained.
LEMMA ChainExtend ==
  ASSUME NEW S, NEW r,
         \A q \in S : q.seq \in Int /\ q.seq < r.seq,
         r.seq \in Int,
         ChainOK(S), IsHead(S, r.prev), r.hash = ComputeHash(r)
  PROVE  ChainOK(S \cup {r}) /\ IsHead(S \cup {r}, r.hash)
<1>1. \A q \in S : Below(S \cup {r}, q.seq) = Below(S, q.seq)
  BY DEF Below
<1>2. Below(S \cup {r}, r.seq) = S
  BY DEF Below
<1>3. ChainOK(S \cup {r})
  <2>1. \A q \in S : q.hash = ComputeHash(q)
                     /\ IsHead(Below(S \cup {r}, q.seq), q.prev)
    BY <1>1 DEF ChainOK
  <2>2. r.hash = ComputeHash(r) /\ IsHead(Below(S \cup {r}, r.seq), r.prev)
    BY <1>2
  <2> QED BY <2>1, <2>2 DEF ChainOK
<1>4. IsLast(S \cup {r}, r)
  BY DEF IsLast
<1> QED BY <1>3, <1>4 DEF IsHead

\* A row built by the loop body has the fields of its event and its own digest.
LEMMA NewRowFields ==
  ASSUME NEW e, NEW t, NEW prev, NEW n
  PROVE  LET r == NewRow(e, t, prev, n) IN
           /\ r.id = e.id /\ r.tenant = t /\ r.ts = e.ts /\ r.data = e.data
           /\ r.seq = n /\ r.prev = prev /\ r.hash = ComputeHash(r)
BY DEF NewRow, ComputeHash

\* The loop body builds a well-formed row.
LEMMA NewRowIsRow ==
  ASSUME NEW e \in Event, NEW t \in Tenants, NEW prev, NEW n \in 1 .. MaxSeq
  PROVE  IsRow(NewRow(e, t, prev, n))
BY DEF NewRow, IsRow, Event

\* lastHashTx returns the head of a chain that has a last row.
LEMMA LastHashIsHead ==
  ASSUME NEW S, HasHead(S)
  PROVE  IsHead(S, LastHash(S))
<1>1. CASE S = {}
  BY <1>1 DEF LastHash, IsHead
<1>2. CASE \E r \in S : IsLast(S, r)
  <2>1. (CHOOSE r \in S : IsLast(S, r)) \in S
        /\ IsLast(S, CHOOSE r \in S : IsLast(S, r))
    BY <1>2
  <2> QED BY <1>2, <2>1 DEF LastHash, IsHead
<1> QED BY <1>1, <1>2 DEF HasHead

\* A chain that has a head has a last row, or no rows at all.
LEMMA HeadGivesLast ==
  ASSUME NEW S, NEW h, IsHead(S, h)
  PROVE  HasHead(S)
BY DEF IsHead, HasHead

\* prepareBatch keeps the length of the batch and the type of its events.
LEMMA PrepareType ==
  ASSUME NEW b \in Batches
  PROVE  /\ Prepare(b) \in Seq(Event)
         /\ Len(Prepare(b)) = Len(b)
         /\ ValidPositions(b) \subseteq 1 .. Len(b)
<1>1. b \in Seq(Event) /\ Len(b) \in Nat
  BY BatchesAssumption
<1>2. \A i \in 1 .. Len(b) : b[i] \in Event
  BY <1>1
<1>3. \A i \in 1 .. Len(b) : [b[i] EXCEPT !.data = Redact[@]] \in Event
  BY <1>2, RedactAssumption DEF Event
<1>4. Prepare(b) \in [1 .. Len(b) -> Event]
  BY <1>3 DEF Prepare
<1> QED BY <1>1, <1>4 DEF ValidPositions

\* The sequence number of a stored or pending row is a natural number.
LEMMA RowSeq ==
  ASSUME NEW r, IsRow(r)
  PROVE  r.seq \in Int
BY MaxSeqAssumption DEF IsRow

\* Two transactions that work on the same tenant are the same transaction.
LEMMA OneHolder ==
  ASSUME LockInv, NEW w \in Writers, NEW v \in Writers, v # w,
         HoldsLock(w), HoldsLock(v)
  PROVE  tenant[v] # tenant[w]
BY DEF LockInv

-----------------------------------------------------------------------------
(* Every step preserves the invariant *)

\* An empty store with idle writers satisfies the invariant.
LEMMA InitInv == Init => IInv
<1> SUFFICES ASSUME Init PROVE IInv
  OBVIOUS
<1> USE DEF Init
<1>1. TypeOK
  <2>1. StoreType
    BY MaxSeqAssumption DEF StoreType
  <2>2. CallType
    BY DEF CallType, PC, OnWriters
  <2>3. \A w \in Writers : WriterType(w)
    BY DEF WriterType
  <2> QED BY <2>1, <2>2, <2>3 DEF TypeOK
<1>2. LockInv /\ PrevInv /\ PendingInv /\ KnownInv
  BY DEF LockInv, PrevInv, PrevOf, PendingInv, PendingOf, HoldsLock, Chaining, KnownInv
<1>3. HeadInv /\ ChainIntact
  BY DEF HeadInv, ChainIntact, HasHead, RowsOf, ChainOK
<1>4. SeqInv /\ KeyInv /\ AckedIsStored
  BY DEF SeqInv, KeyInv, AckedIsStored
<1> QED BY <1>1, <1>2, <1>3, <1>4 DEF IInv, StoreInv

\* The end of a transaction, committed or not, leaves well-typed writers.
LEMMA EndTxType ==
  ASSUME TypeOK, NEW w \in Writers, EndTx(w)
  PROVE  CallType' /\ \A v \in Writers : WriterType(v)'
<1> USE DEF EndTx, Released, TypeOK
<1>1. CallType'
  <2> USE DEF CallType
  <2>1. pc' \in [Writers -> PC] /\ tenant' \in [Writers -> Tenants \cup {None}]
    BY DEF PC
  <2>2. batch' \in [Writers -> Seq(Event)]
    <3>1. <<>> \in Seq(Event)
      OBVIOUS
    <3> QED BY <3>1
  <2>3. todo' \in [Writers -> SUBSET Nat]
    OBVIOUS
  <2>4. /\ OnWriters(prevHash)' /\ OnWriters(existing)'
        /\ OnWriters(toInsert)' /\ OnWriters(inserted)'
    BY DEF OnWriters
  <2> QED BY <2>1, <2>2, <2>3, <2>4
<1>2. WriterType(w)'
  BY DEF CallType, WriterType, OnWriters
<1>3. ASSUME NEW v \in Writers \ {w} PROVE WriterType(v)'
  BY <1>3 DEF CallType, WriterType, OnWriters
<1> QED BY <1>1, <1>2, <1>3

\* A transaction that ends without a commit leaves the table as it was.
LEMMA RollbackStore ==
  ASSUME StoreInv, NEW w \in Writers, EndTx(w), UNCHANGED rows
  PROVE  StoreInv'
<1> USE DEF EndTx, Released, StoreInv
<1>1. TypeOK'
  BY EndTxType DEF TypeOK, StoreType
<1> USE DEF TypeOK, CallType, OnWriters
<1>2. LockInv'
  BY <1>1 DEF LockInv, HoldsLock, StoreType, WriterType
<1>3. PendingInv'
  BY DEF PendingInv, PendingOf, Chaining
<1>4. SeqInv'
  BY DEF SeqInv
<1>5. KeyInv'
  BY DEF KeyInv
<1> QED BY <1>1, <1>2, <1>3, <1>4, <1>5

\* The same with what depends on the content of the rows.
LEMMA RollbackInv ==
  ASSUME IInv, NEW w \in Writers, EndTx(w), UNCHANGED <<rows, acked>>
  PROVE  IInv'
<1> USE DEF EndTx, Released, IInv
<1>1. StoreInv'
  BY RollbackStore
<1> USE DEF StoreInv, TypeOK, CallType, OnWriters
<1>2. HeadInv' /\ ChainIntact' /\ AckedIsStored' /\ KnownInv'
  BY DEF HeadInv, ChainIntact, AckedIsStored, KnownInv
<1>3. PrevInv'
  BY DEF PrevInv, PrevOf, Chaining, Extended
<1> QED BY <1>1, <1>2, <1>3

\* LogBatch: a new call holds no lock and has read nothing.
LEMMA LogBatchStore ==
  ASSUME StoreInv, NEW w \in Writers, NEW t \in Tenants, NEW b \in Batches,
         LogBatch(w, t, b)
  PROVE  StoreInv'
<1> USE DEF LogBatch, StoreInv, TypeOK, CallType
<1>1. TypeOK'
  <2>1. StoreType'
    BY DEF StoreType
  <2>2. CallType'
    <3>1. batch' \in [Writers -> Seq(Event)] /\ todo' \in [Writers -> SUBSET Nat]
      BY PrepareType
    <3> QED BY <3>1 DEF PC, OnWriters
  <2>3. WriterType(w)'
    BY PrepareType DEF WriterType
  <2>4. ASSUME NEW v \in Writers \ {w} PROVE WriterType(v)'
    BY <2>4 DEF WriterType
  <2> QED BY <2>1, <2>2, <2>3, <2>4
<1>2. LockInv'
  BY DEF LockInv, HoldsLock
<1>3. SeqInv' /\ KeyInv'
  BY DEF SeqInv, KeyInv
<1>4. PendingInv'
  BY DEF PendingInv, PendingOf, Chaining
<1> QED BY <1>1, <1>2, <1>3, <1>4

\* AcquireLock: at most one writer passes it per tenant.
LEMMA AcquireLockStore ==
  ASSUME StoreInv, NEW w \in Writers, AcquireLock(w)
  PROVE  StoreInv'
<1> USE DEF AcquireLock, StoreInv, TypeOK, CallType
<1>1. tenant[w] \in Tenants
  BY DEF WriterType
<1>2. TypeOK'
  <2>1. StoreType' /\ CallType'
    BY DEF StoreType, PC, OnWriters
  <2>2. \A v \in Writers : WriterType(v)'
    BY <1>1 DEF WriterType
  <2> QED BY <2>1, <2>2
<1>3. LockInv'
  BY <1>1, WritersAssumption DEF LockInv, HoldsLock, StoreType
<1>4. SeqInv' /\ KeyInv'
  BY DEF SeqInv, KeyInv
<1>5. PendingInv'
  BY DEF PendingInv, PendingOf, Chaining
<1> QED BY <1>2, <1>3, <1>4, <1>5

\* ReadHead: reading the head changes no row.
LEMMA ReadHeadStore ==
  ASSUME StoreInv, NEW w \in Writers, ReadHead(w)
  PROVE  StoreInv'
<1> USE DEF ReadHead, StoreInv, TypeOK, CallType
<1>1. TypeOK'
  <2>1. StoreType' /\ CallType'
    BY DEF StoreType, PC, OnWriters
  <2>2. \A v \in Writers : WriterType(v)'
    BY DEF WriterType
  <2> QED BY <2>1, <2>2
<1>2. LockInv'
  BY DEF LockInv, HoldsLock
<1>3. SeqInv' /\ KeyInv'
  BY DEF SeqInv, KeyInv
<1>4. PendingInv'
  BY DEF PendingInv, PendingOf, Chaining
<1> QED BY <1>1, <1>2, <1>3, <1>4

\* LoadExisting: the rows found are committed rows of the tenant.
LEMMA LoadExistingStore ==
  ASSUME StoreInv, NEW w \in Writers, LoadExisting(w)
  PROVE  /\ StoreInv'
         /\ toInsert[w] = {}
         /\ \A r \in existing'[w] : r \in rows
<1> USE DEF LoadExisting, StoreInv, TypeOK, CallType
<1>1. tenant[w] \in Tenants /\ toInsert[w] = {} /\ inserted[w] = {}
  BY DEF WriterType, PendingInv, PendingOf, Chaining
<1>2. \A r \in existing'[w] : r \in rows /\ r.tenant = tenant[w]
  BY DEF RowsOf, OnWriters
<1>3. TypeOK'
  <2>1. StoreType' /\ CallType'
    BY DEF StoreType, PC, OnWriters
  <2>2. WriterType(w)'
    BY <1>1, <1>2 DEF WriterType, StoreType
  <2>3. ASSUME NEW v \in Writers \ {w} PROVE WriterType(v)'
    BY <2>3 DEF WriterType, OnWriters
  <2> QED BY <2>1, <2>2, <2>3
<1>4. LockInv'
  BY DEF LockInv, HoldsLock
<1>5. SeqInv'
  BY DEF SeqInv
<1>6. KeyInv'
  BY <1>1 DEF KeyInv, OnWriters
<1>7. PendingInv'
  <2>1. ASSUME NEW v \in Writers \ {w}
        PROVE  existing'[v] = existing[v] /\ pc'[v] = pc[v]
    BY <2>1 DEF OnWriters
  <2>2. ASSUME NEW v \in Writers \ {w} PROVE PendingOf(v)'
    BY <2>1, <2>2 DEF PendingInv, PendingOf, Chaining
  <2>3. PendingOf(w)'
    BY <1>1, <1>2 DEF PendingInv, PendingOf, Chaining
  <2> QED BY <2>2, <2>3 DEF PendingInv
<1> QED BY <1>1, <1>2, <1>3, <1>4, <1>5, <1>6, <1>7

\* SkipExisting: a skipped event leaves the pending rows alone.
LEMMA SkipExistingStore ==
  ASSUME StoreInv, NEW w \in Writers, SkipExisting(w)
  PROVE  StoreInv'
<1> USE DEF SkipExisting, StoreInv, TypeOK, CallType
<1>1. TypeOK'
  <2>1. StoreType' /\ CallType'
    BY DEF StoreType, OnWriters
  <2>2. \A v \in Writers : WriterType(v)'
    BY DEF WriterType
  <2> QED BY <2>1, <2>2
<1>2. LockInv' /\ PendingInv'
  BY DEF LockInv, PendingInv, PendingOf, HoldsLock, Chaining
<1>3. SeqInv' /\ KeyInv'
  BY DEF SeqInv, KeyInv
<1> QED BY <1>1, <1>2, <1>3

\* EndLoop: leaving the loop changes no row.
LEMMA EndLoopStore ==
  ASSUME StoreInv, NEW w \in Writers, EndLoop(w)
  PROVE  StoreInv'
<1> USE DEF EndLoop, StoreInv, TypeOK, CallType
<1>1. TypeOK'
  <2>1. StoreType' /\ CallType'
    BY DEF StoreType, PC, OnWriters
  <2>2. \A v \in Writers : WriterType(v)'
    BY DEF WriterType
  <2> QED BY <2>1, <2>2
<1>2. LockInv'
  BY DEF LockInv, HoldsLock
<1>3. PendingInv'
  BY DEF PendingInv, PendingOf, Chaining
<1>4. SeqInv' /\ KeyInv'
  BY DEF SeqInv, KeyInv
<1> QED BY <1>1, <1>2, <1>3, <1>4

\* LogBatch, AcquireLock, ReadHead, LoadExisting, SkipExisting and EndLoop: the
\* chain is as it was, and under the lock the head read stays the head.
LEMMA ReadersInv ==
  ASSUME IInv, NEW w \in Writers,
         \/ \E t \in Tenants, b \in Batches : LogBatch(w, t, b)
         \/ AcquireLock(w) \/ ReadHead(w) \/ LoadExisting(w)
         \/ SkipExisting(w) \/ EndLoop(w)
  PROVE  IInv'
<1>1. StoreInv'
  BY LogBatchStore, AcquireLockStore, ReadHeadStore, LoadExistingStore,
     SkipExistingStore, EndLoopStore DEF IInv
<1>2. UNCHANGED <<rows, toInsert, acked>>
  BY DEF LogBatch, AcquireLock, ReadHead, LoadExisting, SkipExisting, EndLoop
<1>3. HeadInv' /\ ChainIntact' /\ AckedIsStored'
  BY <1>2 DEF IInv, HeadInv, ChainIntact, AckedIsStored
<1> USE DEF IInv, StoreInv, TypeOK, CallType
<1>4. KnownInv'
  <2>1. CASE LoadExisting(w)
    <3>1. \A v \in Writers \ {w} : existing'[v] = existing[v]
      BY <2>1 DEF LoadExisting, OnWriters
    <3> QED BY <1>2, <2>1, <3>1, LoadExistingStore DEF KnownInv
  <2>2. CASE ~LoadExisting(w)
    <3>1. existing' = existing
      BY <2>2 DEF LogBatch, AcquireLock, ReadHead, SkipExisting, EndLoop
    <3> QED BY <1>2, <3>1 DEF KnownInv
  <2> QED BY <2>1, <2>2
<1>5. PrevInv'
  <2>1. CASE ReadHead(w)
    <3>1. IsHead(RowsOf(rows, tenant[w]), prevHash'[w])
      <4>1. tenant[w] \in Tenants
        BY <2>1 DEF ReadHead, WriterType
      <4> QED BY <2>1, <4>1, LastHashIsHead DEF ReadHead, HeadInv, OnWriters
    <3> QED BY <2>1, <3>1
         DEF ReadHead, PrevInv, PrevOf, Chaining, Extended, OnWriters
  <2>2. CASE LoadExisting(w)
    <3>1. tenant[w] \in Tenants /\ toInsert[w] = {}
      BY <2>2, LoadExistingStore DEF LoadExisting, WriterType
    <3>2. Extended(w) = RowsOf(rows, tenant[w])
      BY <3>1 DEF Extended
    <3>3. ChainOK(RowsOf(rows, tenant[w]))
      BY <3>1 DEF ChainIntact
    <3> QED BY <2>2, <3>2, <3>3 DEF LoadExisting, PrevInv, PrevOf, Chaining, Extended
  <2>3. CASE \E t \in Tenants, b \in Batches : LogBatch(w, t, b)
    BY <2>3 DEF LogBatch, PrevInv, PrevOf, Chaining, Extended
  <2>4. CASE AcquireLock(w) \/ SkipExisting(w)
    BY <2>4 DEF AcquireLock, SkipExisting, PrevInv, PrevOf, Chaining, Extended
  <2>5. CASE EndLoop(w)
    BY <2>5 DEF EndLoop, PrevInv, PrevOf, Chaining, Extended
  <2> QED BY <2>1, <2>2, <2>3, <2>4, <2>5
<1> QED BY <1>1, <1>3, <1>4, <1>5

\* ChainOne: the row r the loop body adds, and what the step does with it.
Adds(w, r) ==
  /\ pc[w] = "chain" /\ inserted[w] = {} /\ tenant[w] \in Tenants
  /\ nextSeq \in 1 .. MaxSeq /\ nextSeq' = nextSeq + 1
  /\ IsRow(r) /\ r.tenant = tenant[w] /\ r.seq = nextSeq
  /\ r.prev = prevHash[w] /\ r.hash = ComputeHash(r)
  /\ \A q \in existing[w] : q.id # r.id
  /\ toInsert'[w] = toInsert[w] \cup {r}
  /\ existing'[w] = existing[w] \cup {r}
  /\ prevHash'[w] = r.hash
  /\ \A v \in Writers \ {w} : /\ toInsert'[v] = toInsert[v]
                              /\ existing'[v] = existing[v]
                              /\ prevHash'[v] = prevHash[v]
  /\ UNCHANGED <<rows, lock, pc, tenant, batch, inserted, acked>>

\* The loop body builds one well-formed row, of an id the map does not have.
LEMMA ChainOneAdds ==
  ASSUME StoreInv, NEW w \in Writers, ChainOne(w)
  PROVE  (\E r : Adds(w, r)) /\ CallType' /\ todo'[w] \subseteq 1 .. Len(batch[w])
         /\ \A v \in Writers \ {w} : todo'[v] = todo[v]
<1> USE DEF StoreInv, TypeOK
<1>0. PICK i \in todo[w] :
        /\ IsFirst(i, todo[w])
        /\ ~IsKnown(w, batch[w][i])
        /\ todo' = [todo EXCEPT ![w] = @ \ {i}]
        /\ LET r == NewRow(batch[w][i], tenant[w], prevHash[w], nextSeq) IN
             /\ toInsert' = [toInsert EXCEPT ![w] = @ \cup {r}]
             /\ existing' = [existing EXCEPT ![w] = @ \cup {r}]
             /\ prevHash' = [prevHash EXCEPT ![w] = r.hash]
  BY DEF ChainOne
<1> DEFINE e == batch[w][i]
           r == NewRow(e, tenant[w], prevHash[w], nextSeq)
<1>1. /\ pc[w] = "chain" /\ tenant[w] \in Tenants /\ inserted[w] = {}
      /\ nextSeq \in 1 .. MaxSeq
  BY MaxSeqAssumption DEF ChainOne, WriterType, PendingInv, PendingOf, StoreType
<1>2. e \in Event
  <2>1. i \in 1 .. Len(batch[w]) /\ batch[w] \in Seq(Event)
    BY DEF WriterType, CallType
  <2> QED BY <2>1
<1>3. /\ r.id = e.id /\ r.tenant = tenant[w] /\ r.seq = nextSeq
      /\ r.prev = prevHash[w] /\ r.hash = ComputeHash(r)
  BY NewRowFields
<1>4. IsRow(r)
  BY <1>1, <1>2, NewRowIsRow
<1>5. /\ ~IsKnown(w, e)
      /\ nextSeq' = nextSeq + 1
      /\ toInsert' = [toInsert EXCEPT ![w] = @ \cup {r}]
      /\ existing' = [existing EXCEPT ![w] = @ \cup {r}]
      /\ prevHash' = [prevHash EXCEPT ![w] = r.hash]
      /\ todo' = [todo EXCEPT ![w] = @ \ {i}]
      /\ UNCHANGED <<rows, lock, pc, tenant, batch, inserted, acked>>
  BY <1>0 DEF ChainOne
<1> HIDE DEF r, e
<1>6. /\ toInsert'[w] = toInsert[w] \cup {r}
      /\ existing'[w] = existing[w] \cup {r}
      /\ prevHash'[w] = r.hash
      /\ \A v \in Writers \ {w} : /\ toInsert'[v] = toInsert[v]
                                  /\ existing'[v] = existing[v]
                                  /\ prevHash'[v] = prevHash[v]
                                  /\ todo'[v] = todo[v]
  BY <1>5 DEF CallType, OnWriters
<1>7. CallType' /\ todo'[w] \subseteq 1 .. Len(batch[w])
  BY <1>5 DEF CallType, OnWriters, WriterType
<1>8. \A q \in existing[w] : q.id # r.id
  BY <1>3, <1>5 DEF IsKnown
<1>9. Adds(w, r)
  BY <1>1, <1>3, <1>4, <1>5, <1>6, <1>8 DEF Adds
<1> QED BY <1>6, <1>7, <1>9

\* Every sequence number drawn so far is below the counter.
LEMMA SeqsBelow ==
  ASSUME TypeOK
  PROVE  /\ \A q \in rows : q.seq \in Int /\ q.seq < nextSeq
         /\ \A v \in Writers : \A q \in toInsert[v] : q.seq \in Int /\ q.seq < nextSeq
BY RowSeq DEF TypeOK, StoreType, WriterType

\* ChainOne: the new row is above the committed rows and the pending ones.
LEMMA ChainOneStore ==
  ASSUME StoreInv, NEW w \in Writers, ChainOne(w)
  PROVE  StoreInv'
<1> USE DEF StoreInv, TypeOK
<1>1. PICK r : Adds(w, r)
  BY ChainOneAdds
<1>2. /\ \A q \in rows : q.seq \in Int /\ q.seq < nextSeq
      /\ \A v \in Writers : \A q \in toInsert[v] : q.seq \in Int /\ q.seq < nextSeq
  BY SeqsBelow
<1>3. CallType' /\ todo'[w] \subseteq 1 .. Len(batch[w])
      /\ \A v \in Writers \ {w} : todo'[v] = todo[v]
  BY ChainOneAdds
<1> USE DEF Adds
<1>4. TypeOK'
  <2>1. StoreType'
    <3>1. nextSeq' \in 1 .. (MaxSeq + 1)
      BY <1>1, MaxSeqAssumption
    <3>2. \A q \in rows : q.seq < nextSeq'
      BY <1>1, <1>2
    <3> QED BY <1>1, <3>1, <3>2 DEF StoreType
  <2>2. WriterType(w)'
    <3>1. \A q \in existing[w] \cup toInsert[w] : IsRow(q) /\ q.seq < nextSeq
      BY DEF WriterType
    <3>2. \A q \in existing[w] \cup toInsert[w] : q.seq < nextSeq'
      BY <1>1, <3>1, RowSeq
    <3>3. r.seq < nextSeq'
      BY <1>1
    <3> QED BY <1>1, <1>3, <3>1, <3>2, <3>3 DEF WriterType
  <2>3. ASSUME NEW v \in Writers \ {w} PROVE WriterType(v)'
    <3>1. \A q \in existing[v] \cup toInsert[v] : IsRow(q) /\ q.seq < nextSeq
      BY DEF WriterType
    <3>2. \A q \in existing[v] \cup toInsert[v] : q.seq < nextSeq'
      BY <1>1, <3>1, RowSeq
    <3> QED BY <1>1, <1>3, <3>1, <3>2 DEF WriterType
  <2> QED BY <1>3, <2>1, <2>2, <2>3
<1>5. LockInv'
  BY <1>1 DEF LockInv, HoldsLock
<1>6. PendingInv'
  <2>1. PendingOf(w)'
    BY <1>1, <1>2 DEF PendingInv, PendingOf, Chaining, RowsOf
  <2>2. ASSUME NEW v \in Writers \ {w} PROVE PendingOf(v)'
    BY <1>1 DEF PendingInv, PendingOf, Chaining
  <2> QED BY <2>1, <2>2 DEF PendingInv
<1>7. SeqInv'
  <2>1. \A v \in Writers : \A q \in toInsert'[v] : q \in toInsert[v] \/ (v = w /\ q = r)
    BY <1>1
  <2>2. \A q \in rows : q.seq # r.seq
    BY <1>1, <1>2
  <2>3. \A v \in Writers : \A q \in toInsert[v] : q.seq # r.seq
    BY <1>1, <1>2
  <2> QED BY <1>1, <2>1, <2>2, <2>3 DEF SeqInv
<1>8. KeyInv'
  <2>1. \A q \in toInsert[w] : q.id # r.id
    BY <1>1 DEF KeyInv
  <2>2. ASSUME NEW v \in Writers
        PROVE  /\ toInsert'[v] \subseteq existing'[v]
               /\ \A p, q \in toInsert'[v] : p.id = q.id => p = q
    BY <1>1, <2>1 DEF KeyInv
  <2> QED BY <1>1, <2>2 DEF KeyInv
<1> QED BY <1>4, <1>5, <1>6, <1>7, <1>8

\* ChainOne: the new row is linked to the head of the pending chain.
LEMMA ChainOneInv ==
  ASSUME IInv, NEW w \in Writers, ChainOne(w)
  PROVE  IInv'
<1> USE DEF IInv
<1>1. PICK r : Adds(w, r)
  BY ChainOneAdds
<1>2. StoreInv'
  BY ChainOneStore
<1> USE DEF Adds
<1>3. HeadInv' /\ ChainIntact' /\ AckedIsStored' /\ KnownInv'
  BY <1>1 DEF HeadInv, ChainIntact, AckedIsStored, KnownInv
<1>4. PrevInv'
  <2>1. ChainOK(Extended(w)) /\ IsHead(Extended(w), r.prev)
    BY <1>1 DEF PrevInv, PrevOf, Chaining
  <2>2. \A q \in Extended(w) : q.seq \in Int /\ q.seq < r.seq
    BY <1>1, SeqsBelow DEF Extended, RowsOf, StoreInv
  <2>3. ChainOK(Extended(w) \cup {r}) /\ IsHead(Extended(w) \cup {r}, r.hash)
    BY <1>1, <2>1, <2>2, ChainExtend
  <2>4. Extended(w)' = Extended(w) \cup {r}
    BY <1>1 DEF Extended
  <2>5. PrevOf(w)'
    BY <1>1, <2>3, <2>4 DEF PrevOf
  <2>6. ASSUME NEW v \in Writers \ {w} PROVE PrevOf(v)'
    BY <1>1 DEF PrevInv, PrevOf, Chaining, Extended
  <2> QED BY <2>5, <2>6 DEF PrevInv
<1> QED BY <1>2, <1>3, <1>4

\* InsertOne: an inserted id is nobody else's, committed or not.
LEMMA InsertOneStore ==
  ASSUME StoreInv, NEW w \in Writers, InsertOne(w)
  PROVE  StoreInv' /\ \A v \in Writers : pc'[v] = pc[v] \/ {pc[v], pc'[v]} = {"insert", "commit"}
<1> USE DEF StoreInv, TypeOK, CallType
<1>1. PICK r \in toInsert[w] :
        /\ NextInsert(w, r) /\ ~PrimaryKeyTaken(r)
        /\ inserted' = [inserted EXCEPT ![w] = @ \cup {r}]
        /\ pc' = [pc EXCEPT ![w] = IF toInsert[w] \subseteq inserted[w] \cup {r}
                                   THEN "commit" ELSE "insert"]
  BY DEF InsertOne
<1>2. /\ pc[w] = "insert"
      /\ \A v \in Writers : ~WaitsFor(w, v)
      /\ UNCHANGED <<rows, nextSeq, lock, tenant, batch, todo, prevHash,
                     existing, toInsert, acked>>
  BY DEF InsertOne
<1>3. /\ inserted'[w] = inserted[w] \cup {r}
      /\ \A v \in Writers \ {w} : inserted'[v] = inserted[v] /\ pc'[v] = pc[v]
      /\ pc'[w] \in {"insert", "commit"}
      /\ pc'[w] = "commit" => toInsert[w] \subseteq inserted[w] \cup {r}
  BY <1>1 DEF OnWriters
<1>4. TypeOK'
  <2>1. StoreType' /\ CallType'
    BY <1>1, <1>2 DEF StoreType, PC, OnWriters
  <2>2. WriterType(w)'
    BY <1>2, <1>3 DEF WriterType
  <2>3. ASSUME NEW v \in Writers \ {w} PROVE WriterType(v)'
    BY <1>2, <1>3 DEF WriterType
  <2> QED BY <2>1, <2>2, <2>3
<1>5. LockInv'
  BY <1>2, <1>3 DEF LockInv, HoldsLock
<1>6. SeqInv'
  BY <1>2 DEF SeqInv
<1>7. PendingInv'
  <2>1. PendingOf(w)'
    <3>1. inserted[w] \subseteq toInsert[w]
      BY DEF WriterType
    <3> QED BY <1>2, <1>3, <3>1 DEF PendingInv, PendingOf, Chaining
  <2>2. ASSUME NEW v \in Writers \ {w} PROVE PendingOf(v)'
    BY <1>2, <1>3 DEF PendingInv, PendingOf, Chaining
  <2> QED BY <2>1, <2>2 DEF PendingInv
<1>8. KeyInv'
  <2>1. \A q \in rows : q.id # r.id
    BY <1>1 DEF PrimaryKeyTaken
  <2>2. \A v \in Writers \ {w} : \A q \in inserted[v] : q.id # r.id
    BY <1>1, <1>2 DEF WaitsFor
  <2>3. \A v \in Writers : \A p \in inserted'[v], q \in rows : p.id # q.id
    BY <1>3, <2>1 DEF KeyInv
  <2>4. \A v, u \in Writers : v # u =>
          \A p \in inserted'[v], q \in inserted'[u] : p.id # q.id
    BY <1>3, <2>2 DEF KeyInv
  <2> QED BY <1>2, <2>3, <2>4 DEF KeyInv
<1> QED BY <1>2, <1>3, <1>4, <1>5, <1>6, <1>7, <1>8

\* InsertOne leaves the chain and the pending chain alone.
LEMMA InsertOneInv ==
  ASSUME IInv, NEW w \in Writers, InsertOne(w)
  PROVE  IInv'
<1> USE DEF IInv
<1>1. /\ StoreInv'
      /\ \A v \in Writers : pc'[v] = pc[v] \/ {pc[v], pc'[v]} = {"insert", "commit"}
  BY InsertOneStore
<1>2. UNCHANGED <<rows, tenant, prevHash, existing, toInsert, acked>>
  BY DEF InsertOne
<1>3. HeadInv' /\ ChainIntact' /\ AckedIsStored' /\ KnownInv'
  BY <1>2 DEF HeadInv, ChainIntact, AckedIsStored, KnownInv
<1>4. ASSUME NEW v \in Writers PROVE PrevOf(v)'
  <2>1. /\ Chaining(v)' => Chaining(v)
        /\ pc'[v] = "load" => pc[v] = "load"
    BY <1>1 DEF Chaining
  <2> QED BY <1>2, <2>1 DEF PrevInv, PrevOf, Extended
<1> QED BY <1>1, <1>3, <1>4 DEF PrevInv

\* After a commit the tenant's rows are the ones the transaction extended,
\* every other tenant's are what they were.
LEMMA CommittedRows ==
  ASSUME StoreInv, NEW w \in Writers, pc[w] = "commit",
         rows' = rows \cup inserted[w]
  PROVE  /\ inserted[w] = toInsert[w]
         /\ tenant[w] \in Tenants
         /\ RowsOf(rows', tenant[w]) = Extended(w)
         /\ \A t \in Tenants \ {tenant[w]} : RowsOf(rows', t) = RowsOf(rows, t)
<1>1. inserted[w] = toInsert[w] /\ \A r \in toInsert[w] : r.tenant = tenant[w]
  BY DEF StoreInv, PendingInv, PendingOf
<1>2. tenant[w] \in Tenants
  BY DEF StoreInv, TypeOK, WriterType
<1> QED BY <1>1, <1>2 DEF RowsOf, Extended

\* The transaction that commits is over, the others go on with their tenants.
LEMMA CommitLeaves ==
  ASSUME StoreInv, NEW w \in Writers, pc[w] = "commit",
         rows' = rows \cup inserted[w], EndTx(w)
  PROVE  /\ pc'[w] = "idle" /\ toInsert'[w] = {} /\ existing'[w] = {}
         /\ inserted'[w] = {} /\ nextSeq' = nextSeq
         /\ \A v \in Writers \ {w} :
              /\ pc'[v] = pc[v] /\ tenant'[v] = tenant[v]
              /\ prevHash'[v] = prevHash[v] /\ existing'[v] = existing[v]
              /\ toInsert'[v] = toInsert[v] /\ inserted'[v] = inserted[v]
         /\ \A v \in Writers \ {w} : HoldsLock(v) =>
              /\ tenant[v] \in Tenants
              /\ RowsOf(rows', tenant[v]) = RowsOf(rows, tenant[v])
<1> USE DEF StoreInv
<1>1. \A t \in Tenants \ {tenant[w]} : RowsOf(rows', t) = RowsOf(rows, t)
  BY CommittedRows
<1>2. /\ pc'[w] = "idle" /\ toInsert'[w] = {} /\ existing'[w] = {}
      /\ inserted'[w] = {} /\ nextSeq' = nextSeq
      /\ \A v \in Writers \ {w} :
           /\ pc'[v] = pc[v] /\ tenant'[v] = tenant[v]
           /\ prevHash'[v] = prevHash[v] /\ existing'[v] = existing[v]
           /\ toInsert'[v] = toInsert[v] /\ inserted'[v] = inserted[v]
  BY DEF EndTx, Released, TypeOK, CallType, OnWriters
<1>3. ASSUME NEW v \in Writers \ {w}, HoldsLock(v)
      PROVE  /\ tenant[v] \in Tenants
             /\ RowsOf(rows', tenant[v]) = RowsOf(rows, tenant[v])
  <2>1. tenant[v] \in Tenants
    BY <1>3 DEF TypeOK, WriterType, HoldsLock
  <2>2. HoldsLock(w)
    BY DEF HoldsLock
  <2>3. tenant[v] # tenant[w]
    BY <1>3, <2>2, OneHolder
  <2> QED BY <1>1, <2>1, <2>3
<1> QED BY <1>2, <1>3

\* Commit: ids and sequence numbers stay unique, and no other transaction that
\* adds rows works on the tenant whose rows became more.
LEMMA CommitStore ==
  ASSUME StoreInv, NEW w \in Writers, pc[w] = "commit",
         rows' = rows \cup inserted[w], EndTx(w)
  PROVE  StoreInv'
<1> USE DEF StoreInv
<1>1. inserted[w] = toInsert[w]
  BY CommittedRows
<1>2. /\ pc'[w] = "idle" /\ toInsert'[w] = {} /\ existing'[w] = {}
      /\ inserted'[w] = {} /\ nextSeq' = nextSeq
      /\ \A v \in Writers \ {w} :
           /\ pc'[v] = pc[v] /\ tenant'[v] = tenant[v]
           /\ prevHash'[v] = prevHash[v] /\ existing'[v] = existing[v]
           /\ toInsert'[v] = toInsert[v] /\ inserted'[v] = inserted[v]
  BY CommitLeaves
<1>3. \A v \in Writers \ {w} : HoldsLock(v) =>
        tenant[v] \in Tenants /\ RowsOf(rows', tenant[v]) = RowsOf(rows, tenant[v])
  BY CommitLeaves
<1>4. TypeOK'
  <2>1. StoreType'
    <3>1. \A r \in inserted[w] : IsRow(r) /\ r.seq < nextSeq
      BY <1>1 DEF TypeOK, WriterType
    <3> QED BY <3>1 DEF TypeOK, StoreType, EndTx, Released
  <2> QED BY <2>1, EndTxType DEF TypeOK
<1>5. LockInv'
  BY <1>2, <1>3, <1>4 DEF LockInv, HoldsLock, EndTx, Released, TypeOK, StoreType
<1>6. PendingInv'
  <2>1. PendingOf(w)'
    BY <1>2 DEF PendingOf
  <2>2. ASSUME NEW v \in Writers \ {w} PROVE PendingOf(v)'
    BY <1>2, <1>3 DEF PendingInv, PendingOf, Chaining, HoldsLock
  <2> QED BY <2>1, <2>2 DEF PendingInv
<1>7. SeqInv'
  <2>1. \A p \in rows' : p \in rows \/ p \in toInsert[w]
    BY <1>1
  <2>2. \A v \in Writers : \A p \in toInsert'[v] : p \in toInsert[v]
    BY <1>2
  <2> QED BY <2>1, <2>2 DEF SeqInv
<1>8. KeyInv'
  <2>1. \A p, q \in rows' : p.id = q.id => p = q
    BY <1>1 DEF KeyInv
  <2>2. \A v \in Writers : \A p \in inserted'[v], q \in rows' : p.id # q.id
    BY <1>2 DEF KeyInv
  <2>3. \A v \in Writers : /\ toInsert'[v] \subseteq existing'[v]
                           /\ \A p, q \in toInsert'[v] : p.id = q.id => p = q
    BY <1>2 DEF KeyInv
  <2>4. \A v, u \in Writers : v # u =>
          \A p \in inserted'[v], q \in inserted'[u] : p.id # q.id
    BY <1>2 DEF KeyInv
  <2> QED BY <2>1, <2>2, <2>3, <2>4 DEF KeyInv
<1> QED BY <1>4, <1>5, <1>6, <1>7, <1>8

\* Commit, acknowledged or not: the tenant's rows are the extended chain.
LEMMA CommitInv ==
  ASSUME IInv, NEW w \in Writers, pc[w] = "commit",
         rows' = rows \cup inserted[w], EndTx(w),
         acked' = acked \/ acked' = acked \cup Acknowledged(w)
  PROVE  IInv'
<1> USE DEF IInv
<1>1. /\ inserted[w] = toInsert[w] /\ tenant[w] \in Tenants
      /\ RowsOf(rows', tenant[w]) = Extended(w)
      /\ \A t \in Tenants \ {tenant[w]} : RowsOf(rows', t) = RowsOf(rows, t)
  BY CommittedRows
<1>2. /\ pc'[w] = "idle" /\ toInsert'[w] = {} /\ existing'[w] = {}
      /\ \A v \in Writers \ {w} :
           /\ pc'[v] = pc[v] /\ tenant'[v] = tenant[v]
           /\ prevHash'[v] = prevHash[v] /\ existing'[v] = existing[v]
           /\ toInsert'[v] = toInsert[v]
  BY CommitLeaves
<1>3. Chaining(w)
  BY DEF Chaining
<1>4. \A v \in Writers \ {w} : HoldsLock(v) =>
        tenant[v] \in Tenants /\ RowsOf(rows', tenant[v]) = RowsOf(rows, tenant[v])
  BY CommitLeaves
<1>5. StoreInv'
  BY CommitStore
<1>6. ChainIntact'
  BY <1>1, <1>3 DEF ChainIntact, PrevInv, PrevOf
<1>7. HeadInv'
  <2>1. HasHead(Extended(w))
    BY <1>3, HeadGivesLast DEF PrevInv, PrevOf
  <2> QED BY <1>1, <2>1 DEF HeadInv
<1>8. PrevInv'
  <2>1. PrevOf(w)'
    BY <1>2 DEF PrevOf, Chaining
  <2>2. ASSUME NEW v \in Writers \ {w} PROVE PrevOf(v)'
    BY <1>2, <1>4 DEF PrevInv, PrevOf, Chaining, HoldsLock, Extended
  <2> QED BY <2>1, <2>2 DEF PrevInv
<1>9. KnownInv'
  BY <1>2 DEF KnownInv
<1>10. AckedIsStored'
  <2>1. \A a \in Acknowledged(w) : a.row \in existing[w] /\ a.tenant = tenant[w]
    BY DEF Acknowledged, Answers
  <2>2. \A r \in existing[w] : r.tenant = tenant[w] /\ r \in rows'
    BY <1>1 DEF StoreInv, PendingInv, PendingOf, KnownInv
  <2> QED BY <2>1, <2>2 DEF AckedIsStored
<1> QED BY <1>5, <1>6, <1>7, <1>8, <1>9, <1>10

\* Every step of a running transaction preserves the invariant.
LEMMA StepInv ==
  ASSUME IInv, NEW w \in Writers, Step(w)
  PROVE  IInv'
<1>1. CASE ReadHead(w) \/ LoadExisting(w) \/ SkipExisting(w) \/ EndLoop(w)
  BY <1>1, ReadersInv
<1>2. CASE ChainOne(w)
  BY <1>2, ChainOneInv
<1>3. CASE InsertOne(w)
  BY <1>3, InsertOneInv
<1>4. CASE Commit(w)
  BY <1>4, CommitInv DEF Commit
<1>5. CASE CommitUnacknowledged(w)
  BY <1>5, CommitInv DEF CommitUnacknowledged
<1>6. CASE SequenceExhausted(w) \/ DuplicateKey(w) \/ DeadlockVictim(w)
  BY <1>6, RollbackInv DEF SequenceExhausted, DuplicateKey, DeadlockVictim
<1> QED BY <1>1, <1>2, <1>3, <1>4, <1>5, <1>6 DEF Step

\* Locks, keys and sequence numbers keep their invariant whatever the rows
\* contain.
LEMMA NextStore ==
  ASSUME StoreInv, Next
  PROVE  StoreInv'
<1>1. ASSUME NEW w \in Writers, NEW t \in Tenants, NEW b \in Batches,
             LogBatch(w, t, b)
      PROVE  StoreInv'
  BY <1>1, LogBatchStore
<1>2. ASSUME NEW w \in Writers, AcquireLock(w) PROVE StoreInv'
  BY <1>2, AcquireLockStore
<1>3. ASSUME NEW w \in Writers, Abort(w) PROVE StoreInv'
  BY <1>3, RollbackStore DEF Abort
<1>4. ASSUME NEW w \in Writers, Step(w) PROVE StoreInv'
  <2>1. CASE ReadHead(w) \/ LoadExisting(w) \/ SkipExisting(w) \/ EndLoop(w)
    BY <2>1, ReadHeadStore, LoadExistingStore, SkipExistingStore, EndLoopStore
  <2>2. CASE ChainOne(w) \/ InsertOne(w)
    BY <2>2, ChainOneStore, InsertOneStore
  <2>3. CASE Commit(w) \/ CommitUnacknowledged(w)
    BY <2>3, CommitStore DEF Commit, CommitUnacknowledged
  <2>4. CASE SequenceExhausted(w) \/ DuplicateKey(w) \/ DeadlockVictim(w)
    BY <2>4, RollbackStore DEF SequenceExhausted, DuplicateKey, DeadlockVictim
  <2> QED BY <1>4, <2>1, <2>2, <2>3, <2>4 DEF Step
<1> QED BY <1>1, <1>2, <1>3, <1>4 DEF Next

\* A step that changes nothing the invariants read.
LEMMA StutterStore == StoreInv /\ UNCHANGED vars => StoreInv'
<1> SUFFICES ASSUME StoreInv, UNCHANGED vars PROVE StoreInv'
  OBVIOUS
<1> USE DEF StoreInv, vars
<1>1. TypeOK'
  BY DEF TypeOK, StoreType, CallType, WriterType, OnWriters
<1>2. LockInv' /\ PendingInv'
  BY DEF LockInv, HoldsLock, PendingInv, PendingOf, Chaining
<1>3. SeqInv' /\ KeyInv'
  BY DEF SeqInv, KeyInv
<1> QED BY <1>1, <1>2, <1>3

\* The same for the whole invariant.
LEMMA StutterInv == IInv /\ UNCHANGED vars => IInv'
<1> SUFFICES ASSUME IInv, UNCHANGED vars PROVE IInv'
  OBVIOUS
<1>1. StoreInv'
  BY StutterStore DEF IInv
<1> USE DEF IInv, vars
<1>2. HeadInv' /\ ChainIntact' /\ AckedIsStored' /\ KnownInv'
  BY DEF HeadInv, ChainIntact, AckedIsStored, KnownInv
<1>3. PrevInv'
  BY DEF PrevInv, PrevOf, Chaining, Extended
<1> QED BY <1>1, <1>2, <1>3

\* Every step preserves the invariant.
LEMMA NextInv == IInv /\ [Next]_vars => IInv'
<1> SUFFICES ASSUME IInv, [Next]_vars PROVE IInv'
  OBVIOUS
<1>1. ASSUME NEW w \in Writers, NEW t \in Tenants, NEW b \in Batches,
             LogBatch(w, t, b)
      PROVE  IInv'
  BY <1>1, ReadersInv
<1>2. ASSUME NEW w \in Writers, AcquireLock(w) PROVE IInv'
  BY <1>2, ReadersInv
<1>3. ASSUME NEW w \in Writers, Step(w) PROVE IInv'
  BY <1>3, StepInv
<1>4. ASSUME NEW w \in Writers, Abort(w) PROVE IInv'
  BY <1>4, RollbackInv DEF Abort
<1>5. CASE UNCHANGED vars
  BY <1>5, StutterInv
<1> QED BY <1>1, <1>2, <1>3, <1>4, <1>5 DEF Next

-----------------------------------------------------------------------------
(* Theorems *)

\* The inductive invariant holds in every reachable state.
THEOREM Invariance == Spec => []IInv
BY InitInv, NextInv, PTL DEF Spec

\* Every variable keeps its type, whatever the number of writers.
THEOREM TypeCorrect == Spec => []TypeOK
<1>1. IInv => TypeOK
  BY DEF IInv, StoreInv
<1> QED BY Invariance, <1>1, PTL

\* AppendBatchChained keeps every tenant's chain unbroken under any
\* interleaving, failure and retry.
THEOREM ChainSafe == Spec => []ChainIntact
<1>1. IInv => ChainIntact
  BY DEF IInv, StoreInv
<1> QED BY Invariance, <1>1, PTL

\* No event is stored twice, and no sequence number is used twice.
THEOREM StoredOnceSafe == Spec => []StoredOnce
<1>1. IInv => StoredOnce
  BY DEF IInv, StoreInv, SeqInv, KeyInv, StoredOnce
<1> QED BY Invariance, <1>1, PTL

\* What LogBatch acknowledges is stored, and stays stored.
THEOREM AckSafe == Spec => []AckedIsStored
<1>1. IInv => AckedIsStored
  BY DEF IInv, StoreInv
<1> QED BY Invariance, <1>1, PTL

\* A commit is an append of the abstract log.
LEMMA CommitAppends ==
  ASSUME IInv, NEW w \in Writers, pc[w] = "commit",
         rows' = rows \cup inserted[w]
  PROVE  Log!Append(tenant[w])
<1> DEFINE t == tenant[w]
           new == rows' \ rows
<1>1. /\ inserted[w] = toInsert[w]
      /\ RowsOf(rows', t) = Extended(w)
  BY CommittedRows DEF IInv
<1>2. new \subseteq toInsert[w]
  BY <1>1
<1>3. \A r \in new : r.tenant = t
  BY <1>2 DEF IInv, StoreInv, PendingInv, PendingOf
<1>4. \A r \in new, q \in Log!RowsOf(rows, t) : q.seq < r.seq
  BY <1>2 DEF IInv, StoreInv, PendingInv, PendingOf, RowsOf, Log!RowsOf
<1>5. Log!Fresh(new, rows)
  BY <1>1, <1>2 DEF IInv, StoreInv, KeyInv, Log!Fresh
<1>6. Log!ChainOK(Log!RowsOf(rows', t))
  <2>1. ChainOK(RowsOf(rows', t))
    BY <1>1 DEF IInv, StoreInv, PrevInv, PrevOf, Chaining
  <2> QED BY <2>1
       DEF ChainOK, RowsOf, IsHead, IsLast, Below, ComputeHash, Log!ChainOK,
           Log!RowsOf, Log!IsHead, Log!IsLast, Log!Below, Log!ComputeHash
<1> QED BY <1>3, <1>4, <1>5, <1>6 DEF Log!Append

\* The store implements the abstract chained log: readers of the table see it
\* grow by whole, linked, single-tenant appends and change in no other way.
THEOREM Refinement == Spec => RefinesChainedLog
<1>1. Init => Log!Init
  BY DEF Init, Log!Init
<1>2. IInv /\ [Next]_vars => [Log!Next]_rows
  <2> SUFFICES ASSUME IInv, [Next]_vars PROVE [Log!Next]_rows
    OBVIOUS
  <2>1. ASSUME NEW w \in Writers, pc[w] = "commit",
               rows' = rows \cup inserted[w]
        PROVE  Log!Next
    <3>1. tenant[w] \in Tenants
      BY <2>1, CommittedRows DEF IInv
    <3> QED BY <2>1, <3>1, CommitAppends DEF Log!Next
  <2>2. ASSUME NEW w \in Writers, Step(w) PROVE Log!Next \/ rows' = rows
    BY <2>1, <2>2
       DEF Step, ReadHead, LoadExisting, SkipExisting, ChainOne, EndLoop,
           InsertOne, Commit, CommitUnacknowledged, SequenceExhausted,
           DuplicateKey, DeadlockVictim
  <2> QED BY <2>2 DEF Next, LogBatch, AcquireLock, Abort, vars
<1> QED BY Invariance, <1>1, <1>2, PTL DEF Spec, RefinesChainedLog, Log!Spec

-----------------------------------------------------------------------------
(* The order of a request's events *)

\* Of a batch b, the loop has the positions I before it and has built the rows
\* new; known are the rows of the map existing.  What it has passed lies before
\* what it has not, is known, and gave the rows in its own order.
Orderly(b, I, known, new) ==
  /\ I \subseteq ValidPositions(b)
  /\ \A i \in ValidPositions(b) \ I :
       (\E r \in known : r.id = b[i].id) /\ \A j \in I : i < j
  /\ \A p \in new : \E i \in ValidPositions(b) \ I : b[i].id = p.id
  /\ \A p, q \in new : p.seq < q.seq =>
       \E i \in ValidPositions(b) :
         /\ b[i].id = p.id
         /\ \A j \in ValidPositions(b) : b[j].id = q.id => i < j

OrderOf(w) ==
  /\ Orderly(batch[w], todo[w], existing[w], toInsert[w])
  /\ ~Chaining(w) => todo[w] = ValidPositions(batch[w])

OrderInv == \A w \in Writers : OrderOf(w)

\* Redaction does not change which events Validate accepts.
LEMMA PrepareKeepsValid ==
  ASSUME NEW b \in Batches
  PROVE  ValidPositions(Prepare(b)) = ValidPositions(b)
<1>1. Len(Prepare(b)) = Len(b)  BY PrepareType
<1>2. ASSUME NEW i \in 1 .. Len(b) PROVE Valid(Prepare(b)[i]) <=> Valid(b[i])
  <2>1. b[i] \in Event  BY BatchesAssumption
  <2>2. Prepare(b)[i] = [b[i] EXCEPT !.data = Redact[b[i].data]]  BY DEF Prepare
  <2>3. Prepare(b)[i].data = Redact[b[i].data] /\ b[i].data \in Data
    BY <2>1, <2>2 DEF Event
  <2>4. QED  BY <2>3, RedactAssumption DEF Valid
<1>3. QED  BY <1>1, <1>2 DEF ValidPositions

\* One iteration of the loop takes the first position left.
LEMMA PassOne ==
  ASSUME NEW b, NEW I, NEW known, NEW new, Orderly(b, I, known, new),
         NEW i \in I, IsFirst(i, I), ValidPositions(b) \subseteq Int,
         NEW more, known \subseteq more, \E r \in more : r.id = b[i].id
  PROVE  Orderly(b, I \ {i}, more, new)
<1>1. \A j \in I \ {i} : i < j  BY DEF IsFirst, Orderly
<1>2. ASSUME NEW k \in ValidPositions(b) \ (I \ {i})
      PROVE  (\E r \in more : r.id = b[k].id) /\ \A j \in I \ {i} : k < j
  BY <1>1 DEF Orderly
<1>3. QED  BY <1>2 DEF Orderly

\* A row built for an id that is not known comes after every row built before.
LEMMA BuildOne ==
  ASSUME NEW b, NEW I, NEW known, NEW new, Orderly(b, I, known, new),
         NEW i \in I, IsFirst(i, I), ValidPositions(b) \subseteq Int,
         ~ \E r \in known : r.id = b[i].id,
         NEW r, r.id = b[i].id, r.seq \in Int, \A q \in new : q.seq \in Int /\ q.seq < r.seq
  PROVE  Orderly(b, I \ {i}, known \cup {r}, new \cup {r})
<1>1. Orderly(b, I \ {i}, known \cup {r}, new)  BY PassOne
<1>2. i \in ValidPositions(b) /\ i \in ValidPositions(b) \ (I \ {i})  BY DEF Orderly
<1>3. \A j \in ValidPositions(b) : b[j].id = r.id => j \in I  BY DEF Orderly
<1>4. ASSUME NEW p \in new
      PROVE  \E k \in ValidPositions(b) :
               /\ b[k].id = p.id
               /\ \A j \in ValidPositions(b) : b[j].id = r.id => k < j
  <2>1. PICK k \in ValidPositions(b) \ I : b[k].id = p.id  BY DEF Orderly
  <2>2. \A j \in I : k < j  BY DEF Orderly
  <2>3. QED  BY <1>3, <2>1, <2>2
<1>5. ASSUME NEW p \in new \cup {r}, NEW q \in new \cup {r}, p.seq < q.seq
      PROVE  \E k \in ValidPositions(b) :
               /\ b[k].id = p.id
               /\ \A j \in ValidPositions(b) : b[j].id = q.id => k < j
  <2>1. CASE p \in new /\ q \in new  BY <1>5, <2>1 DEF Orderly
  <2>2. CASE p \in new /\ q = r  BY <1>4, <2>2
  <2>3. CASE p = r  BY <1>5, <2>3
  <2>4. QED  BY <2>1, <2>2, <2>3
<1>6. QED  BY <1>1, <1>2, <1>5 DEF Orderly

\* A step that touches no batch and no loop.
LEMMA OrderUnchanged ==
  ASSUME OrderInv, UNCHANGED <<batch, todo, existing, toInsert>>,
         \A w \in Writers : Chaining(w) => Chaining(w)'
  PROVE  OrderInv'
BY DEF OrderInv, OrderOf

\* A transaction that ends forgets its batch.
LEMMA EndTxOrder ==
  ASSUME TypeOK, OrderInv, NEW w \in Writers, EndTx(w)
  PROVE  OrderInv'
<1>1. /\ batch'[w] = <<>> /\ todo'[w] = {} /\ existing'[w] = {} /\ toInsert'[w] = {}
  BY DEF EndTx, TypeOK, CallType, OnWriters
<1>2. ValidPositions(<<>>) = {}  BY DEF ValidPositions
<1>3. OrderOf(w)'  BY <1>1, <1>2 DEF OrderOf, Orderly
<1>4. ASSUME NEW v \in Writers \ {w} PROVE OrderOf(v)'
  <2>1. /\ batch'[v] = batch[v] /\ todo'[v] = todo[v] /\ existing'[v] = existing[v]
        /\ toInsert'[v] = toInsert[v] /\ pc'[v] = pc[v]
    BY DEF EndTx, TypeOK, CallType, OnWriters
  <2>2. QED  BY <2>1 DEF OrderInv, OrderOf, Chaining
<1>5. QED  BY <1>3, <1>4 DEF OrderInv

\* Only one writer's call changes.
LEMMA OrderElsewhere ==
  ASSUME OrderInv, NEW w \in Writers,
         \A v \in Writers \ {w} :
           /\ batch'[v] = batch[v] /\ todo'[v] = todo[v] /\ existing'[v] = existing[v]
           /\ toInsert'[v] = toInsert[v] /\ pc'[v] = pc[v],
         OrderOf(w)'
  PROVE  OrderInv'
<1>1. ASSUME NEW v \in Writers \ {w} PROVE OrderOf(v)'
  BY <1>1 DEF OrderInv, OrderOf, Chaining
<1>2. QED  BY <1>1 DEF OrderInv

\* A new call has all of its valid positions before it.
LEMMA LogBatchOrder ==
  ASSUME IInv, OrderInv, NEW w \in Writers, NEW t \in Tenants, NEW b \in Batches,
         LogBatch(w, t, b)
  PROVE  OrderInv'
<1>1. /\ batch'[w] = Prepare(b) /\ todo'[w] = ValidPositions(b)
      /\ existing' = existing /\ toInsert' = toInsert /\ pc'[w] = "lock"
      /\ existing[w] = {} /\ toInsert[w] = {}
  BY DEF LogBatch, IInv, StoreInv, TypeOK, CallType, PendingInv, PendingOf, Chaining
<1>2. OrderOf(w)'  BY <1>1, PrepareKeepsValid DEF OrderOf, Orderly
<1>3. \A v \in Writers \ {w} :
        /\ batch'[v] = batch[v] /\ todo'[v] = todo[v] /\ existing'[v] = existing[v]
        /\ toInsert'[v] = toInsert[v] /\ pc'[v] = pc[v]
  BY DEF LogBatch, IInv, StoreInv, TypeOK, CallType
<1>4. QED  BY <1>2, <1>3, OrderElsewhere

\* Nothing has been passed when the map is loaded.
LEMMA LoadExistingOrder ==
  ASSUME IInv, OrderInv, NEW w \in Writers, LoadExisting(w)
  PROVE  OrderInv'
<1>1. /\ batch' = batch /\ todo' = todo /\ toInsert' = toInsert /\ toInsert[w] = {}
      /\ todo[w] = ValidPositions(batch[w]) /\ pc'[w] = "chain"
  BY DEF LoadExisting, IInv, StoreInv, TypeOK, CallType, PendingInv, PendingOf, Chaining, OrderInv,
         OrderOf
<1>2. OrderOf(w)'  BY <1>1 DEF OrderOf, Orderly, Chaining
<1>3. \A v \in Writers \ {w} : existing'[v] = existing[v] /\ pc'[v] = pc[v]
  BY DEF LoadExisting, IInv, StoreInv, TypeOK, CallType, OnWriters
<1>4. QED  BY <1>1, <1>2, <1>3, OrderElsewhere

\* Both iterations of the loop: an event is skipped or becomes a row.
LEMMA LoopOrder ==
  ASSUME IInv, OrderInv, NEW w \in Writers, SkipExisting(w) \/ ChainOne(w)
  PROVE  OrderInv'
<1>1. /\ pc[w] = "chain" /\ pc' = pc /\ batch' = batch /\ Chaining(w)
      /\ Orderly(batch[w], todo[w], existing[w], toInsert[w])
  BY DEF SkipExisting, ChainOne, OrderInv, OrderOf, Chaining
<1>2. ValidPositions(batch[w]) \subseteq Int  BY DEF ValidPositions
<1>3. CASE SkipExisting(w)
  <2>1. PICK i \in todo[w] : /\ IsFirst(i, todo[w]) /\ IsKnown(w, batch[w][i])
                             /\ todo' = [todo EXCEPT ![w] = @ \ {i}]
    BY <1>3 DEF SkipExisting
  <2>2. existing' = existing /\ toInsert' = toInsert  BY <1>3 DEF SkipExisting
  <2>3. /\ todo'[w] = todo[w] \ {i} /\ \A v \in Writers \ {w} : todo'[v] = todo[v]
    BY <2>1 DEF IInv, StoreInv, TypeOK, CallType
  <2>4. \E r \in existing[w] : r.id = batch[w][i].id  BY <2>1 DEF IsKnown
  <2>5. Orderly(batch[w], todo[w] \ {i}, existing[w], toInsert[w])
    BY <1>1, <1>2, <2>1, <2>4, PassOne
  <2>6. OrderOf(w)'  BY <1>1, <2>2, <2>3, <2>5 DEF OrderOf, Chaining
  <2>7. QED  BY <1>1, <2>2, <2>3, <2>6, OrderElsewhere
<1>4. CASE ChainOne(w)
  <2>1. PICK i \in todo[w] :
          LET r == NewRow(batch[w][i], tenant[w], prevHash[w], nextSeq) IN
            /\ IsFirst(i, todo[w]) /\ ~IsKnown(w, batch[w][i])
            /\ todo' = [todo EXCEPT ![w] = @ \ {i}]
            /\ toInsert' = [toInsert EXCEPT ![w] = @ \cup {r}]
            /\ existing' = [existing EXCEPT ![w] = @ \cup {r}]
    BY <1>4 DEF ChainOne
  <2>2. PICK r : r = NewRow(batch[w][i], tenant[w], prevHash[w], nextSeq)  OBVIOUS
  <2>3. r.id = batch[w][i].id /\ r.seq = nextSeq  BY <2>2, NewRowFields
  <2>4. nextSeq \in Int  BY DEF IInv, StoreInv, TypeOK, StoreType
  <2>5. \A q \in toInsert[w] : q.seq \in Int /\ q.seq < nextSeq
    BY RowSeq DEF IInv, StoreInv, TypeOK, WriterType
  <2>6. /\ todo'[w] = todo[w] \ {i} /\ toInsert'[w] = toInsert[w] \cup {r}
        /\ existing'[w] = existing[w] \cup {r}
        /\ \A v \in Writers \ {w} : /\ todo'[v] = todo[v] /\ toInsert'[v] = toInsert[v]
                                    /\ existing'[v] = existing[v]
    BY <2>1, <2>2 DEF IInv, StoreInv, TypeOK, CallType, OnWriters
  <2>7. ~ \E q \in existing[w] : q.id = batch[w][i].id  BY <2>1 DEF IsKnown
  <2>8. Orderly(batch[w], todo[w] \ {i}, existing[w] \cup {r}, toInsert[w] \cup {r})
    BY <1>1, <1>2, <2>1, <2>3, <2>4, <2>5, <2>7, BuildOne
  <2>9. OrderOf(w)'  BY <1>1, <2>6, <2>8 DEF OrderOf, Chaining
  <2>10. QED  BY <1>1, <2>6, <2>9, OrderElsewhere
<1>5. QED  BY <1>3, <1>4

\* Every step preserves the order.
LEMMA NextOrder == IInv /\ OrderInv /\ [Next]_vars => OrderInv'
<1> SUFFICES ASSUME IInv, OrderInv, [Next]_vars PROVE OrderInv'
  OBVIOUS
<1>0. TypeOK  BY DEF IInv, StoreInv
<1>1. ASSUME NEW w \in Writers, NEW t \in Tenants, NEW b \in Batches, LogBatch(w, t, b)
      PROVE  OrderInv'
  BY <1>1, LogBatchOrder
<1>2. ASSUME NEW w \in Writers,
             AcquireLock(w) \/ ReadHead(w) \/ EndLoop(w) \/ InsertOne(w)
      PROVE  OrderInv'
  <2>1. UNCHANGED <<batch, todo, existing, toInsert>>
    BY <1>2 DEF AcquireLock, ReadHead, EndLoop, InsertOne
  <2>2. \A v \in Writers : Chaining(v) => Chaining(v)'
    BY <1>0, <1>2 DEF AcquireLock, ReadHead, EndLoop, InsertOne, Chaining, TypeOK, CallType
  <2>3. QED  BY <2>1, <2>2, OrderUnchanged
<1>3. ASSUME NEW w \in Writers, EndTx(w) PROVE OrderInv'
  BY <1>0, <1>3, EndTxOrder
<1>4. ASSUME NEW w \in Writers, Step(w) \/ Abort(w) PROVE OrderInv'
  BY <1>2, <1>3, <1>4, LoadExistingOrder, LoopOrder
     DEF Step, Abort, Commit, CommitUnacknowledged, SequenceExhausted, DuplicateKey,
         DeadlockVictim
<1>5. CASE UNCHANGED vars
  BY <1>5, OrderUnchanged DEF vars, Chaining
<1>6. QED  BY <1>1, <1>2, <1>4, <1>5 DEF Next

\* New events of one request enter the chain in the order in which the request
\* lists their ids, with duplicates, skipped events and concurrent requests.
THEOREM SliceOrderSafe == Spec => []SliceOrder
<1>1. Init => OrderInv
  BY DEF Init, OrderInv, OrderOf, Orderly, ValidPositions
<1>2. OrderInv => SliceOrder
  BY DEF OrderInv, OrderOf, Orderly, SliceOrder
<1> QED BY Invariance, NextOrder, <1>1, <1>2, PTL DEF Spec

=============================================================================
