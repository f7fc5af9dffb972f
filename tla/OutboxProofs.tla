---------------------------- MODULE OutboxProofs ----------------------------
(***************************************************************************)
(* Proofs about Outbox, for any number of requests, workers and faults:    *)
(* committed receipts are stored, a request leaves one copy of its event,  *)
(* and no accepted request is forgotten or fails in silence.               *)
(***************************************************************************)
EXTENDS Outbox, FiniteSetTheorems, WellFoundedInduction, TLAPS

-----------------------------------------------------------------------------
(* The inductive invariant *)

RowType == [status : {"none", "pending", "processing", "done", "failed"},
            attempts : 0 .. MaxAttempts, avail : {"future", "ready", "old"}]

WorkerType == [pc : {"idle", "commit", "mark", "retry"}, todo : SUBSET Receipts,
               attempts : UNION {[S -> Nat] : S \in SUBSET Receipts}]

Types ==
  /\ receipt \in [Receipts -> {"none", "sync", "queued", "committed", "failed"}]
  /\ row \in [Receipts -> RowType]
  /\ order \in Seq(Receipts)
  /\ worker \in [Workers -> WorkerType]
  /\ eventID \in [Receipts -> Nat]
  /\ nextID \in Nat \ {0}
  /\ faults \in 0 .. MaxFaults

Queued(r) == receipt[r] \notin {"none", "sync"}

\* The receipts, the rows and the order of creation name the same requests, each
\* once.
QueueInv ==
  /\ \A r \in Receipts : Queued(r) <=> row[r].status # "none"
  /\ \A r \in Receipts : Queued(r) <=> \E i \in DOMAIN order : order[i] = r
  /\ \A i, j \in DOMAIN order : order[i] = order[j] => i = j

\* Rows that may be claimed, and rows in hand, have an attempt left.
AttemptsInv ==
  /\ \A r \in Receipts : Live(r) => row[r].attempts < MaxAttempts
  /\ \A w \in Workers : \A r \in worker[w].todo :
       /\ Queued(r)
       /\ r \in DOMAIN worker[w].attempts
       /\ worker[w].attempts[r] \in 0 .. (MaxAttempts - 1)
  /\ \A w \in Workers : worker[w].pc = "idle" <=> worker[w].todo = {}

\* Ids are drawn once, and what is stored bears the id its request was given.
StoredInv ==
  /\ \A r \in Receipts : receipt[r] # "none" => eventID[r] \in 1 .. (nextID - 1)
  /\ \A r, q \in Receipts :
       receipt[r] # "none" /\ receipt[q] # "none" /\ eventID[r] = eventID[q] => r = q
  /\ \A p \in stored :
       p[1] \in Receipts /\ receipt[p[1]] # "none" /\ p = <<p[1], eventID[p[1]]>>

\* Between its statements a worker remembers what it has done.
WorkerInv ==
  \A w \in Workers :
    /\ worker[w].pc = "mark" => <<Current(w), eventID[Current(w)]>> \in stored
    /\ worker[w].pc = "retry" /\ LastAttempt(w) => Current(w) \in alerted

OutboxInv ==
  /\ Types /\ QueueInv /\ AttemptsInv /\ StoredInv /\ WorkerInv
  /\ CommittedIsStored /\ QueuedIsLive /\ FailureIsAnnounced

-----------------------------------------------------------------------------
(* Facts about the order in which a worker takes its rows *)

\* A non-empty set of naturals has a least element.
LEMMA LeastNatural ==
  ASSUME NEW T, T \subseteq Nat, T # {}
  PROVE  \E x \in T : \A y \in T : x <= y
<1> DEFINE R == OpToRel(<, Nat)
<1>1. IsWellFoundedOn(R, Nat)
  BY NatLessThanWellFounded
<1>2. \A x, y \in Nat : x < y => <<x, y>> \in R
  BY DEF OpToRel
<1> HIDE DEF R
<1>3. PICK x \in T : \A y \in T : ~(<<y, x>> \in R)
  BY <1>1, WFMin
<1>4. ASSUME NEW y \in T PROVE x <= y
  <2>1. x \in Nat /\ y \in Nat
    OBVIOUS
  <2>2. ~(y < x)
    BY <1>2, <1>3, <2>1
  <2> QED BY <2>1, <2>2
<1> QED BY <1>4

\* The place of a request in a sequence, and the first of a set of requests:
\* Position and Current for any order.
PlaceIn(s, r) == CHOOSE i \in DOMAIN s : s[i] = r
FirstIn(s, T) == CHOOSE r \in T : \A q \in T : PlaceIn(s, r) <= PlaceIn(s, q)

\* A member of a sequence has a place in it.
LEMMA PlaceIs ==
  ASSUME NEW s, NEW r, \E i \in DOMAIN s : s[i] = r
  PROVE  PlaceIn(s, r) \in DOMAIN s /\ s[PlaceIn(s, r)] = r
BY DEF PlaceIn

\* A non-empty set of members has a first one.
LEMMA FirstIs ==
  ASSUME NEW s, DOMAIN s \subseteq Nat,
         NEW T, T # {}, \A r \in T : \E i \in DOMAIN s : s[i] = r
  PROVE  /\ FirstIn(s, T) \in T
         /\ \A q \in T : PlaceIn(s, FirstIn(s, T)) <= PlaceIn(s, q)
<1> DEFINE P == {PlaceIn(s, r) : r \in T}
<1>1. \A r \in T : PlaceIn(s, r) \in Nat
  BY PlaceIs
<1>2. P \subseteq Nat /\ P # {}
  BY <1>1
<1>3. PICK x \in P : \A y \in P : x <= y
  <2> HIDE DEF P
  <2> QED BY <1>2, LeastNatural
<1>4. \E r \in T : \A q \in T : PlaceIn(s, r) <= PlaceIn(s, q)
  BY <1>3
<1> QED BY <1>4 DEF FirstIn

\* Requests at the end of the queue do not change which one comes first.
LEMMA FirstStays ==
  ASSUME NEW s, NEW t, DOMAIN s \subseteq Nat, DOMAIN s \subseteq DOMAIN t,
         DOMAIN t \subseteq Nat,
         \A i \in DOMAIN s : t[i] = s[i],
         \A i, j \in DOMAIN t : t[i] = t[j] => i = j,
         NEW T, T # {}, \A r \in T : \E i \in DOMAIN s : s[i] = r
  PROVE  FirstIn(t, T) = FirstIn(s, T)
<1>1. \A r \in T : PlaceIn(t, r) = PlaceIn(s, r) /\ PlaceIn(s, r) \in Nat
  <2> SUFFICES ASSUME NEW r \in T
               PROVE  PlaceIn(t, r) = PlaceIn(s, r) /\ PlaceIn(s, r) \in Nat
    OBVIOUS
  <2>1. PlaceIn(s, r) \in DOMAIN s /\ s[PlaceIn(s, r)] = r
    BY PlaceIs
  <2>2. PlaceIn(t, r) \in DOMAIN t /\ t[PlaceIn(t, r)] = r
    BY <2>1, PlaceIs
  <2> QED BY <2>1, <2>2
<1>2. /\ FirstIn(s, T) \in T
      /\ \A q \in T : PlaceIn(s, FirstIn(s, T)) <= PlaceIn(s, q)
  BY FirstIs
<1>3. /\ FirstIn(t, T) \in T
      /\ \A q \in T : PlaceIn(t, FirstIn(t, T)) <= PlaceIn(t, q)
  <2>1. \A r \in T : \E i \in DOMAIN t : t[i] = r
    OBVIOUS
  <2> QED BY <2>1, FirstIs
<1>4. PlaceIn(s, FirstIn(t, T)) = PlaceIn(s, FirstIn(s, T))
  BY <1>1, <1>2, <1>3
<1> QED BY <1>2, <1>3, <1>4, PlaceIs

\* Current is the row in hand that was created first.
LEMMA CurrentIs ==
  ASSUME NEW w \in Workers
  PROVE  /\ Current(w) = FirstIn(order, worker[w].todo)
         /\ Current(w)' = FirstIn(order', worker'[w].todo)
BY DEF Current, FirstIn, Position, PlaceIn

\* A busy worker has a row in hand, with an attempt left for it.
LEMMA CurrentInHand ==
  ASSUME Types, QueueInv, AttemptsInv, NEW w \in Workers, worker[w].pc # "idle"
  PROVE  /\ Current(w) \in worker[w].todo
         /\ Current(w) \in Receipts /\ Queued(Current(w))
         /\ worker[w].attempts[Current(w)] \in 0 .. (MaxAttempts - 1)
<1>1. worker[w].todo \subseteq Receipts /\ worker[w].todo # {}
  BY DEF Types, WorkerType, AttemptsInv
<1>2. \A r \in worker[w].todo : \E i \in DOMAIN order : order[i] = r
  BY <1>1 DEF AttemptsInv, QueueInv
<1>3. DOMAIN order \subseteq Nat
  BY DEF Types
<1>4. Current(w) \in worker[w].todo
  BY <1>1, <1>2, <1>3, FirstIs, CurrentIs
<1> QED BY <1>1, <1>4 DEF AttemptsInv

\* What a worker has in hand comes first as long as it keeps the same rows.
LEMMA CurrentStays ==
  ASSUME NEW w \in Workers, worker'[w].todo = worker[w].todo, order' = order
  PROVE  Current(w)' = Current(w)
BY CurrentIs

-----------------------------------------------------------------------------
(* Every step preserves the invariant *)

\* An empty outbox satisfies the invariant.
LEMMA InitInv == Init => OutboxInv
<1> SUFFICES ASSUME Init PROVE OutboxInv
  OBVIOUS
<1> USE DEF Init
<1>1. Types
  <2>1. NoRow \in RowType
    BY SizesAssumption DEF NoRow, RowType
  <2>2. [r \in {} |-> 0] \in [{} -> Nat]
    OBVIOUS
  <2>3. Resting \in WorkerType
    BY <2>2 DEF Resting, WorkerType
  <2> QED BY <2>1, <2>3, SizesAssumption DEF Types
<1>2. QueueInv
  BY DEF QueueInv, Queued, NoRow
<1>3. AttemptsInv
  BY DEF AttemptsInv, Live, NoRow, Resting
<1>4. StoredInv /\ WorkerInv
  BY DEF StoredInv, WorkerInv, Resting
<1>5. CommittedIsStored /\ QueuedIsLive /\ FailureIsAnnounced
  BY DEF CommittedIsStored, QueuedIsLive, FailureIsAnnounced
<1> QED BY <1>1, <1>2, <1>3, <1>4, <1>5 DEF OutboxInv

\* A request joins the queue, with or without having been committed.
LEMMA JoinKeepsQueue ==
  ASSUME OutboxInv, NEW r \in Receipts, receipt[r] = "none",
         receipt' = [receipt EXCEPT ![r] = "queued"],
         row' = [row EXCEPT ![r] = NewRow], order' = Append(order, r)
  PROVE  /\ receipt' \in [Receipts -> {"none", "sync", "queued", "committed", "failed"}]
         /\ row' \in [Receipts -> RowType] /\ order' \in Seq(Receipts)
         /\ QueueInv'
         /\ DOMAIN order \subseteq DOMAIN order'
         /\ \A i \in DOMAIN order : order'[i] = order[i]
<1> USE DEF OutboxInv, Types
<1>1. receipt' \in [Receipts -> {"none", "sync", "queued", "committed", "failed"}]
  OBVIOUS
<1>2. NewRow \in RowType
  BY SizesAssumption DEF NewRow, RowType
<1>3. row' \in [Receipts -> RowType]
  BY <1>2
<1>4. /\ order' \in Seq(Receipts) /\ Len(order') = Len(order) + 1
      /\ order'[Len(order) + 1] = r
      /\ \A i \in DOMAIN order : order'[i] = order[i]
      /\ DOMAIN order = 1 .. Len(order) /\ DOMAIN order' = 1 .. (Len(order) + 1)
      /\ Len(order) \in Nat
  OBVIOUS
<1>5. ~ \E i \in DOMAIN order : order[i] = r
  BY DEF QueueInv, Queued
<1>6. \A q \in Receipts : Queued(q)' <=> row'[q].status # "none"
  BY DEF QueueInv, Queued, NewRow
<1>7. \A q \in Receipts : Queued(q)' <=> \E i \in DOMAIN order' : order'[i] = q
  <2> TAKE q \in Receipts
  <2>1. (\E i \in DOMAIN order' : order'[i] = q)
          <=> q = r \/ \E i \in DOMAIN order : order[i] = q
    <3>1. Len(order) + 1 \in DOMAIN order'
      BY <1>4
    <3>2. \A i \in DOMAIN order' : i \in DOMAIN order \/ i = Len(order) + 1
      BY <1>4
    <3>3. DOMAIN order \subseteq DOMAIN order'
      BY <1>4
    <3> HIDE DEF OutboxInv, Types
    <3> QED BY <1>4, <3>1, <3>2, <3>3
  <2> QED BY <2>1 DEF QueueInv, Queued
<1>8. \A i, j \in DOMAIN order' : order'[i] = order'[j] => i = j
  <2> SUFFICES ASSUME NEW i \in DOMAIN order', NEW j \in DOMAIN order',
                      order'[i] = order'[j]
               PROVE  i = j
    OBVIOUS
  <2>1. CASE i \in DOMAIN order /\ j \in DOMAIN order
    BY <1>4, <2>1 DEF QueueInv
  <2>2. CASE i \notin DOMAIN order \/ j \notin DOMAIN order
    BY <1>4, <1>5, <2>2
  <2> QED BY <2>1, <2>2
<1> QED BY <1>1, <1>3, <1>4, <1>6, <1>7, <1>8 DEF QueueInv

\* Where order only grows, a busy worker keeps its place.
LEMMA CurrentStaysOnJoin ==
  ASSUME OutboxInv, QueueInv', UNCHANGED worker, order' \in Seq(Receipts),
         DOMAIN order \subseteq DOMAIN order',
         \A i \in DOMAIN order : order'[i] = order[i],
         NEW w \in Workers, worker[w].pc # "idle"
  PROVE  Current(w)' = Current(w)
<1>1. worker[w].todo \subseteq Receipts /\ worker[w].todo # {}
  BY DEF OutboxInv, Types, WorkerType, AttemptsInv
<1>2. \A r \in worker[w].todo : \E i \in DOMAIN order : order[i] = r
  BY <1>1 DEF OutboxInv, AttemptsInv, QueueInv
<1>3. DOMAIN order \subseteq Nat /\ DOMAIN order' \subseteq Nat
  BY DEF OutboxInv, Types
<1>4. \A i, j \in DOMAIN order' : order'[i] = order'[j] => i = j
  BY DEF QueueInv
<1>5. FirstIn(order', worker[w].todo) = FirstIn(order, worker[w].todo)
  BY <1>1, <1>2, <1>3, <1>4, FirstStays
<1> QED BY <1>5, CurrentIs

\* A new id is no request's yet.
LEMMA AssignKeepsStored ==
  ASSUME OutboxInv, NEW r \in Receipts, receipt[r] = "none", AssignID(r),
         NEW st, st # "none", receipt' = [receipt EXCEPT ![r] = st],
         stored' = stored \/ stored' = stored \cup {<<r, nextID>>}
  PROVE  /\ StoredInv' /\ eventID' \in [Receipts -> Nat] /\ nextID' \in Nat \ {0}
         /\ \A q \in Receipts : receipt[q] # "none" => eventID'[q] = eventID[q]
<1> USE DEF OutboxInv, Types, AssignID
<1>1. eventID' \in [Receipts -> Nat] /\ nextID' \in Nat \ {0}
  OBVIOUS
<1>2. \A q \in Receipts \ {r} : eventID'[q] = eventID[q] /\ receipt'[q] = receipt[q]
  OBVIOUS
<1>3. eventID'[r] = nextID /\ receipt'[r] # "none"
  OBVIOUS
<1>4. \A q \in Receipts : receipt'[q] # "none" => eventID'[q] \in 1 .. (nextID' - 1)
  BY <1>2, <1>3 DEF StoredInv
<1>5. \A p, q \in Receipts :
        receipt'[p] # "none" /\ receipt'[q] # "none" /\ eventID'[p] = eventID'[q] => p = q
  BY <1>2, <1>3 DEF StoredInv
<1>6. \A p \in stored' :
        p[1] \in Receipts /\ receipt'[p[1]] # "none" /\ p = <<p[1], eventID'[p[1]]>>
  <2> TAKE p \in stored'
  <2>1. CASE p \in stored
    BY <1>2, <2>1 DEF StoredInv
  <2>2. CASE p = <<r, nextID>>
    BY <1>3, <2>2
  <2> QED BY <2>1, <2>2
<1> QED BY <1>1, <1>2, <1>4, <1>5, <1>6 DEF StoredInv

\* A request that joins the queue leaves the workers where they are.
LEMMA JoinKeepsRest ==
  ASSUME OutboxInv, NEW r \in Receipts, receipt[r] = "none", AssignID(r),
         receipt' = [receipt EXCEPT ![r] = "queued"],
         row' = [row EXCEPT ![r] = NewRow], order' = Append(order, r),
         stored' = stored \/ stored' = stored \cup {<<r, nextID>>},
         UNCHANGED <<claimAge, worker, alerted, faults>>
  PROVE  OutboxInv'
<1>1. /\ Types' /\ QueueInv' /\ StoredInv'
      /\ \A q \in Receipts : receipt[q] # "none" => eventID'[q] = eventID[q]
      /\ DOMAIN order \subseteq DOMAIN order'
      /\ \A i \in DOMAIN order : order'[i] = order[i]
  BY JoinKeepsQueue, AssignKeepsStored DEF OutboxInv, Types
<1>2. AttemptsInv'
  <2>1. \A q \in Receipts : Live(q)' => row'[q].attempts < MaxAttempts
    BY SizesAssumption DEF OutboxInv, Types, AttemptsInv, Live, NewRow
  <2>2. \A q \in Receipts : Queued(q) => Queued(q)'
    BY DEF OutboxInv, Types, Queued
  <2>3. \A w \in Workers : worker[w].todo \subseteq Receipts
    BY DEF OutboxInv, Types, WorkerType
  <2> QED BY <2>1, <2>2, <2>3 DEF OutboxInv, AttemptsInv
<1>3. WorkerInv'
  <2> SUFFICES ASSUME NEW w \in Workers, worker[w].pc # "idle"
               PROVE  /\ worker[w].pc = "mark"
                           => <<Current(w)', eventID'[Current(w)']>> \in stored'
                      /\ worker[w].pc = "retry" /\ LastAttempt(w)'
                           => Current(w)' \in alerted
    BY DEF WorkerInv
  <2>1. Current(w)' = Current(w)
    BY <1>1, CurrentStaysOnJoin DEF Types
  <2>2. Current(w) \in Receipts /\ Queued(Current(w))
    BY CurrentInHand DEF OutboxInv
  <2>3. eventID'[Current(w)] = eventID[Current(w)]
    BY <1>1, <2>2 DEF Queued
  <2>4. LastAttempt(w)' <=> LastAttempt(w)
    BY <2>1 DEF LastAttempt
  <2> QED BY <2>1, <2>3, <2>4 DEF OutboxInv, WorkerInv
<1>4. CommittedIsStored'
  BY <1>1 DEF OutboxInv, Types, CommittedIsStored
<1>5. QueuedIsLive' /\ FailureIsAnnounced'
  BY DEF OutboxInv, Types, QueuedIsLive, FailureIsAnnounced, Live, NewRow
<1> QED BY <1>1, <1>2, <1>3, <1>4, <1>5 DEF OutboxInv

\* A request committed synchronously never joins the queue.
LEMMA SyncKeepsRest ==
  ASSUME OutboxInv, NEW r \in Receipts, receipt[r] = "none", AssignID(r),
         receipt' = [receipt EXCEPT ![r] = "sync"],
         stored' = stored \cup {<<r, nextID>>},
         UNCHANGED <<claimAge, row, order, worker, alerted, faults>>
  PROVE  OutboxInv'
<1>1. /\ Types' /\ StoredInv'
      /\ \A q \in Receipts : receipt[q] # "none" => eventID'[q] = eventID[q]
  BY AssignKeepsStored DEF OutboxInv, Types
<1>2. \A q \in Receipts : Queued(q)' <=> Queued(q)
  BY DEF OutboxInv, Types, Queued
<1>3. QueueInv'
  BY <1>2 DEF OutboxInv, QueueInv
<1>4. \A w \in Workers : worker[w].todo \subseteq Receipts
  BY DEF OutboxInv, Types, WorkerType
<1>5. AttemptsInv'
  BY <1>2, <1>4 DEF OutboxInv, AttemptsInv, Live
<1>6. WorkerInv'
  <2> SUFFICES ASSUME NEW w \in Workers, worker[w].pc # "idle"
               PROVE  /\ worker[w].pc = "mark"
                           => <<Current(w)', eventID'[Current(w)']>> \in stored'
                      /\ worker[w].pc = "retry" /\ LastAttempt(w)'
                           => Current(w)' \in alerted
    BY DEF WorkerInv
  <2>1. Current(w)' = Current(w)
    BY CurrentStays
  <2>2. eventID'[Current(w)] = eventID[Current(w)]
    BY <1>1, CurrentInHand DEF OutboxInv, Queued
  <2>3. LastAttempt(w)' <=> LastAttempt(w)
    BY <2>1 DEF LastAttempt
  <2> QED BY <2>1, <2>2, <2>3 DEF OutboxInv, WorkerInv
<1>7. CommittedIsStored' /\ QueuedIsLive' /\ FailureIsAnnounced'
  BY <1>1 DEF OutboxInv, Types, CommittedIsStored, QueuedIsLive,
              FailureIsAnnounced, Live
<1> QED BY <1>1, <1>3, <1>5, <1>6, <1>7 DEF OutboxInv

\* Rows may age, be claimed and be taken back: what matters of a row is that it
\* exists, whether it is live, and its attempts.
LEMMA RowsMove ==
  ASSUME OutboxInv, row' \in [Receipts -> RowType],
         \A q \in Receipts : /\ row'[q].attempts = row[q].attempts
                             /\ Live(q)' <=> Live(q)
                             /\ row'[q].status = "none" <=> row[q].status = "none",
         UNCHANGED <<receipt, order, worker, eventID, stored, nextID, alerted, faults>>
  PROVE  OutboxInv'
<1>1. Types'
  BY DEF OutboxInv, Types
<1>2. QueueInv' /\ AttemptsInv'
  BY DEF OutboxInv, QueueInv, AttemptsInv, Queued
<1>3. StoredInv' /\ CommittedIsStored' /\ FailureIsAnnounced' /\ QueuedIsLive'
  BY DEF OutboxInv, StoredInv, CommittedIsStored, FailureIsAnnounced, QueuedIsLive
<1>4. \A w \in Workers : Current(w)' = Current(w)
  BY CurrentStays
<1>5. WorkerInv'
  BY <1>4 DEF OutboxInv, WorkerInv, LastAttempt
<1> QED BY <1>1, <1>2, <1>3, <1>5 DEF OutboxInv

\* What the other workers remember of their rows stays true when one worker
\* moves and neither the order nor the ids change.
LEMMA OthersRemember ==
  ASSUME OutboxInv, NEW w \in Workers,
         \A v \in Workers \ {w} : worker'[v] = worker[v],
         UNCHANGED <<order, eventID>>, stored \subseteq stored',
         alerted \subseteq alerted',
         worker'[w].pc = "mark" => <<Current(w)', eventID[Current(w)']>> \in stored',
         worker'[w].pc = "retry" /\ LastAttempt(w)' => Current(w)' \in alerted'
  PROVE  WorkerInv'
<1> SUFFICES ASSUME NEW v \in Workers \ {w}
             PROVE  /\ worker'[v].pc = "mark"
                         => <<Current(v)', eventID'[Current(v)']>> \in stored'
                    /\ worker'[v].pc = "retry" /\ LastAttempt(v)'
                         => Current(v)' \in alerted'
  BY DEF WorkerInv
<1>1. Current(v)' = Current(v)
  BY CurrentStays
<1>2. LastAttempt(v)' <=> LastAttempt(v)
  BY <1>1 DEF LastAttempt
<1> QED BY <1>1, <1>2 DEF OutboxInv, WorkerInv

\* A worker claims due receipts.
LEMMA ClaimKeeps ==
  ASSUME OutboxInv, NEW w \in Workers, Claim(w)
  PROVE  OutboxInv'
<1> PICK C \in SUBSET Claimable : ClaimPending(w, C)
  BY DEF Claim
<1> USE DEF ClaimPending
<1>1. C \subseteq Receipts /\ \A r \in C : row[r].status = "pending"
  BY DEF Claimable
<1>2. [r \in C |-> row[r].attempts] \in [C -> Nat]
  BY <1>1, SizesAssumption DEF OutboxInv, Types, RowType
<1>3. worker' \in [Workers -> WorkerType]
  <2>1. [pc |-> "commit", todo |-> C, attempts |-> [r \in C |-> row[r].attempts]]
          \in WorkerType
    BY <1>1, <1>2 DEF WorkerType
  <2> QED BY <2>1 DEF OutboxInv, Types
<1>4. row' \in [Receipts -> RowType]
  BY DEF OutboxInv, Types, RowType
<1>5. \A q \in Receipts : /\ row'[q].attempts = row[q].attempts
                          /\ Live(q)' <=> Live(q)
                          /\ row'[q].status = "none" <=> row[q].status = "none"
  BY <1>1 DEF OutboxInv, Types, RowType, Live
<1>6. Types'
  BY <1>3, <1>4 DEF OutboxInv, Types
<1>7. QueueInv'
  BY <1>5 DEF OutboxInv, QueueInv, Queued
<1>8. AttemptsInv'
  <2>1. \A q \in Receipts : Live(q)' => row'[q].attempts < MaxAttempts
    BY <1>5 DEF OutboxInv, AttemptsInv
  <2>2. /\ worker'[w].pc = "commit" /\ worker'[w].todo = C
        /\ worker'[w].attempts = [r \in C |-> row[r].attempts]
        /\ \A v \in Workers \ {w} : worker'[v] = worker[v]
    BY DEF OutboxInv, Types
  <2>3. \A r \in C : Queued(r) /\ row[r].attempts \in 0 .. (MaxAttempts - 1)
    <3> TAKE r \in C
    <3>1. r \in Receipts /\ Live(r) /\ row[r].status # "none"
      BY <1>1 DEF Live
    <3>2. Queued(r)
      BY <3>1 DEF OutboxInv, QueueInv
    <3>3. row[r].attempts < MaxAttempts /\ row[r].attempts \in 0 .. MaxAttempts
      BY <3>1 DEF OutboxInv, AttemptsInv, Types, RowType
    <3> QED BY <3>2, <3>3, SizesAssumption
  <2>4. \A v \in Workers : \A r \in worker'[v].todo :
          /\ Queued(r)'
          /\ r \in DOMAIN worker'[v].attempts
          /\ worker'[v].attempts[r] \in 0 .. (MaxAttempts - 1)
    BY <2>2, <2>3 DEF OutboxInv, AttemptsInv, Queued
  <2> QED BY <2>1, <2>2, <2>4 DEF OutboxInv, AttemptsInv
<1>9. WorkerInv'
  BY OthersRemember DEF OutboxInv, Types
<1>10. StoredInv' /\ CommittedIsStored' /\ FailureIsAnnounced' /\ QueuedIsLive'
  BY <1>5 DEF OutboxInv, StoredInv, CommittedIsStored, FailureIsAnnounced, QueuedIsLive
<1> QED BY <1>6, <1>7, <1>8, <1>9, <1>10 DEF OutboxInv

\* A worker that goes on with the same rows.
LEMMA GotoIs ==
  ASSUME OutboxInv, NEW w \in Workers, worker[w].pc # "idle",
         NEW label \in {"commit", "mark", "retry"}, Goto(w, label),
         UNCHANGED <<receipt, row, order>>
  PROVE  /\ worker' \in [Workers -> WorkerType] /\ QueueInv' /\ AttemptsInv'
         /\ \A v \in Workers \ {w} : worker'[v] = worker[v]
         /\ worker'[w].pc = label
         /\ Current(w)' = Current(w)
         /\ LastAttempt(w)' <=> LastAttempt(w)
<1>1. /\ worker' \in [Workers -> WorkerType]
      /\ \A v \in Workers \ {w} : worker'[v] = worker[v]
      /\ worker'[w].pc = label
      /\ worker'[w].todo = worker[w].todo
      /\ worker'[w].attempts = worker[w].attempts
  BY DEF Goto, OutboxInv, Types, WorkerType
<1>2. Current(w)' = Current(w)
  BY <1>1, CurrentStays
<1>3. LastAttempt(w)' <=> LastAttempt(w)
  BY <1>1, <1>2 DEF LastAttempt
<1>4. QueueInv'
  BY DEF OutboxInv, QueueInv, Queued
<1>5. AttemptsInv'
  BY <1>1 DEF OutboxInv, AttemptsInv, Queued, Live
<1> QED BY <1>1, <1>2, <1>3, <1>4, <1>5

\* A worker's append commits.
LEMMA CommitBatchKeeps ==
  ASSUME OutboxInv, NEW w \in Workers, CommitBatch(w)
  PROVE  OutboxInv'
<1> USE DEF CommitBatch
<1>1. Current(w) \in Receipts /\ Queued(Current(w))
  BY CurrentInHand DEF OutboxInv
<1>2. /\ worker' \in [Workers -> WorkerType] /\ QueueInv' /\ AttemptsInv'
      /\ \A v \in Workers \ {w} : worker'[v] = worker[v]
      /\ worker'[w].pc = "mark"
      /\ Current(w)' = Current(w)
  BY GotoIs
<1>3. Types'
  BY <1>2 DEF OutboxInv, Types
<1>4. StoredInv'
  <2>1. \A p \in stored' :
          p[1] \in Receipts /\ receipt[p[1]] # "none" /\ p = <<p[1], eventID[p[1]]>>
    BY <1>1 DEF OutboxInv, StoredInv, Queued
  <2> QED BY <2>1 DEF OutboxInv, StoredInv
<1>5. WorkerInv'
  BY <1>2, OthersRemember
<1>6. CommittedIsStored' /\ QueuedIsLive' /\ FailureIsAnnounced'
  BY DEF OutboxInv, CommittedIsStored, QueuedIsLive, FailureIsAnnounced, Live
<1> QED BY <1>2, <1>3, <1>4, <1>5, <1>6 DEF OutboxInv

\* A worker's append fails, and the worker knows it or not.
LEMMA CommitFailsKeeps ==
  ASSUME OutboxInv, NEW w \in Workers, NEW effective \in BOOLEAN,
         CommitFails(w, effective)
  PROVE  OutboxInv'
<1> USE DEF CommitFails
<1>1. Current(w) \in Receipts /\ Queued(Current(w))
  BY CurrentInHand DEF OutboxInv
<1>2. /\ worker' \in [Workers -> WorkerType] /\ QueueInv' /\ AttemptsInv'
      /\ \A v \in Workers \ {w} : worker'[v] = worker[v]
      /\ worker'[w].pc = "retry"
      /\ Current(w)' = Current(w)
      /\ LastAttempt(w)' <=> LastAttempt(w)
  BY GotoIs
<1>3. Types'
  BY <1>2 DEF OutboxInv, Types
<1>4. stored \subseteq stored' /\ alerted \subseteq alerted'
  OBVIOUS
<1>5. StoredInv'
  <2>1. \A p \in stored' : p \in stored \/ p = <<Current(w), eventID[Current(w)]>>
    OBVIOUS
  <2>2. \A p \in stored' :
          p[1] \in Receipts /\ receipt[p[1]] # "none" /\ p = <<p[1], eventID[p[1]]>>
    BY <1>1, <2>1 DEF OutboxInv, StoredInv, Queued
  <2> QED BY <2>2 DEF OutboxInv, StoredInv
<1>6. WorkerInv'
  BY <1>2, <1>4, OthersRemember
<1>7. CommittedIsStored' /\ QueuedIsLive' /\ FailureIsAnnounced'
  BY <1>4 DEF OutboxInv, CommittedIsStored, QueuedIsLive, FailureIsAnnounced, Live
<1> QED BY <1>2, <1>3, <1>5, <1>6, <1>7 DEF OutboxInv

\* A worker that is at its next row, or polling again, has nothing to remember.
LEMMA WorkerLetsGo ==
  ASSUME OutboxInv, NEW w \in Workers, worker[w].pc # "idle",
         Done(w) \/ worker' = [worker EXCEPT ![w] = Resting],
         \A q \in Receipts : Queued(q) => Queued(q)',
         UNCHANGED <<order, eventID, stored, alerted>>
  PROVE  /\ worker' \in [Workers -> WorkerType]
         /\ \A v \in Workers : \A r \in worker'[v].todo :
              /\ Queued(r)'
              /\ r \in DOMAIN worker'[v].attempts
              /\ worker'[v].attempts[r] \in 0 .. (MaxAttempts - 1)
         /\ \A v \in Workers : worker'[v].pc = "idle" <=> worker'[v].todo = {}
         /\ WorkerInv'
<1>1. [r \in {} |-> 0] \in [{} -> Nat]
  OBVIOUS
<1>2. Resting \in WorkerType
  BY <1>1 DEF Resting, WorkerType
<1>3. \/ worker' = [worker EXCEPT ![w] = Resting]
      \/ /\ worker[w].todo \ {Current(w)} # {}
         /\ worker' = [worker EXCEPT ![w] =
              [worker[w] EXCEPT !.pc = "commit", !.todo = worker[w].todo \ {Current(w)}]]
  BY DEF Done
<1>4. /\ worker' \in [Workers -> WorkerType]
      /\ \A v \in Workers \ {w} : worker'[v] = worker[v]
      /\ \/ worker'[w] = Resting
         \/ /\ worker'[w].pc = "commit" /\ worker'[w].todo # {}
            /\ worker'[w].todo \subseteq worker[w].todo
            /\ worker'[w].attempts = worker[w].attempts
  <2>1. CASE worker' = [worker EXCEPT ![w] = Resting]
    BY <1>2, <2>1 DEF OutboxInv, Types
  <2>2. CASE /\ worker[w].todo \ {Current(w)} # {}
             /\ worker' = [worker EXCEPT ![w] =
                  [worker[w] EXCEPT !.pc = "commit", !.todo = worker[w].todo \ {Current(w)}]]
    <3> DEFINE rest == worker[w].todo \ {Current(w)}
               next == [worker[w] EXCEPT !.pc = "commit", !.todo = rest]
    <3>1. worker[w] \in WorkerType /\ rest \subseteq Receipts
      BY DEF OutboxInv, Types, WorkerType
    <3> HIDE DEF rest
    <3>2. /\ next \in WorkerType /\ next.pc = "commit" /\ next.todo = rest
          /\ next.attempts = worker[w].attempts
      BY <3>1 DEF WorkerType
    <3>3. worker' = [worker EXCEPT ![w] = next]
      BY <2>2 DEF rest
    <3> HIDE DEF next
    <3>4. worker' \in [Workers -> WorkerType] /\ worker'[w] = next
          /\ \A v \in Workers \ {w} : worker'[v] = worker[v]
      BY <3>2, <3>3 DEF OutboxInv, Types
    <3> QED BY <2>2, <3>2, <3>4 DEF rest
  <2> QED BY <1>3, <2>1, <2>2
<1>5. \A v \in Workers : worker[v].todo \subseteq Receipts
  BY DEF OutboxInv, Types, WorkerType
<1>6. \A v \in Workers : \A r \in worker'[v].todo :
        /\ Queued(r)'
        /\ r \in DOMAIN worker'[v].attempts
        /\ worker'[v].attempts[r] \in 0 .. (MaxAttempts - 1)
  <2> TAKE v \in Workers
  <2> TAKE r \in worker'[v].todo
  <2>1. CASE v # w
    BY <1>4, <1>5, <2>1 DEF OutboxInv, AttemptsInv
  <2>2. CASE v = w
    BY <1>4, <1>5, <2>2 DEF OutboxInv, AttemptsInv, Resting
  <2> QED BY <2>1, <2>2
<1>7. \A v \in Workers : worker'[v].pc = "idle" <=> worker'[v].todo = {}
  BY <1>4 DEF OutboxInv, AttemptsInv, Resting
<1>8. worker'[w].pc \notin {"mark", "retry"}
  BY <1>4 DEF Resting
<1>9. WorkerInv'
  BY <1>4, <1>8, OthersRemember
<1> QED BY <1>4, <1>6, <1>7, <1>9

\* A worker marks its receipts committed.
LEMMA MarkCommittedKeeps ==
  ASSUME OutboxInv, NEW w \in Workers, MarkCommitted(w)
  PROVE  OutboxInv'
<1> USE DEF MarkCommitted
<1>1. Current(w) \in Receipts /\ Queued(Current(w))
  BY CurrentInHand DEF OutboxInv
<1>2. <<Current(w), eventID[Current(w)]>> \in stored
  BY DEF OutboxInv, WorkerInv
<1>3. /\ receipt' \in [Receipts -> {"none", "sync", "queued", "committed", "failed"}]
      /\ row' \in [Receipts -> RowType]
  BY <1>1 DEF OutboxInv, Types, RowType
<1>4. \A q \in Receipts : Queued(q)' <=> Queued(q)
  BY <1>1 DEF OutboxInv, Types, Queued
<1>5. \A q \in Receipts : row'[q].status = "none" <=> row[q].status = "none"
  <2>1. row[Current(w)].status # "none"
    BY <1>1 DEF OutboxInv, QueueInv
  <2> QED BY <1>1, <2>1 DEF OutboxInv, Types, RowType
<1>6. QueueInv'
  BY <1>4, <1>5 DEF OutboxInv, QueueInv
<1>7. /\ worker' \in [Workers -> WorkerType]
      /\ \A v \in Workers : \A r \in worker'[v].todo :
           /\ Queued(r)'
           /\ r \in DOMAIN worker'[v].attempts
           /\ worker'[v].attempts[r] \in 0 .. (MaxAttempts - 1)
      /\ \A v \in Workers : worker'[v].pc = "idle" <=> worker'[v].todo = {}
      /\ WorkerInv'
  BY <1>4, WorkerLetsGo
<1>8. Types'
  BY <1>3, <1>7 DEF OutboxInv, Types
<1>9. AttemptsInv'
  <2>1. \A q \in Receipts : Live(q)' => Live(q) /\ row'[q].attempts = row[q].attempts
    BY <1>1 DEF OutboxInv, Types, RowType, Live
  <2> QED BY <1>7, <2>1 DEF OutboxInv, AttemptsInv
<1>10. StoredInv'
  BY <1>4, <1>1 DEF OutboxInv, Types, StoredInv, Queued
<1>11. CommittedIsStored' /\ QueuedIsLive' /\ FailureIsAnnounced'
  BY <1>1, <1>2 DEF OutboxInv, Types, RowType, CommittedIsStored, QueuedIsLive,
                    FailureIsAnnounced, Live
<1> QED BY <1>6, <1>7, <1>8, <1>9, <1>10, <1>11 DEF OutboxInv

\* A worker gives its receipts back, or gives them up.
LEMMA MarkRetryKeeps ==
  ASSUME OutboxInv, NEW w \in Workers, MarkRetry(w)
  PROVE  OutboxInv'
<1> DEFINE r == Current(w)
           n == worker[w].attempts[r] + 1
<1>1. /\ r \in Receipts /\ Queued(r) /\ n \in 1 .. MaxAttempts
      /\ worker[w].attempts[r] \in Nat
  BY CurrentInHand, SizesAssumption DEF OutboxInv, MarkRetry
<1>2. worker[w].pc = "retry" /\ Done(w)
      /\ UNCHANGED <<claimAge, order, eventID, stored, nextID, alerted, faults>>
  BY DEF MarkRetry
<1>3. \/ /\ n >= MaxAttempts
         /\ row' = [row EXCEPT ![r].status = "failed", ![r].attempts = n]
         /\ receipt' = [receipt EXCEPT ![r] = "failed"]
      \/ /\ ~(n >= MaxAttempts)
         /\ row' = [row EXCEPT ![r] = [status |-> "pending", attempts |-> n,
                                       avail |-> "future"]]
         /\ UNCHANGED receipt
  BY DEF MarkRetry, Exhausted
<1>4. n >= MaxAttempts => r \in alerted
  BY <1>2 DEF OutboxInv, WorkerInv, LastAttempt
<1> HIDE DEF r, n
<1>5. /\ \A q \in Receipts \ {r} : row'[q] = row[q] /\ receipt'[q] = receipt[q]
      /\ row'[r].attempts = n
      /\ row'[r] \in RowType
      /\ \/ row'[r].status = "failed" /\ receipt'[r] = "failed" /\ n >= MaxAttempts
         \/ row'[r].status = "pending" /\ receipt'[r] = receipt[r] /\ n < MaxAttempts
  <2>1. n \in 0 .. MaxAttempts
    BY <1>1
  <2>2. row \in [Receipts -> RowType] /\ DOMAIN receipt = Receipts
    BY DEF OutboxInv, Types
  <2>3. n \in Nat /\ MaxAttempts \in Nat
    BY <1>1, SizesAssumption
  <2>4. CASE /\ n >= MaxAttempts
             /\ row' = [row EXCEPT ![r].status = "failed", ![r].attempts = n]
             /\ receipt' = [receipt EXCEPT ![r] = "failed"]
    <3> DEFINE one == [row EXCEPT ![r].status = "failed"]
    <3>1. /\ one \in [Receipts -> RowType] /\ one[r].status = "failed"
          /\ \A q \in Receipts \ {r} : one[q] = row[q]
      BY <1>1, <2>2 DEF RowType
    <3>2. row' = [one EXCEPT ![r].attempts = n]
      BY <2>4
    <3> HIDE DEF one
    <3>3. /\ row'[r] \in RowType /\ row'[r].status = "failed" /\ row'[r].attempts = n
          /\ \A q \in Receipts \ {r} : row'[q] = row[q]
      BY <1>1, <2>1, <3>1, <3>2 DEF RowType
    <3> QED BY <1>1, <2>2, <2>4, <3>3
  <2>5. CASE /\ ~(n >= MaxAttempts)
             /\ row' = [row EXCEPT ![r] = [status |-> "pending", attempts |-> n,
                                           avail |-> "future"]]
             /\ UNCHANGED receipt
    <3>1. [status |-> "pending", attempts |-> n, avail |-> "future"] \in RowType
      BY <2>1 DEF RowType
    <3> QED BY <1>1, <2>2, <2>3, <2>5, <3>1
  <2> QED BY <1>3, <2>4, <2>5
<1>6. /\ receipt' \in [Receipts -> {"none", "sync", "queued", "committed", "failed"}]
      /\ row' \in [Receipts -> RowType]
  <2>1. row' = [q \in Receipts |-> row'[q]] /\ receipt' = [q \in Receipts |-> receipt'[q]]
    BY <1>3 DEF OutboxInv, Types
  <2>2. \A q \in Receipts : /\ row'[q] \in RowType
                            /\ receipt'[q] \in {"none", "sync", "queued", "committed", "failed"}
    BY <1>5 DEF OutboxInv, Types
  <2> QED BY <2>1, <2>2
<1>7. \A q \in Receipts : Queued(q)' <=> Queued(q)
  BY <1>1, <1>5 DEF Queued
<1>8. row[r].status # "none"
  BY <1>1 DEF OutboxInv, QueueInv
<1>9. QueueInv'
  BY <1>2, <1>5, <1>7, <1>8 DEF OutboxInv, QueueInv
<1>10. /\ worker' \in [Workers -> WorkerType]
       /\ \A v \in Workers : \A q \in worker'[v].todo :
            /\ Queued(q)'
            /\ q \in DOMAIN worker'[v].attempts
            /\ worker'[v].attempts[q] \in 0 .. (MaxAttempts - 1)
       /\ \A v \in Workers : worker'[v].pc = "idle" <=> worker'[v].todo = {}
       /\ WorkerInv'
  BY <1>2, <1>7, WorkerLetsGo
<1>11. Types'
  BY <1>2, <1>6, <1>10 DEF OutboxInv, Types
<1>12. AttemptsInv'
  <2>1. \A q \in Receipts : Live(q)' => row'[q].attempts < MaxAttempts
    BY <1>5 DEF OutboxInv, AttemptsInv, Live
  <2> QED BY <1>10, <2>1 DEF AttemptsInv
<1>13. StoredInv'
  BY <1>1, <1>2, <1>5 DEF OutboxInv, StoredInv, Queued
<1>14. CommittedIsStored' /\ QueuedIsLive' /\ FailureIsAnnounced'
  BY <1>2, <1>4, <1>5 DEF OutboxInv, CommittedIsStored, QueuedIsLive,
                          FailureIsAnnounced, Live
<1> QED BY <1>9, <1>10, <1>11, <1>12, <1>13, <1>14 DEF OutboxInv

\* An outcome that could not be recorded, and a crash, lose only the worker's
\* local state.
LEMMA FaultKeeps ==
  ASSUME OutboxInv, NEW w \in Workers, MarkFails(w) \/ Crash(w)
  PROVE  OutboxInv'
<1>1. /\ worker[w].pc # "idle"
      /\ Done(w) \/ worker' = [worker EXCEPT ![w] = Resting]
      /\ faults < MaxFaults /\ faults' = faults + 1
      /\ UNCHANGED <<receipt, row, claimAge, order, eventID, stored, nextID, alerted>>
  BY DEF MarkFails, Crash
<1>2. \A q \in Receipts : Queued(q)' <=> Queued(q)
  BY <1>1 DEF Queued
<1>3. /\ worker' \in [Workers -> WorkerType]
      /\ \A v \in Workers : \A q \in worker'[v].todo :
           /\ Queued(q)'
           /\ q \in DOMAIN worker'[v].attempts
           /\ worker'[v].attempts[q] \in 0 .. (MaxAttempts - 1)
      /\ \A v \in Workers : worker'[v].pc = "idle" <=> worker'[v].todo = {}
      /\ WorkerInv'
  BY <1>1, <1>2, WorkerLetsGo
<1>4. Types'
  BY <1>1, <1>3, SizesAssumption DEF OutboxInv, Types
<1>5. QueueInv'
  BY <1>1, <1>2 DEF OutboxInv, QueueInv
<1>6. AttemptsInv'
  BY <1>1, <1>3 DEF OutboxInv, AttemptsInv, Live
<1>7. StoredInv' /\ CommittedIsStored' /\ QueuedIsLive' /\ FailureIsAnnounced'
  BY <1>1 DEF OutboxInv, StoredInv, CommittedIsStored, QueuedIsLive,
              FailureIsAnnounced, Live
<1> QED BY <1>3, <1>4, <1>5, <1>6, <1>7 DEF OutboxInv

\* Receipts of a worker that seems dead go back to the queue.
LEMMA ResetKeeps ==
  ASSUME OutboxInv, NEW w \in Workers, ResetStaleProcessing(w)
  PROVE  OutboxInv'
<1>1. row' \in [Receipts -> RowType]
  BY DEF OutboxInv, Types, RowType, ResetStaleProcessing
<1>2. \A q \in Receipts : /\ row'[q].attempts = row[q].attempts
                          /\ Live(q)' <=> Live(q)
                          /\ row'[q].status = "none" <=> row[q].status = "none"
  BY DEF OutboxInv, Types, RowType, ResetStaleProcessing, Stale, Live
<1> QED BY <1>1, <1>2, RowsMove DEF ResetStaleProcessing

\* Time passes for a receipt that waits or is claimed.
LEMMA TimeKeeps ==
  ASSUME OutboxInv, NEW r \in Receipts, TimePasses(r) \/ ClaimAges(r)
  PROVE  OutboxInv'
<1>1. row \in [Receipts -> RowType]
  BY DEF OutboxInv, Types
<1>2. CASE TimePasses(r)
  <2> DEFINE later == Later(row[r].avail)
  <2>1. row' = [row EXCEPT ![r].avail = later]
    BY <1>2 DEF TimePasses
  <2>2. later \in {"future", "ready", "old"}
    BY DEF Later
  <2> HIDE DEF later
  <2>3. /\ row' \in [Receipts -> RowType]
        /\ \A q \in Receipts : row'[q].attempts = row[q].attempts
                               /\ row'[q].status = row[q].status
    BY <1>1, <2>1, <2>2 DEF RowType
  <2> QED BY <1>2, <2>3, RowsMove DEF TimePasses, Live
<1>3. CASE ClaimAges(r)
  BY <1>1, <1>3, RowsMove DEF ClaimAges, Live
<1> QED BY <1>2, <1>3

\* A step that changes nothing.
LEMMA StutterKeeps == OutboxInv /\ UNCHANGED vars => OutboxInv'
<1> SUFFICES ASSUME OutboxInv, UNCHANGED vars PROVE OutboxInv'
  OBVIOUS
<1> QED BY RowsMove DEF vars, OutboxInv, Types, Live

\* Every step preserves the invariant.
LEMMA NextKeeps == OutboxInv /\ [Next]_vars => OutboxInv'
<1> SUFFICES ASSUME OutboxInv, [Next]_vars PROVE OutboxInv'
  OBVIOUS
<1>1. ASSUME NEW r \in Receipts, Enqueue(r) PROVE OutboxInv'
  BY <1>1, JoinKeepsRest DEF Enqueue
<1>2. ASSUME NEW r \in Receipts, NEW effective \in BOOLEAN, EnqueueFallback(r, effective)
      PROVE  OutboxInv'
  BY <1>2, JoinKeepsRest, SyncKeepsRest DEF EnqueueFallback
<1>3. ASSUME NEW r \in Receipts, TimePasses(r) \/ ClaimAges(r) PROVE OutboxInv'
  BY <1>3, TimeKeeps
<1>4. ASSUME NEW w \in Workers, Claim(w) PROVE OutboxInv'
  BY <1>4, ClaimKeeps
<1>5. ASSUME NEW w \in Workers, Process(w) PROVE OutboxInv'
  BY <1>5, CommitBatchKeeps, CommitFailsKeeps, MarkCommittedKeeps, MarkRetryKeeps
     DEF Process
<1>6. ASSUME NEW w \in Workers, MarkFails(w) \/ Crash(w) \/ ResetStaleProcessing(w)
      PROVE  OutboxInv'
  BY <1>6, FaultKeeps, ResetKeeps
<1> QED BY <1>1, <1>2, <1>3, <1>4, <1>5, <1>6, StutterKeeps DEF Next

\* The inductive invariant holds in every reachable state of the outbox.
THEOREM Invariance == Spec => []OutboxInv
BY InitInv, NextKeeps, PTL DEF Spec

-----------------------------------------------------------------------------
(* The properties *)

\* A client that reads 'committed' from its receipt finds its event in the chain,
\* whatever crashes, resets and repeated commits came before (MarkCommitted after
\* CommitBatch).
THEOREM CommittedStored == Spec => []CommittedIsStored
<1>1. OutboxInv => CommittedIsStored
  BY DEF OutboxInv
<1> QED BY <1>1, Invariance, PTL

\* However often a request is processed, by however many workers and the
\* synchronous fallback, its event is in the chain once: the id is fixed by
\* applyDefaults before the request is queued.
THEOREM OneCopyKept == Spec => []OneCopy
<1>1. OutboxInv => OneCopy
  BY DEF OutboxInv, StoredInv, OneCopy
<1> QED BY <1>1, Invariance, PTL

\* The events stored are at most as many as the ids drawn.
LEMMA StoredBounded ==
  ASSUME OutboxInv
  PROVE  IsFiniteSet(stored) /\ Cardinality(stored) <= nextID
<1> DEFINE f == [p \in stored |-> p[2]]
           Ids == 1 .. (nextID - 1)
<1>1. nextID \in Nat \ {0} /\ nextID - 1 \in Nat
  BY DEF OutboxInv, Types
<1>2. IsFiniteSet(Ids) /\ Cardinality(Ids) = nextID - 1
  BY <1>1, FS_Interval
<1>3. \A p \in stored : p[2] \in Ids
  BY DEF OutboxInv, StoredInv
<1>4. \A p, q \in stored : p[2] = q[2] => p = q
  BY DEF OutboxInv, StoredInv
<1>5. f \in Injection(stored, Ids)
  BY <1>3, <1>4 DEF Injection, IsInjective
<1>6. IsFiniteSet(stored) /\ Cardinality(stored) <= Cardinality(Ids)
  <2> HIDE DEF f, Ids
  <2> QED BY <1>2, <1>5, FS_Injection
<1>7. Cardinality(stored) \in Nat
  BY <1>6, FS_CardinalityType
<1> QED BY <1>1, <1>2, <1>6, <1>7

\* No accepted request is forgotten: its receipt and its row agree, a queued one
\* has a row that a worker will process, and one that failed was announced even if
\* the worker crashed between ReceiptFailed and MarkRetry.
THEOREM NothingForgotten == Spec => []NoneForgotten
<1>1. OutboxInv => NoneForgotten
  <2> SUFFICES ASSUME OutboxInv PROVE TypeOK
    BY DEF OutboxInv, NoneForgotten
  <2>1. \A r \in Receipts :
          /\ receipt[r] \in {"none", "sync", "queued", "committed", "failed"}
          /\ row[r].attempts \in 0 .. MaxAttempts
          /\ row[r].status # "none" <=> receipt[r] \notin {"none", "sync"}
    BY DEF OutboxInv, Types, RowType, QueueInv, Queued
  <2>2. \A w \in Workers :
          /\ worker[w].pc = "idle" <=> worker[w].todo = {}
          /\ worker[w].todo \subseteq DOMAIN worker[w].attempts
    BY DEF OutboxInv, AttemptsInv
  <2>3. \A w \in Workers : worker[w].todo \subseteq Range(order)
    BY DEF OutboxInv, Types, WorkerType, AttemptsInv, QueueInv, Range
  <2>4. faults <= MaxFaults
    BY SizesAssumption DEF OutboxInv, Types
  <2> QED BY <2>1, <2>2, <2>3, <2>4, StoredBounded DEF TypeOK
<1> QED BY <1>1, Invariance, PTL

=============================================================================
