---------------------------- MODULE Transparency ----------------------------
(***************************************************************************)
(* The transparency log: a worker in every API instance reads the chain    *)
(* head of each live tenant from the read pool, which may lag behind, and  *)
(* posts it to an external log; a post may be lost, or arrive after the    *)
(* worker has given up on it.  Meanwhile events are appended, tenants are  *)
(* deleted, a user's events are erased from every chain, and re-anchoring  *)
(* tries to rewrite hashes.  Appends are atomic here: AuditChain shows     *)
(* what that rests on.  A row's data is the actor.                         *)
(***************************************************************************)
EXTENDS ChainBase, Sequences

CONSTANTS
  Publishers,   \* API instances with a transparency worker
  MaxRecords    \* bound on events

\* "genesis" is no digest: it has another length.
ASSUME TransparencyAssumption == MaxRecords \in Nat /\ Len(GenesisHash) # 6

VARIABLES
  events,       \* audit_events on the primary
  nextval,      \* the sequence behind sequence_number
  lagging,      \* audit_events as the read pool shows them
  softDeleted,  \* tenants with deleted_at
  left,         \* the tenants that each worker has still to publish in its round
  posts,        \* heads on their way
  published,    \* heads the external log has received
  erased,       \* rows that a hard deletion has removed
  reanchoring   \* how the last re-anchoring ended

transHistory == <<erased, reanchoring>>
transVars == <<events, nextval, lagging, softDeleted, left, posts, published, transHistory>>

NoHead == [tenant |-> "none", seq |-> 0, hash |-> <<>>]

TransparencyInit ==
  /\ events = {} /\ lagging = {} /\ nextval = 1 /\ softDeleted = {}
  /\ left = [w \in Publishers |-> {}]
  /\ posts = {} /\ published = {}
  /\ erased = {} /\ reanchoring = "never"

\* lastHashTx reads the primary, in the transaction that appends.
LastHash(t) ==
  LET rows == RowsOf(events, t)
  IN  IF rows = {} THEN GenesisHash ELSE (CHOOSE r \in rows : IsLast(rows, r)).hash

Signed(r) == [r EXCEPT !.hash = ComputeHash(r)]

Record(t, actor) ==
  /\ nextval <= MaxRecords /\ t \notin softDeleted
  /\ \E ts \in Times :
       events' = events \cup {Signed([id |-> nextval, tenant |-> t, ts |-> ts, data |-> actor,
                                      seq |-> nextval, prev |-> LastHash(t), hash |-> <<>>])}
  /\ nextval' = nextval + 1
  /\ UNCHANGED <<lagging, softDeleted, left, posts, published, transHistory>>

CatchUp ==
  /\ lagging # events
  /\ lagging' = events
  /\ UNCHANGED <<events, nextval, softDeleted, left, posts, published, transHistory>>

SoftDelete(t) ==
  /\ t \notin softDeleted
  /\ softDeleted' = softDeleted \cup {t}
  /\ UNCHANGED <<events, nextval, lagging, left, posts, published, transHistory>>

\* HardDeleteUser: the actor's events go, out of every tenant's chain.
DeleteAuditEventsWhere(actor) ==
  /\ LET rows == {r \in events : r.data = actor} IN
     /\ rows # {}
     /\ events' = events \ rows /\ erased' = erased \cup rows
  /\ UNCHANGED <<nextval, lagging, softDeleted, left, posts, published, reanchoring>>

(***************************************************************************)
(* Re-anchoring.                                                           *)
(***************************************************************************)

\* Verify, from the start of the chain: the events that do not continue it.
Broken(t) ==
  {r \in RowsOf(events, t) : ~IsHead(Below(RowsOf(events, t), r.seq), r.prev)}

\* The rows from a sequence number on, with prev_hash and hash recomputed.
Patched(t, from) ==
  LET rows == {r \in RowsOf(events, t) : r.seq >= from}
      at(n) == CHOOSE r \in rows : r.seq = n
      redo[n \in 0..MaxRecords] ==
        IF n < from
        THEN LET before == Below(RowsOf(events, t), from)
             IN  IF before = {} THEN GenesisHash ELSE (CHOOSE r \in before : IsLast(before, r)).hash
        ELSE IF \E r \in rows : r.seq = n
             THEN ComputeHash([at(n) EXCEPT !.prev = redo[n - 1]])
             ELSE redo[n - 1]
  IN  {[r EXCEPT !.prev = redo[r.seq - 1], !.hash = redo[r.seq]] : r \in rows}

\* Mutant: hashes may be updated, as the comment of ReanchorFrom has it.
TriggersOff == FALSE

\* trg_audit_no_update raises, also in reanchor_mode.
Triggers == TRUE

\* ReanchorFrom's transaction: the first UPDATE fails and all is rolled back.
ReanchorFrom(t, from) ==
  events' = IF Triggers THEN events
            ELSE Patched(t, from) \cup {r \in events : r.tenant # t \/ r.seq < from}

\* From an event that the caller names.  The meta-event, which is appended when
\* the hashes are rewritten, is Record's.
ReanchorChain(r) ==
  /\ reanchoring = "never"
  /\ ReanchorFrom(r.tenant, r.seq)
  /\ reanchoring' = IF Triggers THEN "refused" ELSE "done"
  /\ UNCHANGED <<nextval, lagging, softDeleted, left, posts, published, erased>>

ReanchorAll(t) ==
  \E r \in Broken(t) : (\A q \in Broken(t) : r.seq <= q.seq) /\ ReanchorChain(r)

(***************************************************************************)
(* The worker.                                                             *)
(***************************************************************************)

\* The tick: the tenants that are not deleted, as far as the read pool shows it.
RunOnce(w) ==
  /\ left[w] = {}
  /\ \E unseen \in SUBSET softDeleted :
       left' = [left EXCEPT ![w] = (Tenants \ softDeleted) \cup unseen]
  /\ UNCHANGED <<events, nextval, lagging, softDeleted, posts, published, transHistory>>

ChainHead(t) ==
  LET rows == RowsOf(lagging, t)
      r == CHOOSE r \in rows : IsLast(rows, r)
  IN  IF rows = {} THEN NoHead ELSE [tenant |-> t, seq |-> r.seq, hash |-> r.hash]

\* The next tenant: its head is read and posted, an empty chain is not.  The
\* worker goes on after the response or after ten seconds; what passes between
\* the reading and the arrival is the post's time on the way.
PostHead(w) ==
  /\ \E t \in left[w] :
       /\ left' = [left EXCEPT ![w] = @ \ {t}]
       /\ posts' = posts \cup ({ChainHead(t)} \ {NoHead})
  /\ UNCHANGED <<events, nextval, lagging, softDeleted, published, transHistory>>

\* The process ends in the middle of a round.
WorkerStops(w) ==
  /\ left[w] # {}
  /\ left' = [left EXCEPT ![w] = {}]
  /\ UNCHANGED <<events, nextval, lagging, softDeleted, posts, published, transHistory>>

\* A post that never arrives is lost.
Arrive(p) ==
  /\ posts' = posts \ {p} /\ published' = published \cup {p}
  /\ UNCHANGED <<events, nextval, lagging, softDeleted, left, transHistory>>

TransparencyNext ==
  \/ \E t \in Tenants : SoftDelete(t) \/ ReanchorAll(t) \/ \E d \in Data : Record(t, d)
  \/ \E d \in Data : DeleteAuditEventsWhere(d)
  \/ CatchUp \/ \E r \in events : ReanchorChain(r)
  \/ \E w \in Publishers : RunOnce(w) \/ PostHead(w) \/ WorkerStops(w)
  \/ \E p \in posts : Arrive(p)

TransparencySpec == TransparencyInit /\ [][TransparencyNext]_transVars

-----------------------------------------------------------------------------

\* Type correctness of the chain's tables and of the heads.
TransparencyTypeOK ==
  /\ nextval \in 1..(MaxRecords + 1)
  /\ \A r \in events \cup lagging \cup erased :
       r.tenant \in Tenants /\ r.seq \in 1..(nextval - 1) /\ r.hash = ComputeHash(r)
  /\ softDeleted \subseteq Tenants /\ left \in [Publishers -> SUBSET Tenants]
  /\ \A p \in posts \cup published : p.tenant \in Tenants /\ p.seq \in 1..MaxRecords

\* transparency.go publishes chain heads "to an external transparency log".  A
\* published head stays true: its row is in the table with the same hash, or a
\* hard deletion has removed it; no re-anchoring changes it afterwards.
PublishedIsKept ==
  \A p \in published : \E r \in events \cup erased :
    r.tenant = p.tenant /\ r.seq = p.seq /\ r.hash = p.hash

\* The hashes that a digest covers: its prev_hash, and what that one covers.
CoveredBy(h) ==
  LET covered[n \in 0..MaxRecords] ==
        IF n = 0 THEN {h}
        ELSE covered[n - 1] \cup {g[5] : g \in covered[n - 1] \ {GenesisHash}}
  IN  covered[MaxRecords]

\* Published heads are heads of one chain: a head covers every published head
\* with a lower sequence number whose event is still stored, whichever worker
\* read it, however far the read pool lagged and in whatever order they arrived.
HeadsAreOneChain ==
  \A p, q \in published :
    /\ p.tenant = q.tenant /\ p.seq = q.seq => p = q
    /\ p.tenant = q.tenant /\ p.seq < q.seq /\ (\E r \in events : r.seq = p.seq)
         => p.hash \in CoveredBy(q.hash)

\* What the external log has received stays true and is one chain.
PublishedIsTrue == TransparencyTypeOK /\ PublishedIsKept /\ HeadsAreOneChain

=============================================================================
