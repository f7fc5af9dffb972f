----------------------------- MODULE ChainBase -----------------------------
(***************************************************************************)
(* Rows of the audit_events table and the hash chain they form.            *)
(*                                                                         *)
(* A row keeps what the chain depends on: the client's event id, the       *)
(* tenant, the event timestamp, the rest of the payload (actor, action,    *)
(* resource, outcome and metadata, one opaque value), the sequence number, *)
(* prev_hash and hash.  SHA-256 is idealised: the digest of a row is the   *)
(* tuple of the fields it covers, so two digests are equal exactly when    *)
(* every covered field is.                                                 *)
(***************************************************************************)
EXTENDS Integers

CONSTANTS
  Tenants,      \* tenant ids
  EventIDs,     \* event ids, client supplied or generated by NewEventID
  Times,        \* event timestamps, already at microsecond precision
  Data,         \* payloads: actor, action, resource, outcome, metadata
  GenesisHash   \* prev_hash of the first event of a tenant

\* What ComputeHash binds: every public field except the digest itself.
ComputeHash(e) ==
  <<e.id, e.tenant, e.ts, e.data, e.prev, e.seq>>

RowsOf(S, t) == {r \in S : r.tenant = t}

Below(S, n) == {r \in S : r.seq < n}

IsLast(S, r) == r \in S /\ \A q \in S : q.seq <= r.seq

\* h is the hash of the row of S with the highest sequence number, or the
\* genesis hash when S is empty: what lastHashTx reads.
IsHead(S, h) ==
  \/ S = {} /\ h = GenesisHash
  \/ \E r \in S : IsLast(S, r) /\ h = r.hash

\* The chain of one tenant is intact: every row carries the digest of its own
\* fields and the digest of the row before it in sequence order.
ChainOK(S) ==
  \A r \in S : r.hash = ComputeHash(r) /\ IsHead(Below(S, r.seq), r.prev)

=============================================================================
