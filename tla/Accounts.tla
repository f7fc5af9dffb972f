------------------------------ MODULE Accounts ------------------------------
(***************************************************************************)
(* Tenants, API keys and who may call the API: bootstrap of a tenant from  *)
(* a dashboard organization, key creation and revocation, the in-process   *)
(* key cache of every API instance, the organization webhook and the hard  *)
(* deletion of an account.                                                 *)
(*                                                                         *)
(* Every handler is a caller's sequence of statements; statements of       *)
(* different callers interleave.  The dashboard and the webhook write to   *)
(* the store directly, never through the cache (fact0/main.go wires        *)
(* auditStore into both), so a cached key ends only when its entry does.   *)
(* Lookups by id read the read pool, which may be a replica: a write shows *)
(* there at the latest ReplicaLag later; every other statement runs on the *)
(* primary.  The clock counts in units of the cache's time to live.        *)
(***************************************************************************)
EXTENDS Requests, Naturals, FiniteSets

CONSTANTS Servers, Orgs, TenantIDs, KeyIDs, Deliveries,
          CacheTTL,    \* cfg.Server.AuthKeyCacheTTL
          ReplicaLag,  \* how far the read pool may lag, 0 when it is the primary
          MaxTime,     \* bound on the clock
          MaxLost      \* bound on requests that die half way

ASSUME AccountsAssumption ==
  /\ CacheTTL \in Nat \ {0}   \* NewCachedKeyStore replaces a ttl <= 0 by 60 s
  /\ ReplicaLag \in Nat /\ MaxTime \in Nat /\ MaxLost \in Nat
  /\ NoOne \notin TenantIDs \cup KeyIDs

VARIABLES
  clock,
  orgTenant,   \* tenant_external_identities
  tenants,     \* the tenants table: "none", "live" or "deleted" (deleted_at)
  apiKeys,     \* the api_keys table
  keyCache,    \* CachedKeyStore.items of every instance
  bootLock,    \* the advisory lock of every organization
  call,        \* the handler each caller is in
  claimed,     \* processed_webhooks
  handled,     \* how often each delivery's handler was entered
  answered,    \* deliveries answered with 200
  lastUse,     \* when the last accepted request with a key began
  endOfKey,    \* when a key was revoked or its row deleted
  endOfTenant, \* when a tenant was soft- or hard-deleted
  lost         \* requests that died half way

accVars == <<clock, orgTenant, tenants, apiKeys, keyCache, bootLock, call,
             claimed, handled, answered, lastUse, endOfKey, endOfTenant, lost>>

accTables  == <<orgTenant, tenants, apiKeys, bootLock, endOfKey, endOfTenant>>
accWebhook == <<claimed, handled, answered>>
accReading == <<keyCache, lastUse>>

Never == MaxTime + CacheTTL + 1
NoKey == [tenant |-> NoOne, active |-> FALSE, auto |-> FALSE]
NoEntry == [active |-> FALSE, expiry |-> 0]

\* A handler's local variables; fields that a handler does not use keep the
\* values they have here.
Resting == [pc |-> "idle", org |-> NoOne, tenant |-> NoOne, fresh |-> FALSE,
            key |-> NoOne, server |-> NoOne, start |-> 0]

ActiveKeys(t) == {k \in KeyIDs : apiKeys[k].tenant = t /\ apiKeys[k].active}

\* The read pool may still show what ended at this time.
StillShown(end) == ReplicaLag > 0 /\ end # Never /\ clock <= end + ReplicaLag

\* What the read pool may answer: the organization's live tenant, a soft-deleted
\* one whose deletion has not arrived there, or none, also for a mapping that has
\* not arrived.  A tenant that is gone from the primary counts as none: no
\* statement that a handler goes on to makes finds a row of it.
GetTenantByExternalID(o) ==
  {t \in {orgTenant[o]} \ {NoOne} : tenants[t] = "live" \/ StillShown(endOfTenant[t])}
  \cup {t \in {NoOne} : \/ ReplicaLag > 0
                        \/ orgTenant[o] = NoOne
                        \/ tenants[orgTenant[o]] # "live"}

AccountsInit ==
  /\ clock = 0
  /\ orgTenant = [o \in Orgs |-> NoOne]
  /\ tenants = [t \in TenantIDs |-> "none"]
  /\ apiKeys = [k \in KeyIDs |-> NoKey]
  /\ keyCache = [s \in Servers |-> [k \in KeyIDs |-> NoEntry]]
  /\ bootLock = [o \in Orgs |-> NoOne]
  /\ call = [c \in Callers |-> Resting]
  /\ claimed = {}
  /\ handled = [d \in Deliveries |-> 0]
  /\ answered = {}
  /\ lastUse = [k \in KeyIDs |-> 0]
  /\ endOfKey = [k \in KeyIDs |-> Never]
  /\ endOfTenant = [t \in TenantIDs |-> Never]
  /\ lost = 0

Free(c) == call[c].pc = "idle"
Becomes(c, r) == call' = [call EXCEPT ![c] = r]
Finish(c) == Becomes(c, Resting)

(***************************************************************************)
(* bootstrap: one transaction under the organization's advisory lock.      *)
(* What the transaction inserts is visible to others when it commits.      *)
(***************************************************************************)

\* Mutant: bootstraps of one organization do not exclude each other.
AdvisoryFreeAlways(o) == TRUE

AdvisoryFree(o) == bootLock[o] = NoOne

Bootstrap(c, o) ==
  /\ Free(c) /\ AdvisoryFree(o)
  /\ bootLock' = [bootLock EXCEPT ![o] = c]
  /\ Becomes(c, [Resting EXCEPT !.pc = "lookup", !.org = o])
  /\ UNCHANGED <<clock, orgTenant, tenants, apiKeys, endOfKey, endOfTenant,
                 accWebhook, accReading, lost>>

\* Ids are random: no table, no deleted row and no other request has them.
NewTenantID(t) == tenants[t] = "none" /\ endOfTenant[t] = Never
                  /\ \A c \in Callers : call[c].tenant # t
NewKeyID(k) == apiKeys[k] = NoKey /\ endOfKey[k] = Never
               /\ \A c \in Callers : call[c].key # k

\* The lookup does not ask whether the tenant is deleted.
LookupTenant(c) ==
  /\ call[c].pc = "lookup"
  /\ \/ /\ orgTenant[call[c].org] # NoOne
        /\ Becomes(c, [call[c] EXCEPT !.pc = "firstkey", !.tenant = orgTenant[call[c].org]])
     \/ /\ orgTenant[call[c].org] = NoOne
        /\ \E t \in TenantIDs :
             /\ NewTenantID(t)
             /\ Becomes(c, [call[c] EXCEPT !.pc = "firstkey", !.tenant = t, !.fresh = TRUE])
  /\ UNCHANGED <<clock, accTables, accWebhook, accReading, lost>>

\* firstActiveKeyTx, and the candidate key when there is none.
FirstActiveKey(c) ==
  /\ call[c].pc = "firstkey"
  /\ \/ /\ ActiveKeys(call[c].tenant) # {}
        /\ Becomes(c, [call[c] EXCEPT !.pc = "commit"])
     \/ /\ ActiveKeys(call[c].tenant) = {}
        /\ \E k \in KeyIDs :
             NewKeyID(k) /\ Becomes(c, [call[c] EXCEPT !.pc = "commit", !.key = k])
  /\ UNCHANGED <<clock, accTables, accWebhook, accReading, lost>>

Unlocked(c) == [o \in Orgs |-> IF bootLock[o] = c THEN NoOne ELSE bootLock[o]]

\* The primary key of the mapping and the foreign key of the api key.
MayCommit(r) ==
  /\ r.fresh => orgTenant[r.org] = NoOne /\ tenants[r.tenant] = "none"
  /\ ~r.fresh /\ r.key # NoOne => tenants[r.tenant] # "none"

CommitBootstrap(c) ==
  /\ call[c].pc = "commit" /\ MayCommit(call[c])
  /\ LET r == call[c] IN
     /\ orgTenant' = IF r.fresh THEN [orgTenant EXCEPT ![r.org] = r.tenant] ELSE orgTenant
     /\ tenants' = IF r.fresh THEN [tenants EXCEPT ![r.tenant] = "live"] ELSE tenants
     /\ apiKeys' = IF r.key = NoOne THEN apiKeys
                   ELSE [apiKeys EXCEPT ![r.key] = [tenant |-> r.tenant, active |-> TRUE,
                                                    auto |-> TRUE]]
  /\ bootLock' = Unlocked(c)
  /\ Finish(c)
  /\ UNCHANGED <<clock, endOfKey, endOfTenant, accWebhook, accReading, lost>>

RollbackBootstrap(c) ==
  /\ call[c].pc = "commit" /\ ~MayCommit(call[c])
  /\ bootLock' = Unlocked(c)
  /\ Finish(c)
  /\ UNCHANGED <<clock, orgTenant, tenants, apiKeys, endOfKey, endOfTenant,
                 accWebhook, accReading, lost>>

(***************************************************************************)
(* Keys: every dashboard handler first resolves the tenant.                *)
(***************************************************************************)

ResolveTenant(c, o, then) ==
  /\ Free(c)
  /\ \E t \in GetTenantByExternalID(o) \ {NoOne} :
       Becomes(c, [Resting EXCEPT !.pc = then, !.org = o, !.tenant = t])
  /\ UNCHANGED <<clock, accTables, accWebhook, accReading, lost>>

CreateKey(c) ==
  /\ call[c].pc = "create"
  /\ \/ /\ tenants[call[c].tenant] # "none"
        /\ \E k \in KeyIDs :
             /\ NewKeyID(k)
             /\ apiKeys' = [apiKeys EXCEPT ![k] = [tenant |-> call[c].tenant, active |-> TRUE,
                                                   auto |-> FALSE]]
     \/ /\ tenants[call[c].tenant] = "none"      \* foreign key
        /\ UNCHANGED apiKeys
  /\ Finish(c)
  /\ UNCHANGED <<clock, orgTenant, tenants, bootLock, endOfKey, endOfTenant,
                 accWebhook, accReading, lost>>

Revoked(ks) ==
  /\ apiKeys' = [k \in KeyIDs |-> IF k \in ks THEN [apiKeys[k] EXCEPT !.active = FALSE]
                                  ELSE apiKeys[k]]
  /\ endOfKey' = [k \in KeyIDs |-> IF k \in ks THEN clock ELSE endOfKey[k]]

RevokeKey(c) ==
  /\ call[c].pc = "revoke"
  /\ \/ \E k \in ActiveKeys(call[c].tenant) : Revoked({k})
     \/ ActiveKeys(call[c].tenant) = {} /\ UNCHANGED <<apiKeys, endOfKey>>
  /\ Finish(c)
  /\ UNCHANGED <<clock, orgTenant, tenants, bootLock, endOfTenant,
                 accWebhook, accReading, lost>>

(***************************************************************************)
(* Requests.  An API key is looked up in the instance's cache, then on the *)
(* read pool; the entry's expiry counts from before the pool was read.     *)
(* Of a row, whether it is active decides; its tenant and scope are left   *)
(* out of the cache.                                                       *)
(***************************************************************************)

CacheHit(s, k) == clock < keyCache[s][k].expiry

\* The APIKey middleware: a revoked key is refused.
Authenticate(c, k, active, start) ==
  /\ Finish(c)
  /\ lastUse' = IF active /\ start >= lastUse[k] THEN [lastUse EXCEPT ![k] = start] ELSE lastUse

PresentKey(c, s, k) ==
  /\ Free(c)
  /\ \/ /\ CacheHit(s, k)
        /\ Authenticate(c, k, keyCache[s][k].active, clock)
     \/ /\ ~CacheHit(s, k)
        /\ Becomes(c, [Resting EXCEPT !.pc = "getkey", !.key = k, !.server = s, !.start = clock])
        /\ UNCHANGED lastUse
  /\ UNCHANGED <<clock, accTables, accWebhook, keyCache, lost>>

\* The rows of the key that the read pool may show: the primary's, and the active
\* or revoked one whose end has not arrived there.
RowsShown(k) == {active \in BOOLEAN : \/ apiKeys[k].tenant # NoOne /\ active = apiKeys[k].active
                                      \/ StillShown(endOfKey[k])}

\* A key that was created may not have arrived either.  The row is kept until it
\* is put into the cache.
GetKeyByID(c) ==
  /\ call[c].pc = "getkey"
  /\ \/ /\ apiKeys[call[c].key].tenant = NoOne \/ ReplicaLag > 0
        /\ Finish(c)
     \/ \E active \in RowsShown(call[c].key) :
          Becomes(c, [call[c] EXCEPT !.pc = "cacheput", !.fresh = active])
  /\ UNCHANGED <<clock, accTables, accWebhook, accReading, lost>>

\* Mutant: the entry's time to live counts from the end of the lookup.
EntryExpiryLate(start) == clock + CacheTTL

EntryExpiry(start) == start + CacheTTL

CacheKey(c) ==
  /\ call[c].pc = "cacheput"
  /\ LET r == call[c] IN
     /\ keyCache' = [keyCache EXCEPT ![r.server][r.key] =
                       [active |-> r.fresh, expiry |-> EntryExpiry(r.start)]]
     /\ Authenticate(c, r.key, r.fresh, r.start)
  /\ UNCHANGED <<clock, accTables, accWebhook, lost>>

(***************************************************************************)
(* The organization.deleted webhook claims its id, then resolves the       *)
(* tenant, revokes all its keys and soft-deletes it.                       *)
(***************************************************************************)

MarkProcessed(d) == d \notin claimed

ReceiveDeletion(c, d, o) ==
  /\ Free(c)
  /\ \/ /\ MarkProcessed(d)
        /\ claimed' = claimed \cup {d}
        /\ handled' = [handled EXCEPT ![d] = @ + 1]
        /\ Becomes(c, [Resting EXCEPT !.pc = "ondeleted", !.org = o, !.key = d])
        /\ UNCHANGED answered
     \/ /\ ~MarkProcessed(d)
        /\ answered' = answered \cup {d}
        /\ Finish(c)
        /\ UNCHANGED <<claimed, handled>>
  /\ UNCHANGED <<clock, accTables, accReading, lost>>

OnOrgDeleted(c) ==
  /\ call[c].pc = "ondeleted"
  /\ \/ /\ NoOne \in GetTenantByExternalID(call[c].org)
        /\ answered' = answered \cup {call[c].key}
        /\ Finish(c)
     \/ /\ \E t \in GetTenantByExternalID(call[c].org) \ {NoOne} :
             Becomes(c, [call[c] EXCEPT !.pc = "revokeall", !.tenant = t])
        /\ UNCHANGED answered
  /\ UNCHANGED <<clock, accTables, accReading, claimed, handled, lost>>

RevokeAllKeys(c) ==
  /\ call[c].pc = "revokeall"
  /\ Revoked(ActiveKeys(call[c].tenant))
  /\ Becomes(c, [call[c] EXCEPT !.pc = "softdelete"])
  /\ UNCHANGED <<clock, orgTenant, tenants, bootLock, endOfTenant,
                 accWebhook, accReading, lost>>

SoftDeleteTenant(c) ==
  /\ call[c].pc = "softdelete"
  /\ LET t == call[c].tenant IN
     \/ /\ tenants[t] = "live"
        /\ tenants' = [tenants EXCEPT ![t] = "deleted"]
        /\ endOfTenant' = [endOfTenant EXCEPT ![t] = clock]
     \/ /\ tenants[t] # "live"
        /\ UNCHANGED <<tenants, endOfTenant>>
  /\ answered' = answered \cup {call[c].key}
  /\ Finish(c)
  /\ UNCHANGED <<clock, orgTenant, apiKeys, bootLock, endOfKey, accReading,
                 claimed, handled, lost>>

\* HardDeleteUser of the organization's owner: one transaction deletes the
\* tenant, its keys and, by cascade, the mapping.  Where the tenant has recorded
\* execution events the schema rejects their deletion and nothing changes.
HardDeleteUser(o) ==
  /\ orgTenant[o] # NoOne
  /\ LET t == orgTenant[o]
         ks == {k \in KeyIDs : apiKeys[k].tenant = t} IN
     /\ tenants' = [tenants EXCEPT ![t] = "none"]
     /\ apiKeys' = [k \in KeyIDs |-> IF k \in ks THEN NoKey ELSE apiKeys[k]]
     /\ endOfKey' = [k \in KeyIDs |-> IF k \in ks /\ apiKeys[k].active THEN clock ELSE endOfKey[k]]
     /\ endOfTenant' = [endOfTenant EXCEPT ![t] = IF tenants[t] = "live" THEN clock ELSE @]
  /\ orgTenant' = [orgTenant EXCEPT ![o] = NoOne]
  /\ UNCHANGED <<clock, bootLock, call, accWebhook, accReading, lost>>

\* The client goes away or a statement fails: the transaction, if any, rolls
\* back; statements that committed on their own stay.
Dies(c) ==
  /\ ~Free(c) /\ lost < MaxLost
  /\ lost' = lost + 1
  /\ bootLock' = Unlocked(c)
  /\ Finish(c)
  /\ UNCHANGED <<clock, orgTenant, tenants, apiKeys, endOfKey, endOfTenant,
                 accWebhook, accReading>>

AccTick ==
  /\ clock < MaxTime
  /\ clock' = clock + 1
  /\ UNCHANGED <<accTables, call, accWebhook, accReading, lost>>

AccountsNext ==
  \/ \E c \in Callers :
       \/ \E o \in Orgs : Bootstrap(c, o)
       \/ \E o \in Orgs, then \in {"create", "revoke"} : ResolveTenant(c, o, then)
       \/ LookupTenant(c) \/ FirstActiveKey(c) \/ CommitBootstrap(c) \/ RollbackBootstrap(c)
       \/ CreateKey(c) \/ RevokeKey(c)
       \/ \E s \in Servers, k \in KeyIDs : PresentKey(c, s, k)
       \/ GetKeyByID(c) \/ CacheKey(c)
       \/ \E d \in Deliveries, o \in Orgs : ReceiveDeletion(c, d, o)
       \/ OnOrgDeleted(c) \/ RevokeAllKeys(c) \/ SoftDeleteTenant(c)
       \/ Dies(c)
  \/ \E o \in Orgs : HardDeleteUser(o)
  \/ AccTick

AccountsSpec == AccountsInit /\ [][AccountsNext]_accVars

-----------------------------------------------------------------------------

\* Type correctness of the account tables, the caches and the webhook journal;
\* a delivery is answered only after it was claimed.
AccountsTypeOK ==
  /\ clock \in 0..MaxTime /\ lost \in 0..MaxLost
  /\ orgTenant \in [Orgs -> TenantIDs \cup {NoOne}]
  /\ tenants \in [TenantIDs -> {"none", "live", "deleted"}]
  /\ \A k \in KeyIDs : apiKeys[k].active => apiKeys[k].tenant \in TenantIDs
  /\ \A s \in Servers, k \in KeyIDs : keyCache[s][k].expiry \in 0..(MaxTime + CacheTTL)
  /\ bootLock \in [Orgs -> Callers \cup {NoOne}]
  /\ claimed \subseteq Deliveries /\ answered \subseteq claimed

\* keycache.go: "Revoked keys may remain visible until the entry expires".  The
\* entry may itself be filled from a read pool that lags behind the revocation;
\* whatever the order of lookups, revocations and cache writes on all instances, a
\* request that began one time to live and one replica lag after its key was
\* revoked, or its row deleted, is refused.
RevokedStops ==
  \A k \in KeyIDs : lastUse[k] < endOfKey[k] + CacheTTL + ReplicaLag

\* me_handler.go bootstrap: "racing browser tabs can never produce two orphan
\* keys".  A tenant never has two active auto-provisioned keys, and an
\* organization's bootstraps, deletions and re-creations leave no live tenant
\* that the organization is not mapped to.
OneDefaultKey ==
  \A t \in TenantIDs :
    /\ Cardinality({k \in ActiveKeys(t) : apiKeys[k].auto}) <= 1
    /\ tenants[t] = "live" => \E o \in Orgs : orgTenant[o] = t

\* webhook_handler.go: "We claim it in processed_webhooks before doing any
\* state change, so retries process at most once", also when retries arrive
\* at several instances at the same time.
DeliveryOnce == \A d \in Deliveries : handled[d] <= 1

\* What racing or repeated calls ask for happens once: one default key per tenant
\* and one handling per delivery.
OnceOnly == AccountsTypeOK /\ OneDefaultKey /\ DeliveryOnce

=============================================================================
