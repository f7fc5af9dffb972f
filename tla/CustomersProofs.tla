-------------------------- MODULE CustomersProofs --------------------------
(***************************************************************************)
(* Proofs about what a tenant may do, for any number of requests, API      *)
(* instances, organizations, keys, provider objects and limits: Accounts,  *)
(* Billing, Quota and RateLimit, each under its own specification.         *)
(***************************************************************************)
EXTENDS Accounts, Billing, Quota, RateLimit, FiniteSetTheorems, SequenceTheorems, TLAPS

-----------------------------------------------------------------------------
(* Accounts: the inductive invariant *)

KeyRows == [tenant : TenantIDs \cup {NoOne}, active : BOOLEAN, auto : BOOLEAN]
Booting == {"lookup", "firstkey", "commit"}

AccCalls ==
  [pc : {"idle", "create", "revoke", "getkey", "cacheput", "ondeleted", "revokeall",
         "softdelete"} \cup Booting,
   org : Orgs \cup {NoOne}, tenant : TenantIDs \cup {NoOne}, fresh : BOOLEAN,
   key : KeyIDs \cup Deliveries \cup {NoOne}, server : Servers \cup {NoOne},
   start : 0 .. MaxTime]

AccTypes ==
  /\ clock \in 0 .. MaxTime /\ lost \in 0 .. MaxLost
  /\ orgTenant \in [Orgs -> TenantIDs \cup {NoOne}]
  /\ tenants \in [TenantIDs -> {"none", "live", "deleted"}]
  /\ apiKeys \in [KeyIDs -> KeyRows]
  /\ keyCache \in [Servers -> [KeyIDs -> [active : BOOLEAN, expiry : 0 .. (MaxTime + CacheTTL)]]]
  /\ bootLock \in [Orgs -> Callers \cup {NoOne}]
  /\ call \in [Callers -> AccCalls]
  /\ handled \in [Deliveries -> Nat]
  /\ lastUse \in [KeyIDs -> 0 .. MaxTime]
  /\ endOfKey \in [KeyIDs -> 0 .. Never]
  /\ endOfTenant \in [TenantIDs -> 0 .. Never]

\* What a handler has read is what its next statement needs.
HandlerOK(r) ==
  /\ r.pc \in Booting => r.org \in Orgs
  /\ r.pc = "lookup" => ~r.fresh
  /\ r.pc \in {"lookup", "firstkey"} => r.key = NoOne
  /\ r.pc \in {"firstkey", "commit", "create", "revoke", "revokeall", "softdelete"}
       => r.tenant \in TenantIDs
  /\ r.pc = "commit" => r.key \in KeyIDs \cup {NoOne}
  /\ r.pc \in {"getkey", "cacheput"} => r.key \in KeyIDs /\ r.server \in Servers
  /\ r.pc \in {"ondeleted", "revokeall", "softdelete"} => r.org \in Orgs /\ r.key \in claimed
  /\ r.start <= clock

\* An active key has not ended; a key that ended did so in the past.
KeysInv ==
  \A k \in KeyIDs :
    /\ apiKeys[k].active => endOfKey[k] = Never /\ apiKeys[k].tenant \in TenantIDs
    /\ apiKeys[k].tenant \in TenantIDs => tenants[apiKeys[k].tenant] # "none"
    /\ endOfKey[k] = Never \/ endOfKey[k] <= clock
    /\ lastUse[k] <= clock

\* An entry lives one TTL from the lookup; one that says active began before the
\* end of the key had arrived at the read pool.
CacheInv ==
  \A s \in Servers, k \in KeyIDs :
    /\ keyCache[s][k].expiry <= clock + CacheTTL
    /\ keyCache[s][k].active => keyCache[s][k].expiry <= endOfKey[k] + CacheTTL + ReplicaLag

\* The life of a tenant: mapped while it exists, ended once, by one organization.
TenantsInv ==
  /\ \A o \in Orgs : orgTenant[o] # NoOne => tenants[orgTenant[o]] # "none"
  /\ \A o, p \in Orgs : orgTenant[o] = orgTenant[p] /\ orgTenant[o] # NoOne => o = p
  /\ \A t \in TenantIDs :
       /\ tenants[t] = "live" => endOfTenant[t] = Never /\ \E o \in Orgs : orgTenant[o] = t
       /\ tenants[t] = "deleted" => endOfTenant[t] # Never
       /\ endOfTenant[t] = Never \/ endOfTenant[t] <= clock

\* At most one default key.
IsDefault(k, t) == apiKeys[k].tenant = t /\ apiKeys[k].active /\ apiKeys[k].auto

DefaultInv ==
  \A t \in TenantIDs : \A k, l \in KeyIDs : IsDefault(k, t) /\ IsDefault(l, t) => k = l

\* A delivery is handled when it is claimed, and answered afterwards.
WebhookInv ==
  /\ claimed \subseteq Deliveries /\ answered \subseteq claimed
  /\ \A d \in Deliveries : handled[d] = IF d \in claimed THEN 1 ELSE 0

\* A lookup that is about to report an active key began before its end arrived at
\* the read pool.
ReadBeforeEnd(r) == r.pc = "cacheput" /\ r.fresh => r.start <= endOfKey[r.key] + ReplicaLag

\* The key that a bootstrap is about to insert is nobody else's, and the
\* tenant has no default key.
Inserts(r) == r.pc = "commit" /\ r.key # NoOne

CandidateOK(c, r) ==
  Inserts(r) =>
    /\ apiKeys[r.key] = NoKey /\ endOfKey[r.key] = Never
    /\ \A d \in Callers \ {c} : Inserts(call[d]) => call[d].key # r.key
    /\ \A k \in KeyIDs : ~IsDefault(k, r.tenant)

\* A bootstrap holds the lock of its organization, and its tenant is either a
\* new one that only it knows, or the organization's own, or deleted meanwhile.
HoldsLock(c, r) == r.pc \in Booting => bootLock[r.org] = c

Booted(r) == r.pc \in {"firstkey", "commit"}

BootedOK(c, r) ==
  /\ Booted(r) /\ r.fresh =>
       /\ tenants[r.tenant] = "none" /\ endOfTenant[r.tenant] = Never
       /\ orgTenant[r.org] = NoOne
       /\ \A d \in Callers \ {c} : call[d].tenant # r.tenant
  /\ Booted(r) /\ ~r.fresh =>
       \/ orgTenant[r.org] = r.tenant
       \/ tenants[r.tenant] = "none" /\ endOfTenant[r.tenant] # Never

CallsInv ==
  \A c \in Callers :
    /\ HandlerOK(call[c]) /\ ReadBeforeEnd(call[c])
    /\ CandidateOK(c, call[c]) /\ HoldsLock(c, call[c]) /\ BootedOK(c, call[c])

AccountsInv ==
  /\ AccTypes /\ KeysInv /\ CacheInv /\ TenantsInv /\ DefaultInv /\ WebhookInv
  /\ CallsInv /\ RevokedStops

-----------------------------------------------------------------------------
(* Accounts: proofs *)

\* Without tenants, keys and requests the invariant holds.
LEMMA AccountsInitInv == AccountsInit => AccountsInv
<1> USE AccountsAssumption, RequestsAssumption
      DEF AccountsInit, Resting, NoKey, NoEntry, Never
<1> SUFFICES ASSUME AccountsInit PROVE AccountsInv  OBVIOUS
<1>1. AccTypes  BY DEF AccTypes, AccCalls, KeyRows, Booting
<1>2. KeysInv /\ CacheInv  BY DEF KeysInv, CacheInv
<1>3. TenantsInv /\ WebhookInv  BY DEF TenantsInv, WebhookInv
<1>4. DefaultInv  BY DEF DefaultInv, IsDefault
<1>5. CallsInv
  <2> SUFFICES ASSUME NEW c \in Callers
               PROVE  /\ HandlerOK(call[c]) /\ ReadBeforeEnd(call[c]) /\ CandidateOK(c, call[c])
                      /\ HoldsLock(c, call[c]) /\ BootedOK(c, call[c])
    BY DEF CallsInv
  <2>1. call[c].pc = "idle" /\ call[c].start = 0 /\ clock = 0  OBVIOUS
  <2>2. QED
    BY <2>1 DEF HandlerOK, ReadBeforeEnd, CandidateOK, Inserts, HoldsLock, BootedOK, Booted, Booting
<1>6. RevokedStops  BY DEF RevokedStops
<1>7. QED  BY <1>1, <1>2, <1>3, <1>4, <1>5, <1>6 DEF AccountsInv

\* A step of one caller that moves it on to r, and changes no table that the
\* other callers' progress depends on.
Apart(c, r) ==
  \/ r.tenant \in {NoOne, call[c].tenant}
  \/ r.tenant \in TenantIDs /\ tenants[r.tenant] # "none"
  \/ \A d \in Callers \ {c} : call[d].tenant # r.tenant

\* A request that moves on to r, the tables being what they were.
LEMMA MoveKeeps ==
  ASSUME AccTypes, CallsInv, NEW c \in Callers, NEW r \in AccCalls,
         call' = [call EXCEPT ![c] = r],
         UNCHANGED <<clock, orgTenant, tenants, apiKeys, endOfKey, endOfTenant>>,
         claimed \subseteq claimed',
         \A d \in Callers \ {c} : HoldsLock(d, call[d])',
         HandlerOK(r)', ReadBeforeEnd(r), CandidateOK(c, r), BootedOK(c, r), Apart(c, r),
         r.pc \in Booting => bootLock'[r.org] = c
  PROVE  CallsInv' /\ call' \in [Callers -> AccCalls]
<1>1. call' \in [Callers -> AccCalls] /\ call'[c] = r
      /\ \A d \in Callers \ {c} : call'[d] = call[d]
  BY DEF AccTypes
<1>2. ASSUME NEW d \in Callers
      PROVE  HandlerOK(call[d])' /\ ReadBeforeEnd(call[d])' /\ HoldsLock(d, call[d])'
  BY <1>1 DEF CallsInv, HandlerOK, ReadBeforeEnd, HoldsLock
<1>3. ASSUME NEW d \in Callers PROVE CandidateOK(d, call[d])'
  BY <1>1 DEF CallsInv, CandidateOK, IsDefault, Inserts
<1>4. ASSUME NEW d \in Callers PROVE BootedOK(d, call[d])'
  <2>1. CASE d = c  BY <2>1, <1>1 DEF BootedOK, Booted
  <2>2. CASE d # c
    <3>1. Booted(call[d]) /\ call[d].fresh => call[d].tenant # r.tenant
      BY <2>2, AccountsAssumption DEF CallsInv, HandlerOK, BootedOK, Booted, Apart
    <3>2. QED  BY <3>1, <2>2, <1>1 DEF CallsInv, BootedOK, Booted
  <2>3. QED  BY <2>1, <2>2
<1>5. QED  BY <1>1, <1>2, <1>3, <1>4 DEF CallsInv

\* What requests read and remember: the caches and the last use of a key.
ReadingOK ==
  /\ keyCache \in [Servers -> [KeyIDs -> [active : BOOLEAN, expiry : 0 .. (MaxTime + CacheTTL)]]]
  /\ lastUse \in [KeyIDs -> 0 .. MaxTime]
  /\ \A k \in KeyIDs : lastUse[k] <= clock
  /\ CacheInv /\ RevokedStops

\* Such a step that leaves the tables and the clock alone keeps the invariant.
LEMMA AuthStep ==
  ASSUME AccountsInv, NEW c \in Callers, NEW r \in AccCalls,
         call' = [call EXCEPT ![c] = r],
         UNCHANGED <<clock, orgTenant, tenants, apiKeys, endOfKey, endOfTenant>>, ReadingOK',
         lost' \in 0 .. MaxLost, bootLock' \in [Orgs -> Callers \cup {NoOne}],
         handled' \in [Deliveries -> Nat], WebhookInv', claimed \subseteq claimed',
         \A d \in Callers \ {c} : HoldsLock(d, call[d])',
         HandlerOK(r)', ReadBeforeEnd(r), CandidateOK(c, r), BootedOK(c, r), Apart(c, r),
         r.pc \in Booting => bootLock'[r.org] = c
  PROVE  AccountsInv'
<1>1. CallsInv' /\ call' \in [Callers -> AccCalls]  BY MoveKeeps DEF AccountsInv
<1>2. AccTypes'  BY <1>1 DEF AccountsInv, AccTypes, Never, ReadingOK
<1>3. KeysInv' /\ CacheInv' /\ RevokedStops'
  BY DEF AccountsInv, KeysInv, ReadingOK, Never
<1>4. TenantsInv' /\ DefaultInv'  BY DEF AccountsInv, TenantsInv, DefaultInv, IsDefault, Never
<1>5. QED  BY <1>1, <1>2, <1>3, <1>4 DEF AccountsInv

\* The same for the whole invariant, with what may change beside the request.
LEMMA RequestStep ==
  ASSUME AccountsInv, NEW c \in Callers, NEW r \in AccCalls,
         call' = [call EXCEPT ![c] = r],
         UNCHANGED <<clock, orgTenant, tenants, apiKeys, keyCache, lastUse, endOfKey, endOfTenant>>,
         lost' \in 0 .. MaxLost, bootLock' \in [Orgs -> Callers \cup {NoOne}],
         handled' \in [Deliveries -> Nat], WebhookInv', claimed \subseteq claimed',
         \A d \in Callers \ {c} : HoldsLock(d, call[d])',
         HandlerOK(r)', ReadBeforeEnd(r), CandidateOK(c, r), BootedOK(c, r), Apart(c, r),
         r.pc \in Booting => bootLock'[r.org] = c
  PROVE  AccountsInv'
<1>1. ReadingOK'
  BY DEF AccountsInv, AccTypes, KeysInv, ReadingOK, CacheInv, RevokedStops, Never
<1>2. QED  BY <1>1, AuthStep

\* The fields of a request at rest.
LEMMA RestingCall ==
  /\ Resting \in AccCalls /\ Resting.pc = "idle" /\ Resting.org = NoOne /\ Resting.tenant = NoOne
  /\ ~Resting.fresh /\ Resting.key = NoOne /\ Resting.start = 0
BY AccountsAssumption DEF Resting, AccCalls

\* Going back to rest is such a move.
LEMMA RestingIs ==
  ASSUME NEW c \in Callers, clock' \in Nat
  PROVE  /\ Resting \in AccCalls /\ Resting.pc = "idle" /\ Resting.tenant = NoOne
         /\ HandlerOK(Resting)'
         /\ ReadBeforeEnd(Resting) /\ CandidateOK(c, Resting) /\ BootedOK(c, Resting)
         /\ Apart(c, Resting)
<1>1. HandlerOK(Resting)'  BY RestingCall DEF HandlerOK, Booting
<1>2. QED
  BY <1>1, RestingCall DEF ReadBeforeEnd, CandidateOK, Inserts, BootedOK, Booted, Apart

\* BootstrapOrg takes the organization's lock, or waits for it.
LEMMA BootstrapKeeps ==
  ASSUME AccountsInv, NEW c \in Callers, NEW o \in Orgs, Bootstrap(c, o)
  PROVE  AccountsInv'
<1> DEFINE r == [Resting EXCEPT !.pc = "lookup", !.org = o]
<1>1. r \in AccCalls /\ r.pc = "lookup" /\ r.org = o /\ r.tenant = NoOne /\ r.start = 0
      /\ ~r.fresh /\ r.key = NoOne
  BY RestingCall DEF AccCalls, Booting
<1>2. call' = [call EXCEPT ![c] = r]
  BY DEF Bootstrap, Becomes
<1> HIDE DEF r
<1>3. UNCHANGED <<clock, orgTenant, tenants, apiKeys, keyCache, lastUse, endOfKey, endOfTenant,
                  lost, claimed, answered, handled>>
      /\ bootLock' = [bootLock EXCEPT ![o] = c] /\ bootLock[o] = NoOne
  BY DEF Bootstrap, AdvisoryFree, accWebhook, accReading
<1>4. bootLock' \in [Orgs -> Callers \cup {NoOne}] /\ bootLock'[o] = c
  BY <1>3 DEF AccountsInv, AccTypes
<1>5. \A d \in Callers \ {c} : HoldsLock(d, call[d])'
  BY <1>2, <1>3, RequestsAssumption
     DEF AccountsInv, AccTypes, CallsInv, HandlerOK, HoldsLock
<1>6. HandlerOK(r)' /\ ReadBeforeEnd(r) /\ CandidateOK(c, r) /\ BootedOK(c, r) /\ Apart(c, r)
  BY <1>1, <1>3 DEF HandlerOK, Booting, ReadBeforeEnd, CandidateOK, Inserts, BootedOK, Booted,
     Apart, AccountsInv, AccTypes
<1>7. WebhookInv' /\ handled' \in [Deliveries -> Nat] /\ lost' \in 0 .. MaxLost
      /\ claimed \subseteq claimed'
  BY <1>3 DEF AccountsInv, AccTypes, WebhookInv
<1>8. QED  BY <1>1, <1>2, <1>3, <1>4, <1>5, <1>6, <1>7, RequestStep

\* A step that leaves the locks, the webhook journal and all tables alone.
LEMMA QuietStep ==
  ASSUME AccountsInv, NEW c \in Callers, NEW r \in AccCalls,
         call' = [call EXCEPT ![c] = r],
         UNCHANGED <<clock, accTables, accReading, accWebhook, lost>>,
         HandlerOK(r), ReadBeforeEnd(r), CandidateOK(c, r), BootedOK(c, r), Apart(c, r),
         HoldsLock(c, r)
  PROVE  AccountsInv'
<1>1. UNCHANGED <<clock, orgTenant, tenants, apiKeys, keyCache, lastUse, endOfKey, endOfTenant,
                  bootLock, lost, claimed, answered, handled>>
  BY DEF accTables, accReading, accWebhook
<1>2. \A d \in Callers \ {c} : HoldsLock(d, call[d])'
  BY <1>1 DEF AccountsInv, AccTypes, CallsInv, HoldsLock
<1>3. HandlerOK(r)' /\ (r.pc \in Booting => bootLock'[r.org] = c)
  BY <1>1 DEF HandlerOK, HoldsLock
<1>4. WebhookInv' /\ handled' \in [Deliveries -> Nat] /\ lost' \in 0 .. MaxLost
      /\ claimed \subseteq claimed' /\ bootLock' \in [Orgs -> Callers \cup {NoOne}]
  BY <1>1 DEF AccountsInv, AccTypes, WebhookInv
<1>5. QED  BY <1>1, <1>2, <1>3, <1>4, RequestStep

\* An organization is mapped to a tenant that exists or to none.
LEMMA TenantOfOrg ==
  ASSUME AccountsInv, NEW o \in Orgs, NEW t \in GetTenantByExternalID(o) \ {NoOne}
  PROVE  t \in TenantIDs /\ tenants[t] # "none"
<1>1. t = orgTenant[o] /\ t # NoOne  BY DEF GetTenantByExternalID
<1>2. QED  BY <1>1 DEF AccountsInv, AccTypes, TenantsInv

\* The dashboard's handlers look up the tenant of the organization.
LEMMA ResolveTenantKeeps ==
  ASSUME AccountsInv, NEW c \in Callers, NEW o \in Orgs, NEW then \in {"create", "revoke"},
         ResolveTenant(c, o, then)
  PROVE  AccountsInv'
<1>0. PICK t \in GetTenantByExternalID(o) \ {NoOne} :
        call' = [call EXCEPT ![c] = [Resting EXCEPT !.pc = then, !.org = o, !.tenant = t]]
  BY DEF ResolveTenant, Becomes
<1> DEFINE r == [Resting EXCEPT !.pc = then, !.org = o, !.tenant = t]
<1>1. t \in TenantIDs /\ tenants[t] # "none"  BY TenantOfOrg
<1>2. call' = [call EXCEPT ![c] = r]
      /\ UNCHANGED <<clock, accTables, accReading, accWebhook, lost>>
  BY <1>0 DEF ResolveTenant
<1>3. r \in AccCalls /\ r.pc \in {"create", "revoke"} /\ r.tenant = t /\ r.start = 0
  BY <1>1, RestingCall DEF AccCalls, Booting
<1> HIDE DEF r
<1>4. HandlerOK(r) /\ ReadBeforeEnd(r) /\ CandidateOK(c, r) /\ BootedOK(c, r) /\ Apart(c, r)
      /\ HoldsLock(c, r)
  BY <1>1, <1>3 DEF HandlerOK, Booting, ReadBeforeEnd, CandidateOK, Inserts, BootedOK, Booted,
     Apart, HoldsLock, AccountsInv, AccTypes
<1>5. QED  BY <1>2, <1>3, <1>4, QuietStep

\* Under the lock: the tenant exists, or a fresh id is drawn.
LEMMA LookupTenantKeeps ==
  ASSUME AccountsInv, NEW c \in Callers, LookupTenant(c)
  PROVE  AccountsInv'
<1> DEFINE q == call[c]
<1>1. q \in AccCalls /\ q.pc = "lookup" /\ q.org \in Orgs /\ HandlerOK(q) /\ HoldsLock(c, q)
  BY DEF LookupTenant, AccountsInv, AccTypes, CallsInv, HandlerOK, Booting
<1>2. UNCHANGED <<clock, accTables, accReading, accWebhook, lost>>  BY DEF LookupTenant
<1>q. q = call[c]  OBVIOUS
<1> HIDE DEF q
<1>3. ASSUME orgTenant[q.org] # NoOne, NEW r,
             r = [q EXCEPT !.pc = "firstkey", !.tenant = orgTenant[q.org]],
             call' = [call EXCEPT ![c] = r]
      PROVE  AccountsInv'
  <2>1. orgTenant[q.org] \in TenantIDs /\ tenants[orgTenant[q.org]] # "none"
    BY <1>1, <1>3 DEF AccountsInv, AccTypes, TenantsInv
  <2>2. r \in AccCalls /\ r.pc = "firstkey" /\ r.tenant = orgTenant[q.org] /\ r.org = q.org
        /\ r.start = q.start /\ r.fresh = q.fresh /\ r.key = q.key
    BY <1>1, <1>3, <2>1 DEF AccCalls, Booting
  <2>3. HandlerOK(r) /\ ReadBeforeEnd(r) /\ CandidateOK(c, r) /\ Apart(c, r) /\ HoldsLock(c, r)
    BY <1>1, <2>1, <2>2 DEF HandlerOK, Booting, ReadBeforeEnd, CandidateOK, Inserts, Apart,
       HoldsLock
  <2>4. ~q.fresh  BY <1>1 DEF HandlerOK
  <2>5. BootedOK(c, r)  BY <2>2, <2>4 DEF BootedOK, Booted
  <2>6. QED  BY <1>2, <1>3, <2>2, <2>3, <2>5, QuietStep
<1>4. ASSUME orgTenant[q.org] = NoOne, NEW t \in TenantIDs, NewTenantID(t), NEW r,
             r = [q EXCEPT !.pc = "firstkey", !.tenant = t, !.fresh = TRUE],
             call' = [call EXCEPT ![c] = r]
      PROVE  AccountsInv'
  <2>2. r \in AccCalls /\ r.pc = "firstkey" /\ r.tenant = t /\ r.org = q.org
        /\ r.start = q.start /\ r.fresh /\ r.key = q.key
    BY <1>1, <1>4 DEF AccCalls, Booting
  <2>3. HandlerOK(r) /\ ReadBeforeEnd(r) /\ CandidateOK(c, r) /\ Apart(c, r) /\ HoldsLock(c, r)
    BY <1>1, <1>4, <2>2 DEF HandlerOK, Booting, ReadBeforeEnd, CandidateOK, Inserts, Apart,
       HoldsLock, NewTenantID
  <2>5. BootedOK(c, r)  BY <1>4, <2>2 DEF BootedOK, Booted, NewTenantID
  <2>6. QED  BY <1>2, <1>4, <2>2, <2>3, <2>5, QuietStep
<1>5. QED  BY <1>3, <1>4, <1>q DEF LookupTenant, Becomes

\* A retry finds the automatic key of the first attempt.
LEMMA FirstActiveKeyKeeps ==
  ASSUME AccountsInv, NEW c \in Callers, FirstActiveKey(c)
  PROVE  AccountsInv'
<1> DEFINE q == call[c]
<1>1. q \in AccCalls /\ q.pc = "firstkey" /\ q.org \in Orgs /\ q.tenant \in TenantIDs
      /\ q.key = NoOne /\ HandlerOK(q) /\ HoldsLock(c, q) /\ BootedOK(c, q)
  BY DEF FirstActiveKey, AccountsInv, AccTypes, CallsInv, HandlerOK, Booting
<1>2. UNCHANGED <<clock, accTables, accReading, accWebhook, lost>>  BY DEF FirstActiveKey
<1>q. q = call[c]  OBVIOUS
<1> HIDE DEF q
<1>3. ASSUME NEW k \in KeyIDs \cup {NoOne}, NEW r, r = [q EXCEPT !.pc = "commit", !.key = k],
             k # NoOne => NewKeyID(k) /\ ActiveKeys(q.tenant) = {},
             call' = [call EXCEPT ![c] = r]
      PROVE  AccountsInv'
  <2>1. r \in AccCalls /\ r.pc = "commit" /\ r.tenant = q.tenant /\ r.org = q.org
        /\ r.start = q.start /\ r.fresh = q.fresh /\ r.key = k
    BY <1>1, <1>3 DEF AccCalls, Booting
  <2>2. HandlerOK(r) /\ ReadBeforeEnd(r) /\ Apart(c, r) /\ HoldsLock(c, r)
    BY <1>1, <1>q, <2>1 DEF HandlerOK, Booting, ReadBeforeEnd, Apart, HoldsLock
  <2>3. BootedOK(c, r)  BY <1>1, <2>1 DEF BootedOK, Booted
  <2>4. CandidateOK(c, r)
    BY <1>1, <1>3, <2>1 DEF CandidateOK, Inserts, NewKeyID, ActiveKeys, IsDefault
  <2>5. QED  BY <1>2, <1>3, <2>1, <2>2, <2>3, <2>4, QuietStep
<1>4. CASE ActiveKeys(q.tenant) # {}
  <2>1. call' = [call EXCEPT ![c] = [q EXCEPT !.pc = "commit"]]
    BY <1>4, <1>q DEF FirstActiveKey, Becomes
  <2>2. [q EXCEPT !.pc = "commit"] = [q EXCEPT !.pc = "commit", !.key = NoOne]
    BY <1>1 DEF AccCalls
  <2>3. QED  BY <1>3, <2>1, <2>2
<1>5. CASE ActiveKeys(q.tenant) = {}
  BY <1>3, <1>5, <1>q, AccountsAssumption DEF FirstActiveKey, Becomes
<1>6. QED  BY <1>4, <1>5

\* A caller that ends gives back its lock; the others keep theirs.
LEMMA UnlockedIs ==
  ASSUME AccTypes, CallsInv, NEW c \in Callers, NEW r, call' = [call EXCEPT ![c] = r],
         bootLock' = Unlocked(c)
  PROVE  /\ bootLock' \in [Orgs -> Callers \cup {NoOne}]
         /\ \A d \in Callers \ {c} : HoldsLock(d, call[d])'
<1>1. bootLock' \in [Orgs -> Callers \cup {NoOne}]  BY DEF Unlocked, AccTypes
<1>2. ASSUME NEW d \in Callers \ {c} PROVE HoldsLock(d, call[d])'
  <2>1. call'[d] = call[d]  BY DEF AccTypes
  <2>2. call[d].pc \in Booting => bootLock[call[d].org] = d /\ call[d].org \in Orgs
    BY DEF CallsInv, HoldsLock, HandlerOK
  <2>3. QED  BY <2>1, <2>2 DEF HoldsLock, Unlocked
<1>3. QED  BY <1>1, <1>2

\* A rollback and a crash release the lock.
LEMMA EndsKeeps ==
  ASSUME AccountsInv, NEW c \in Callers, RollbackBootstrap(c) \/ Dies(c)
  PROVE  AccountsInv'
<1>1. call' = [call EXCEPT ![c] = Resting] /\ bootLock' = Unlocked(c)
      /\ UNCHANGED <<clock, orgTenant, tenants, apiKeys, keyCache, lastUse, endOfKey, endOfTenant,
                     claimed, answered, handled>>
  BY DEF RollbackBootstrap, Dies, Finish, Becomes, accWebhook, accReading
<1>2. lost' \in 0 .. MaxLost
  BY AccountsAssumption DEF RollbackBootstrap, Dies, AccountsInv, AccTypes
<1>3. WebhookInv' /\ handled' \in [Deliveries -> Nat] /\ claimed \subseteq claimed'
      /\ clock' \in Nat
  BY <1>1, AccountsAssumption DEF AccountsInv, AccTypes, WebhookInv
<1>4. QED
  BY <1>1, <1>2, <1>3, UnlockedIs, RestingIs, RestingCall, RequestStep DEF AccountsInv, Booting

\* An answered request: the caller is free again, only the caches moved.
LEMMA AnswerStep ==
  ASSUME AccountsInv, NEW c \in Callers, call' = [call EXCEPT ![c] = Resting], ReadingOK',
         UNCHANGED <<clock, accTables, accWebhook, lost>>
  PROVE  AccountsInv'
<1>1. UNCHANGED <<clock, orgTenant, tenants, apiKeys, endOfKey, endOfTenant,
                  bootLock, lost, claimed, answered, handled>> /\ clock' \in Nat
  BY AccountsAssumption DEF accTables, accWebhook, AccountsInv, AccTypes
<1>2. \A d \in Callers \ {c} : HoldsLock(d, call[d])'
  BY <1>1 DEF AccountsInv, AccTypes, CallsInv, HoldsLock
<1>3. Resting.pc \notin Booting  BY RestingCall DEF Booting
<1>4. WebhookInv' /\ handled' \in [Deliveries -> Nat] /\ lost' \in 0 .. MaxLost
      /\ claimed \subseteq claimed' /\ bootLock' \in [Orgs -> Callers \cup {NoOne}]
  BY <1>1 DEF AccountsInv, AccTypes, WebhookInv
<1>5. QED  BY <1>1, <1>2, <1>3, <1>4, RestingIs, AuthStep

\* A request is accepted with a row read, or cached, before the key's end showed.
LEMMA AuthenticateIs ==
  ASSUME AccountsInv, NEW c \in Callers, NEW k \in KeyIDs, NEW active \in BOOLEAN,
         NEW start \in Nat, Authenticate(c, k, active, start), clock' = clock,
         endOfKey' = endOfKey, start <= clock,
         active => start < endOfKey[k] + CacheTTL + ReplicaLag
  PROVE  /\ call' = [call EXCEPT ![c] = Resting]
         /\ lastUse' \in [KeyIDs -> 0 .. MaxTime]
         /\ (\A l \in KeyIDs : lastUse[l] <= clock)' /\ RevokedStops'
<1>1. call' = [call EXCEPT ![c] = Resting]  BY DEF Authenticate, Finish, Becomes
<1>2. \/ lastUse' = lastUse
      \/ active /\ lastUse' = [lastUse EXCEPT ![k] = start]
  BY DEF Authenticate
<1>3. lastUse \in [KeyIDs -> 0 .. MaxTime] /\ start \in 0 .. MaxTime
      /\ (\A l \in KeyIDs : lastUse[l] <= clock) /\ RevokedStops
  BY AccountsAssumption DEF AccountsInv, AccTypes, KeysInv
<1>4. lastUse' \in [KeyIDs -> 0 .. MaxTime] /\ (\A l \in KeyIDs : lastUse[l] <= clock)'
  BY <1>2, <1>3
<1>5. RevokedStops'
  BY <1>2, <1>3 DEF RevokedStops, Never
<1>6. QED  BY <1>1, <1>4, <1>5

\* A key is presented: answered from the cache, or looked up.
LEMMA PresentKeyKeeps ==
  ASSUME AccountsInv, NEW c \in Callers, NEW s \in Servers, NEW k \in KeyIDs, PresentKey(c, s, k)
  PROVE  AccountsInv'
<1>1. UNCHANGED <<clock, accTables, accWebhook, keyCache, lost>> /\ clock \in 0 .. MaxTime
      /\ clock \in Nat
  BY AccountsAssumption DEF PresentKey, AccountsInv, AccTypes
<1>2. CASE CacheHit(s, k)
  <2>1. Authenticate(c, k, keyCache[s][k].active, clock)  BY <1>2 DEF PresentKey
  <2>2. keyCache[s][k].active \in BOOLEAN
        /\ (keyCache[s][k].active => clock < endOfKey[k] + CacheTTL + ReplicaLag)
    BY <1>1, <1>2, AccountsAssumption DEF CacheHit, AccountsInv, AccTypes, CacheInv, Never
  <2>3. /\ call' = [call EXCEPT ![c] = Resting] /\ lastUse' \in [KeyIDs -> 0 .. MaxTime]
        /\ (\A l \in KeyIDs : lastUse[l] <= clock)' /\ RevokedStops'
    BY <1>1, <2>1, <2>2, AuthenticateIs DEF accTables
  <2>4. ReadingOK'
    BY <1>1, <2>3 DEF ReadingOK, AccountsInv, AccTypes, CacheInv, accTables
  <2>5. QED  BY <1>1, <2>3, <2>4, AnswerStep
<1>3. CASE ~CacheHit(s, k)
  <2> DEFINE r == [Resting EXCEPT !.pc = "getkey", !.key = k, !.server = s, !.start = clock]
  <2>1. call' = [call EXCEPT ![c] = r] /\ lastUse' = lastUse  BY <1>3 DEF PresentKey, Becomes
  <2>2. r \in AccCalls /\ r.pc = "getkey" /\ r.key = k /\ r.server = s /\ r.start = clock
        /\ r.tenant = NoOne
    BY <1>1, RestingCall DEF AccCalls
  <2> HIDE DEF r
  <2>3. HandlerOK(r) /\ ReadBeforeEnd(r) /\ CandidateOK(c, r) /\ BootedOK(c, r) /\ Apart(c, r)
        /\ HoldsLock(c, r)
    BY <1>1, <2>2 DEF HandlerOK, Booting, ReadBeforeEnd, CandidateOK, Inserts, BootedOK, Booted,
       Apart, HoldsLock
  <2>4. QED  BY <1>1, <2>1, <2>2, <2>3, QuietStep DEF accReading
<1>4. QED  BY <1>2, <1>3

\* The row is read at the pool: an active one was not yet seen to end there.
LEMMA GetKeyByIDKeeps ==
  ASSUME AccountsInv, NEW c \in Callers, GetKeyByID(c)
  PROVE  AccountsInv'
<1> DEFINE q == call[c]
<1>1. q \in AccCalls /\ q.pc = "getkey" /\ q.key \in KeyIDs /\ q.server \in Servers
      /\ HandlerOK(q) /\ apiKeys[q.key] \in KeyRows
  BY DEF GetKeyByID, AccountsInv, AccTypes, CallsInv, HandlerOK
<1>2. UNCHANGED <<clock, accTables, accReading, accWebhook, lost>>  BY DEF GetKeyByID
<1>3. clock \in Nat  BY AccountsAssumption DEF AccountsInv, AccTypes
<1>q. q = call[c]  OBVIOUS
<1> HIDE DEF q
<1>4. CASE call' = [call EXCEPT ![c] = Resting]
  <2>2. clock' \in Nat  BY <1>2, <1>3
  <2>3. HandlerOK(Resting) /\ HoldsLock(c, Resting)
    BY <1>3, RestingCall DEF HandlerOK, HoldsLock, Booting
  <2>4. QED  BY <1>2, <1>4, <2>2, <2>3, RestingIs, QuietStep
<1>5. ASSUME NEW active \in RowsShown(q.key), NEW r,
             r = [q EXCEPT !.pc = "cacheput", !.fresh = active],
             call' = [call EXCEPT ![c] = r]
      PROVE  AccountsInv'
  <2>1. active \in BOOLEAN  BY <1>5 DEF RowsShown
  <2>2. active => clock <= endOfKey[q.key] + ReplicaLag
    <3>1. CASE StillShown(endOfKey[q.key])  BY <3>1 DEF StillShown
    <3>2. CASE ~StillShown(endOfKey[q.key])
      <4>1. active = apiKeys[q.key].active  BY <1>5, <3>2 DEF RowsShown
      <4>2. active => endOfKey[q.key] = Never  BY <1>1, <4>1 DEF AccountsInv, KeysInv
      <4>3. QED  BY <4>2, AccountsAssumption DEF AccountsInv, AccTypes, Never
    <3>3. QED  BY <3>1, <3>2
  <2>3. r \in AccCalls /\ r.pc = "cacheput" /\ r.key = q.key /\ r.server = q.server
        /\ r.start = q.start /\ r.tenant = q.tenant /\ r.fresh = active
    BY <1>1, <1>5, <2>1 DEF AccCalls
  <2>4. HandlerOK(r) /\ CandidateOK(c, r) /\ BootedOK(c, r) /\ Apart(c, r) /\ HoldsLock(c, r)
    BY <1>1, <1>q, <2>3 DEF HandlerOK, Booting, CandidateOK, Inserts, BootedOK, Booted, Apart,
       HoldsLock
  <2>5. q.start <= clock /\ q.start \in Nat /\ endOfKey[q.key] \in Nat
    BY <1>1, AccountsAssumption DEF HandlerOK, AccCalls, AccountsInv, AccTypes, Never
  <2>6. ReadBeforeEnd(r)
    BY <1>3, <2>2, <2>3, <2>5, AccountsAssumption DEF ReadBeforeEnd
  <2>7. QED  BY <1>2, <1>5, <2>3, <2>4, <2>6, QuietStep
<1>6. QED  BY <1>4, <1>5, <1>q DEF GetKeyByID, Becomes, Finish

\* What was read before a revocation showed is cached after it, for at most CacheTTL.
LEMMA CacheKeyKeeps ==
  ASSUME AccountsInv, NEW c \in Callers, CacheKey(c)
  PROVE  AccountsInv'
<1> DEFINE q == call[c]
           entry == [active |-> q.fresh, expiry |-> q.start + CacheTTL]
<1>1. q \in AccCalls /\ q.pc = "cacheput" /\ q.key \in KeyIDs /\ q.server \in Servers
      /\ q.start <= clock /\ (q.fresh => q.start <= endOfKey[q.key] + ReplicaLag)
  BY DEF CacheKey, AccountsInv, AccTypes, CallsInv, HandlerOK, ReadBeforeEnd
<1>2. UNCHANGED <<clock, accTables, accWebhook, lost>> /\ clock \in 0 .. MaxTime /\ clock \in Nat
  BY AccountsAssumption DEF CacheKey, AccountsInv, AccTypes
<1>3. keyCache' = [keyCache EXCEPT ![q.server][q.key] = entry]
      /\ Authenticate(c, q.key, q.fresh, q.start)
  BY DEF CacheKey, EntryExpiry
<1> HIDE DEF q
<1>4. q.fresh \in BOOLEAN /\ q.start \in 0 .. MaxTime /\ q.start \in Nat
  BY <1>1, AccountsAssumption DEF AccCalls
<1>5. entry \in [active : BOOLEAN, expiry : 0 .. (MaxTime + CacheTTL)]
      /\ entry.active = q.fresh /\ entry.expiry = q.start + CacheTTL
  BY <1>4, AccountsAssumption
<1> HIDE DEF entry
<1>e. endOfKey[q.key] \in Nat  BY <1>1, AccountsAssumption DEF AccountsInv, AccTypes, Never
<1>6. q.fresh => q.start < endOfKey[q.key] + CacheTTL + ReplicaLag
  BY <1>1, <1>4, <1>e, AccountsAssumption
<1>7. /\ call' = [call EXCEPT ![c] = Resting] /\ lastUse' \in [KeyIDs -> 0 .. MaxTime]
      /\ (\A l \in KeyIDs : lastUse[l] <= clock)' /\ RevokedStops'
  BY <1>1, <1>2, <1>3, <1>4, <1>6, AuthenticateIs DEF accTables
<1>8. keyCache' \in [Servers -> [KeyIDs -> [active : BOOLEAN, expiry : 0 .. (MaxTime + CacheTTL)]]]
  BY <1>1, <1>3, <1>5 DEF AccountsInv, AccTypes
<1>9. CacheInv'
  <2> SUFFICES ASSUME NEW s \in Servers, NEW k \in KeyIDs
               PROVE  /\ keyCache'[s][k].expiry <= clock + CacheTTL
                      /\ keyCache'[s][k].active =>
                           keyCache'[s][k].expiry <= endOfKey[k] + CacheTTL + ReplicaLag
    BY <1>2 DEF CacheInv, accTables
  <2>1. CASE s = q.server /\ k = q.key
    <3>1. keyCache'[s][k] = entry  BY <1>1, <1>3, <2>1 DEF AccountsInv, AccTypes
    <3>2. QED
      BY <1>1, <1>2, <1>4, <1>5, <1>e, <2>1, <3>1, AccountsAssumption
  <2>2. CASE ~(s = q.server /\ k = q.key)
    <3>1. keyCache'[s][k] = keyCache[s][k]  BY <1>1, <1>3, <2>2 DEF AccountsInv, AccTypes
    <3>2. QED  BY <3>1 DEF AccountsInv, CacheInv
  <2>3. QED  BY <2>1, <2>2
<1>10. ReadingOK'  BY <1>7, <1>8, <1>9 DEF ReadingOK
<1>11. QED  BY <1>2, <1>7, <1>10, AnswerStep

\* A webhook delivery is claimed once, whatever is delivered again.
LEMMA ReceiveDeletionKeeps ==
  ASSUME AccountsInv, NEW c \in Callers, NEW d \in Deliveries, NEW o \in Orgs,
         ReceiveDeletion(c, d, o)
  PROVE  AccountsInv'
<1>1. UNCHANGED <<clock, orgTenant, tenants, apiKeys, keyCache, lastUse, endOfKey, endOfTenant,
                  bootLock, lost>> /\ clock' \in Nat
  BY AccountsAssumption DEF ReceiveDeletion, accTables, accReading, AccountsInv, AccTypes
<1>2. lost' \in 0 .. MaxLost /\ bootLock' \in [Orgs -> Callers \cup {NoOne}]
  BY <1>1 DEF AccountsInv, AccTypes
<1>3. CASE MarkProcessed(d)
  <2> DEFINE r == [Resting EXCEPT !.pc = "ondeleted", !.org = o, !.key = d]
  <2>1. call' = [call EXCEPT ![c] = r] /\ answered' = answered /\ claimed' = claimed \cup {d}
        /\ handled' = [handled EXCEPT ![d] = @ + 1] /\ d \notin claimed
    BY <1>3 DEF ReceiveDeletion, Becomes, MarkProcessed
  <2>2. r \in AccCalls /\ r.pc = "ondeleted" /\ r.org = o /\ r.key = d /\ r.tenant = NoOne
        /\ r.start = 0
    BY RestingCall DEF AccCalls
  <2> HIDE DEF r
  <2>3. HandlerOK(r)' /\ ReadBeforeEnd(r) /\ CandidateOK(c, r) /\ BootedOK(c, r) /\ Apart(c, r)
        /\ r.pc \notin Booting
    BY <1>1, <2>1, <2>2 DEF HandlerOK, Booting, ReadBeforeEnd, CandidateOK, Inserts, BootedOK,
       Booted, Apart
  <2>4. WebhookInv' /\ handled' \in [Deliveries -> Nat] /\ claimed \subseteq claimed'
    BY <2>1 DEF AccountsInv, AccTypes, WebhookInv
  <2>5. \A e \in Callers \ {c} : HoldsLock(e, call[e])'
    BY <1>1, <2>1 DEF AccountsInv, AccTypes, CallsInv, HoldsLock
  <2>6. QED  BY <1>1, <1>2, <2>1, <2>2, <2>3, <2>4, <2>5, RequestStep
<1>4. CASE ~MarkProcessed(d)
  <2>1. call' = [call EXCEPT ![c] = Resting] /\ answered' = answered \cup {d}
        /\ claimed' = claimed /\ handled' = handled /\ d \in claimed
    BY <1>4 DEF ReceiveDeletion, Finish, Becomes, MarkProcessed
  <2>2. WebhookInv' /\ handled' \in [Deliveries -> Nat] /\ claimed \subseteq claimed'
    BY <2>1 DEF AccountsInv, AccTypes, WebhookInv
  <2>3. \A e \in Callers \ {c} : HoldsLock(e, call[e])'
    BY <1>1, <2>1 DEF AccountsInv, AccTypes, CallsInv, HoldsLock
  <2>4. Resting.pc \notin Booting  BY RestingCall DEF Booting
  <2>5. QED  BY <1>1, <1>2, <2>1, <2>2, <2>3, <2>4, RestingIs, RequestStep
<1>5. QED  BY <1>3, <1>4

\* The handler of the delivery that was claimed.
LEMMA OnOrgDeletedKeeps ==
  ASSUME AccountsInv, NEW c \in Callers, OnOrgDeleted(c)
  PROVE  AccountsInv'
<1> DEFINE q == call[c]
<1>0. UNCHANGED <<clock, orgTenant, tenants, apiKeys, keyCache, lastUse, endOfKey, endOfTenant,
                  bootLock, lost, claimed, handled>>
  BY DEF OnOrgDeleted, accTables, accReading
<1>1. UNCHANGED <<clock, orgTenant, tenants, apiKeys, keyCache, lastUse, endOfKey, endOfTenant,
                  bootLock, lost, claimed, handled>> /\ clock' \in Nat
  BY <1>0, AccountsAssumption DEF AccountsInv, AccTypes
<1>2. q \in AccCalls /\ q.pc = "ondeleted" /\ q.org \in Orgs /\ q.key \in claimed /\ HandlerOK(q)
  BY DEF OnOrgDeleted, AccountsInv, AccTypes, CallsInv, HandlerOK
<1>3. lost' \in 0 .. MaxLost /\ bootLock' \in [Orgs -> Callers \cup {NoOne}]
  BY <1>1 DEF AccountsInv, AccTypes
<1>q. q = call[c]  OBVIOUS
<1> HIDE DEF q
<1>4. CASE call' = [call EXCEPT ![c] = Resting] /\ answered' = answered \cup {q.key}
  <2>1. call' = [call EXCEPT ![c] = Resting]  BY <1>4
  <2>2. WebhookInv' /\ handled' \in [Deliveries -> Nat] /\ claimed \subseteq claimed'
    BY <1>1, <1>2, <1>4 DEF AccountsInv, AccTypes, WebhookInv
  <2>3. \A e \in Callers \ {c} : HoldsLock(e, call[e])'
    BY <1>1, <2>1 DEF AccountsInv, AccTypes, CallsInv, HoldsLock
  <2>4. Resting.pc \notin Booting  BY RestingCall DEF Booting
  <2>5. QED  BY <1>1, <1>3, <2>1, <2>2, <2>3, <2>4, RestingIs, RequestStep
<1>5. ASSUME NEW t \in GetTenantByExternalID(q.org) \ {NoOne}, answered' = answered,
             call' = [call EXCEPT ![c] = [q EXCEPT !.pc = "revokeall", !.tenant = t]]
      PROVE  AccountsInv'
  <2>0. PICK r : r = [q EXCEPT !.pc = "revokeall", !.tenant = t]  OBVIOUS
  <2>1. call' = [call EXCEPT ![c] = r] /\ answered' = answered  BY <1>5, <2>0
  <2>2. t \in TenantIDs /\ tenants[t] # "none"  BY <1>2, TenantOfOrg
  <2>3. r \in AccCalls /\ r.pc = "revokeall" /\ r.org = q.org /\ r.key = q.key /\ r.tenant = t
        /\ r.start = q.start
    BY <1>2, <2>0, <2>2 DEF AccCalls
  <2>4. HandlerOK(r)' /\ ReadBeforeEnd(r) /\ CandidateOK(c, r) /\ BootedOK(c, r) /\ Apart(c, r)
        /\ r.pc \notin Booting
    BY <1>1, <1>2, <2>2, <2>3 DEF HandlerOK, Booting, ReadBeforeEnd, CandidateOK, Inserts,
       BootedOK, Booted, Apart
  <2>5. WebhookInv' /\ handled' \in [Deliveries -> Nat] /\ claimed \subseteq claimed'
    BY <1>1, <2>1 DEF AccountsInv, AccTypes, WebhookInv
  <2>6. \A e \in Callers \ {c} : HoldsLock(e, call[e])'
    BY <1>1, <2>1 DEF AccountsInv, AccTypes, CallsInv, HoldsLock
  <2>7. QED  BY <1>1, <1>3, <2>1, <2>3, <2>4, <2>5, <2>6, RequestStep
<1>6. QED  BY <1>4, <1>5, <1>q DEF OnOrgDeleted, Becomes, Finish

-----------------------------------------------------------------------------
(* Accounts: steps that change the tables *)

\* Keys end: those that are revoked or deleted now were active, and no lookup
\* and no cache entry is younger than now.
LEMMA EndKeys ==
  ASSUME AccountsInv, NEW ks \in SUBSET KeyIDs, clock' = clock, keyCache' = keyCache,
         lastUse' = lastUse,
         endOfKey' = [k \in KeyIDs |-> IF k \in ks THEN clock ELSE endOfKey[k]]
  PROVE  /\ endOfKey' \in [KeyIDs -> 0 .. Never] /\ CacheInv' /\ RevokedStops'
         /\ \A k \in KeyIDs : endOfKey'[k] = Never \/ endOfKey'[k] <= clock
<1>1. /\ clock \in 0 .. MaxTime /\ endOfKey \in [KeyIDs -> 0 .. Never]
      /\ lastUse \in [KeyIDs -> 0 .. MaxTime]
      /\ \A k \in KeyIDs : (endOfKey[k] = Never \/ endOfKey[k] <= clock) /\ lastUse[k] <= clock
  BY DEF AccountsInv, AccTypes, KeysInv
<1>2. endOfKey' \in [KeyIDs -> 0 .. Never]
      /\ \A k \in KeyIDs : endOfKey'[k] = Never \/ endOfKey'[k] <= clock
  BY <1>1, AccountsAssumption DEF Never
<1>3. CacheInv'
  <2> SUFFICES ASSUME NEW s \in Servers, NEW k \in KeyIDs
               PROVE  /\ keyCache[s][k].expiry <= clock + CacheTTL
                      /\ keyCache[s][k].active =>
                           keyCache[s][k].expiry <= endOfKey'[k] + CacheTTL + ReplicaLag
    BY DEF CacheInv
  <2>1. keyCache[s][k].expiry <= clock + CacheTTL /\ keyCache[s][k].expiry \in Nat
        /\ (keyCache[s][k].active => keyCache[s][k].expiry <= endOfKey[k] + CacheTTL + ReplicaLag)
    BY AccountsAssumption DEF AccountsInv, AccTypes, CacheInv
  <2>2. endOfKey'[k] \in {clock, endOfKey[k]}  OBVIOUS
  <2>3. QED  BY <1>1, <2>1, <2>2, AccountsAssumption
<1>4. RevokedStops'
  BY <1>1, AccountsAssumption DEF AccountsInv, RevokedStops
<1>5. QED  BY <1>2, <1>3, <1>4

\* What a bootstrap of another caller relies on in the tables.
Relies(r) ==
  /\ Inserts(r) => apiKeys[r.key] = NoKey /\ \A k \in KeyIDs : ~IsDefault(k, r.tenant)
  /\ Booted(r) /\ r.fresh =>
       tenants[r.tenant] = "none" /\ endOfTenant[r.tenant] = Never /\ orgTenant[r.org] = NoOne
  /\ Booted(r) /\ ~r.fresh =>
       \/ orgTenant[r.org] = r.tenant
       \/ tenants[r.tenant] = "none" /\ endOfTenant[r.tenant] # Never

\* A step that changes tables, moves its caller on to r and leaves alone what
\* the other callers rely on.
LEMMA TableStep ==
  ASSUME AccountsInv, NEW c \in Callers, NEW r \in AccCalls, call' = [call EXCEPT ![c] = r],
         HandlerOK(r)', r.pc \notin Booting \cup {"cacheput"},
         r.tenant \in {NoOne, call[c].tenant}, UNCHANGED <<clock, claimed>>,
         \A d \in Callers \ {c} : HoldsLock(d, call[d])',
         \A k \in KeyIDs : \/ endOfKey'[k] = endOfKey[k]
                           \/ endOfKey'[k] = clock /\ apiKeys[k] # NoKey,
         \A d \in Callers \ {c} : Relies(call[d])'
  PROVE  CallsInv' /\ call' \in [Callers -> AccCalls]
<1>1. call' \in [Callers -> AccCalls] /\ call'[c] = r
      /\ \A d \in Callers \ {c} : call'[d] = call[d]
  BY DEF AccountsInv, AccTypes
<1>2. ASSUME NEW d \in Callers
      PROVE  /\ HandlerOK(call[d])' /\ ReadBeforeEnd(call[d])' /\ CandidateOK(d, call[d])'
             /\ HoldsLock(d, call[d])' /\ BootedOK(d, call[d])'
  <2>1. CASE d = c
    BY <1>1, <2>1 DEF ReadBeforeEnd, CandidateOK, Inserts, HoldsLock, BootedOK, Booted, Booting
  <2>2. CASE d # c
    <3>1. call'[d] = call[d] /\ HandlerOK(call[d]) /\ ReadBeforeEnd(call[d])
          /\ CandidateOK(d, call[d]) /\ BootedOK(d, call[d]) /\ Relies(call[d])'
          /\ HoldsLock(d, call[d])'
      BY <1>1, <2>2 DEF AccountsInv, CallsInv
    <3>2. HandlerOK(call[d])'  BY <3>1 DEF HandlerOK
    <3>t. clock \in Nat /\ call[d].start \in Nat
      BY AccountsAssumption DEF AccountsInv, AccTypes, AccCalls
    <3>3. ReadBeforeEnd(call[d])'
      BY <3>1, <3>t, AccountsAssumption DEF ReadBeforeEnd, HandlerOK
    <3>4. CandidateOK(d, call[d])'
      <4> SUFFICES ASSUME Inserts(call[d])' PROVE CandidateOK(d, call[d])'  BY DEF CandidateOK
      <4>1. call[d].key \in KeyIDs  BY <3>1 DEF Inserts, HandlerOK
      <4>2. endOfKey'[call[d].key] = Never
        BY <3>1, <4>1 DEF CandidateOK, Inserts
      <4>3. apiKeys'[call[d].key] = NoKey /\ \A k \in KeyIDs : ~IsDefault(k, call[d].tenant)'
        BY <3>1 DEF Relies
      <4>4. \A e \in Callers \ {d} : Inserts(call[e])' => call'[e].key # call'[d].key
        BY <1>1, <3>1 DEF CandidateOK, Inserts, Booting
      <4>5. QED  BY <3>1, <4>2, <4>3, <4>4 DEF CandidateOK
    <3>5. BootedOK(d, call[d])'
      <4>1. Booted(call[d]) /\ call[d].fresh => \A e \in Callers \ {d} : call'[e].tenant # call[d].tenant
        <5>1. Booted(call[d]) => call[d].tenant \in TenantIDs  BY <3>1 DEF HandlerOK, Booted
        <5>2. QED  BY <1>1, <2>2, <3>1, <5>1, AccountsAssumption DEF BootedOK
      <4>2. QED  BY <3>1, <4>1 DEF BootedOK, Relies, Booted
    <3>6. QED  BY <3>1, <3>2, <3>3, <3>4, <3>5
  <2>3. QED  BY <2>1, <2>2
<1>3. QED  BY <1>1, <1>2 DEF CallsInv

\* What every caller relies on now.
LEMMA AllRely ==
  ASSUME AccountsInv, NEW d \in Callers
  PROVE  /\ Relies(call[d]) /\ HandlerOK(call[d]) /\ HoldsLock(d, call[d])
         /\ Inserts(call[d]) => call[d].key \in KeyIDs
         /\ Booted(call[d]) => call[d].tenant \in TenantIDs /\ call[d].org \in Orgs
BY DEF AccountsInv, CallsInv, Relies, CandidateOK, BootedOK, HandlerOK, Inserts, Booted, Booting

\* RevokeKey and RevokeAllKeys: active keys end now.
LEMMA RevokedKeeps ==
  ASSUME AccountsInv, NEW c \in Callers, NEW ks \in SUBSET KeyIDs,
         \A k \in ks : apiKeys[k].active, Revoked(ks),
         NEW r \in AccCalls, call' = [call EXCEPT ![c] = r], HandlerOK(r)',
         r.pc \notin Booting \cup {"cacheput"}, r.tenant \in {NoOne, call[c].tenant},
         UNCHANGED <<clock, orgTenant, tenants, bootLock, endOfTenant, accWebhook, accReading, lost>>
  PROVE  AccountsInv'
<1>1. UNCHANGED <<clock, orgTenant, tenants, bootLock, endOfTenant, claimed, handled, answered,
                  keyCache, lastUse, lost>>
  BY DEF accWebhook, accReading
<1>2. endOfKey' = [k \in KeyIDs |-> IF k \in ks THEN clock ELSE endOfKey[k]]
  BY DEF Revoked
<1>3. /\ endOfKey' \in [KeyIDs -> 0 .. Never] /\ CacheInv' /\ RevokedStops'
      /\ \A k \in KeyIDs : endOfKey'[k] = Never \/ endOfKey'[k] <= clock
  BY <1>1, <1>2, EndKeys
<1>4. /\ apiKeys' \in [KeyIDs -> KeyRows]
      /\ \A k \in KeyIDs : /\ apiKeys'[k].tenant = apiKeys[k].tenant
                           /\ apiKeys'[k].auto = apiKeys[k].auto
                           /\ k \notin ks => apiKeys'[k] = apiKeys[k]
                           /\ k \in ks => ~apiKeys'[k].active
  BY DEF Revoked, AccountsInv, AccTypes, KeyRows
<1>5. KeysInv'
  BY <1>1, <1>2, <1>3, <1>4 DEF AccountsInv, KeysInv
<1>6. \A k \in KeyIDs, t \in TenantIDs : IsDefault(k, t)' => IsDefault(k, t)
  BY <1>4 DEF IsDefault
<1>7. DefaultInv'  BY <1>6 DEF AccountsInv, DefaultInv
<1>8. TenantsInv' /\ WebhookInv'  BY <1>1 DEF AccountsInv, TenantsInv, WebhookInv, Never
<1>9. \A d \in Callers \ {c} : call'[d] = call[d]  BY DEF AccountsInv, AccTypes
<1>10. CallsInv' /\ call' \in [Callers -> AccCalls]
  <2>1. \A d \in Callers \ {c} : HoldsLock(d, call[d])'
    BY <1>1, <1>9, AllRely DEF HoldsLock
  <2>n. ~NoKey.active  BY DEF NoKey
  <2>2. \A k \in KeyIDs : endOfKey'[k] = endOfKey[k] \/ (endOfKey'[k] = clock /\ apiKeys[k] # NoKey)
    <3>1. \A k \in ks : apiKeys[k] # NoKey  BY <2>n
    <3>2. \A k \in KeyIDs : endOfKey'[k] = IF k \in ks THEN clock ELSE endOfKey[k]  BY <1>2
    <3>3. QED  BY <3>1, <3>2
  <2>3. ASSUME NEW d \in Callers \ {c} PROVE Relies(call[d])'
    <3>1. Inserts(call[d]) => apiKeys[call[d].key] = NoKey /\ call[d].key \in KeyIDs
      BY AllRely DEF Relies
    <3>2. Inserts(call[d]) => apiKeys'[call[d].key] = NoKey
      BY <1>4, <3>1 DEF NoKey
    <3>3. Inserts(call[d]) => call[d].tenant \in TenantIDs
      BY AllRely DEF Inserts, Booted
    <3>4. QED  BY <1>1, <1>6, <1>9, <3>2, <3>3, AllRely DEF Relies, Inserts, Booted, Never
  <2>4. QED  BY <1>1, <2>1, <2>2, <2>3, TableStep
<1>11. AccTypes'  BY <1>1, <1>3, <1>4, <1>10 DEF AccountsInv, AccTypes, Never
<1>12. QED  BY <1>3, <1>5, <1>7, <1>8, <1>10, <1>11 DEF AccountsInv

\* One key is revoked.
LEMMA RevokeKeyKeeps ==
  ASSUME AccountsInv, NEW c \in Callers, RevokeKey(c)
  PROVE  AccountsInv'
<1>1. UNCHANGED <<clock, orgTenant, tenants, bootLock, endOfTenant, accWebhook, accReading, lost>>
      /\ call' = [call EXCEPT ![c] = Resting] /\ clock' \in Nat
  BY AccountsAssumption DEF RevokeKey, Finish, Becomes, AccountsInv, AccTypes
<1>2. HandlerOK(Resting)' /\ Resting \in AccCalls /\ Resting.pc \notin Booting \cup {"cacheput"}
      /\ Resting.tenant \in {NoOne, call[c].tenant}
  BY <1>1, RestingIs DEF Booting
<1>3. \A k \in ActiveKeys(call[c].tenant) : k \in KeyIDs /\ apiKeys[k].active
  BY DEF ActiveKeys
<1>4. ASSUME NEW k \in ActiveKeys(call[c].tenant), Revoked({k}) PROVE AccountsInv'
  <2>1. {k} \in SUBSET KeyIDs /\ \A l \in {k} : apiKeys[l].active  BY <1>3
  <2>2. QED  BY <1>1, <1>2, <1>4, <2>1, RevokedKeeps
<1>5. ASSUME apiKeys' = apiKeys, endOfKey' = endOfKey PROVE AccountsInv'
  <2>1. HandlerOK(Resting) /\ HoldsLock(c, Resting)
    BY <1>1, RestingCall DEF HandlerOK, HoldsLock, Booting
  <2>2. QED  BY <1>1, <1>2, <1>5, <2>1, RestingIs, QuietStep DEF accTables
<1>6. QED  BY <1>4, <1>5 DEF RevokeKey

\* All keys of a tenant are revoked.
LEMMA RevokeAllKeysKeeps ==
  ASSUME AccountsInv, NEW c \in Callers, RevokeAllKeys(c)
  PROVE  AccountsInv'
<1>1. PICK r : r = [call[c] EXCEPT !.pc = "softdelete"]  OBVIOUS
<1>2. UNCHANGED <<clock, orgTenant, tenants, bootLock, endOfTenant, accWebhook, accReading, lost>>
      /\ call' = [call EXCEPT ![c] = r]
  BY <1>1 DEF RevokeAllKeys, Becomes
<1>3. call[c] \in AccCalls /\ call[c].pc = "revokeall" /\ HandlerOK(call[c])
  BY DEF RevokeAllKeys, AccountsInv, AccTypes, CallsInv
<1>4. r \in AccCalls /\ r.pc = "softdelete" /\ r.tenant = call[c].tenant /\ r.org = call[c].org
      /\ r.key = call[c].key /\ r.start = call[c].start
  BY <1>1, <1>3 DEF AccCalls
<1>5. HandlerOK(r)' /\ r.pc \notin Booting \cup {"cacheput"}
  BY <1>2, <1>3, <1>4 DEF HandlerOK, Booting, accWebhook
<1>6. \A k \in ActiveKeys(call[c].tenant) : k \in KeyIDs /\ apiKeys[k].active
  BY DEF ActiveKeys
<1>7. PICK ks : ks = ActiveKeys(call[c].tenant)  OBVIOUS
<1>8. Revoked(ks)  BY <1>7 DEF RevokeAllKeys
<1>9. QED  BY <1>2, <1>4, <1>5, <1>6, <1>7, <1>8, RevokedKeeps

\* A key is created for a tenant that may have gone meanwhile.
LEMMA CreateKeyKeeps ==
  ASSUME AccountsInv, NEW c \in Callers, CreateKey(c)
  PROVE  AccountsInv'
<1> DEFINE t == call[c].tenant
<1>1. UNCHANGED <<clock, orgTenant, tenants, bootLock, endOfKey, endOfTenant, claimed, handled,
                  answered, keyCache, lastUse, lost>>
      /\ call' = [call EXCEPT ![c] = Resting] /\ clock' \in Nat /\ t \in TenantIDs
  BY AccountsAssumption DEF CreateKey, Finish, Becomes, AccountsInv, AccTypes, CallsInv, HandlerOK,
     accWebhook, accReading
<1>2. HandlerOK(Resting)' /\ Resting \in AccCalls /\ Resting.pc \notin Booting \cup {"cacheput"}
      /\ Resting.tenant \in {NoOne, call[c].tenant}
  BY <1>1, RestingIs DEF Booting
<1>3. CASE apiKeys' = apiKeys
  <2>1. HandlerOK(Resting) /\ HoldsLock(c, Resting)
    BY <1>1, RestingCall DEF HandlerOK, HoldsLock, Booting
  <2>2. QED
    BY <1>1, <1>2, <1>3, <2>1, RestingIs, QuietStep DEF accTables, accReading, accWebhook
<1>4. ASSUME NEW k \in KeyIDs, NewKeyID(k), tenants[t] # "none",
             apiKeys' = [apiKeys EXCEPT ![k] = [tenant |-> t, active |-> TRUE, auto |-> FALSE]]
      PROVE  AccountsInv'
  <2>1. apiKeys' \in [KeyIDs -> KeyRows] /\ apiKeys'[k].tenant = t /\ ~apiKeys'[k].auto
        /\ \A l \in KeyIDs \ {k} : apiKeys'[l] = apiKeys[l]
    BY <1>1, <1>4 DEF AccountsInv, AccTypes, KeyRows
  <2>2. endOfKey[k] = Never /\ \A d \in Callers : call[d].key # k
    BY <1>4 DEF NewKeyID
  <2>3. KeysInv'  BY <1>1, <1>4, <2>1, <2>2 DEF AccountsInv, KeysInv, Never
  <2>4. \A l \in KeyIDs, u \in TenantIDs : IsDefault(l, u)' => IsDefault(l, u)
    BY <2>1 DEF IsDefault
  <2>5. DefaultInv'  BY <2>4 DEF AccountsInv, DefaultInv
  <2>6. TenantsInv' /\ WebhookInv' /\ CacheInv' /\ RevokedStops'
    BY <1>1 DEF AccountsInv, TenantsInv, WebhookInv, CacheInv, RevokedStops, Never
  <2>7. \A d \in Callers \ {c} : call'[d] = call[d]  BY <1>1 DEF AccountsInv, AccTypes
  <2>8. CallsInv' /\ call' \in [Callers -> AccCalls]
    <3>1. \A d \in Callers \ {c} : HoldsLock(d, call[d])'
      BY <1>1, <2>7, AllRely DEF HoldsLock
    <3>2. ASSUME NEW d \in Callers \ {c} PROVE Relies(call[d])'
      <4>1. Inserts(call[d]) => apiKeys'[call[d].key] = NoKey /\ call[d].tenant \in TenantIDs
        BY <2>1, <2>2, AllRely DEF Relies, Inserts, Booted
      <4>2. QED  BY <1>1, <2>4, <2>7, <4>1, AllRely DEF Relies, Inserts, Booted, Never
    <3>3. QED  BY <1>1, <1>2, <3>1, <3>2, TableStep
  <2>9. AccTypes'  BY <1>1, <2>1, <2>8 DEF AccountsInv, AccTypes, Never
  <2>10. QED  BY <2>3, <2>5, <2>6, <2>8, <2>9 DEF AccountsInv
<1>5. QED  BY <1>3, <1>4 DEF CreateKey

\* A tenant is deleted and its keys stop.
LEMMA SoftDeleteTenantKeeps ==
  ASSUME AccountsInv, NEW c \in Callers, SoftDeleteTenant(c)
  PROVE  AccountsInv'
<1> DEFINE t == call[c].tenant
<1>1. UNCHANGED <<clock, orgTenant, apiKeys, bootLock, endOfKey, claimed, handled,
                  keyCache, lastUse, lost>>
      /\ call' = [call EXCEPT ![c] = Resting] /\ clock' \in Nat /\ t \in TenantIDs
      /\ answered' = answered \cup {call[c].key} /\ call[c].key \in claimed
  BY AccountsAssumption DEF SoftDeleteTenant, Finish, Becomes, AccountsInv, AccTypes, CallsInv,
     HandlerOK, accReading
<1>2. HandlerOK(Resting)' /\ Resting \in AccCalls /\ Resting.pc \notin Booting \cup {"cacheput"}
      /\ Resting.tenant \in {NoOne, call[c].tenant}
  BY <1>1, RestingIs DEF Booting
<1>3. \/ tenants[t] = "live" /\ tenants' = [tenants EXCEPT ![t] = "deleted"]
         /\ endOfTenant' = [endOfTenant EXCEPT ![t] = clock]
      \/ tenants' = tenants /\ endOfTenant' = endOfTenant
  BY DEF SoftDeleteTenant
<1>n. clock \in 0 .. Never /\ clock # Never
  BY AccountsAssumption DEF AccountsInv, AccTypes, Never
<1>t. tenants \in [TenantIDs -> {"none", "live", "deleted"}]
      /\ endOfTenant \in [TenantIDs -> 0 .. Never]
  BY DEF AccountsInv, AccTypes
<1>4. tenants' \in [TenantIDs -> {"none", "live", "deleted"}]
      /\ endOfTenant' \in [TenantIDs -> 0 .. Never]
  BY <1>1, <1>3, <1>n, <1>t
<1>5. \A u \in TenantIDs : \/ tenants'[u] = tenants[u] /\ endOfTenant'[u] = endOfTenant[u]
                           \/ tenants[u] = "live" /\ tenants'[u] = "deleted" /\ endOfTenant'[u] = clock
  BY <1>1, <1>3 DEF AccountsInv, AccTypes
<1>6. KeysInv'  BY <1>1, <1>5 DEF AccountsInv, KeysInv, Never
<1>7. TenantsInv'
  <2>1. \A o \in Orgs : orgTenant[o] # NoOne => orgTenant[o] \in TenantIDs
    BY DEF AccountsInv, AccTypes
  <2>2. clock \in Nat  BY <1>1
  <2>3. QED  BY <1>1, <1>n, <1>5, <2>1, <2>2 DEF AccountsInv, TenantsInv, Never
<1>8. DefaultInv' /\ WebhookInv' /\ CacheInv' /\ RevokedStops'
  BY <1>1 DEF AccountsInv, DefaultInv, IsDefault, WebhookInv, CacheInv, RevokedStops, Never
<1>9. \A d \in Callers \ {c} : call'[d] = call[d]  BY <1>1 DEF AccountsInv, AccTypes
<1>10. CallsInv' /\ call' \in [Callers -> AccCalls]
  <2>1. \A d \in Callers \ {c} : HoldsLock(d, call[d])'
    BY <1>1, <1>9, AllRely DEF HoldsLock
  <2>2. ASSUME NEW d \in Callers \ {c} PROVE Relies(call[d])'
    BY <1>1, <1>5, <1>9, AllRely DEF Relies, Inserts, Booted, IsDefault, Never
  <2>3. QED  BY <1>1, <1>2, <2>1, <2>2, TableStep
<1>11. AccTypes'  BY <1>1, <1>4, <1>10 DEF AccountsInv, AccTypes, Never
<1>12. QED  BY <1>6, <1>7, <1>8, <1>10, <1>11 DEF AccountsInv

\* The bootstrap commits a tenant, its mapping and its first key at once.
LEMMA CommitBootstrapKeeps ==
  ASSUME AccountsInv, NEW c \in Callers, CommitBootstrap(c)
  PROVE  AccountsInv'
<1> DEFINE q == call[c]
           row == [tenant |-> q.tenant, active |-> TRUE, auto |-> TRUE]
<1>1. UNCHANGED <<clock, endOfKey, endOfTenant, claimed, handled, answered, keyCache, lastUse,
                  lost>>
      /\ call' = [call EXCEPT ![c] = Resting] /\ bootLock' = Unlocked(c) /\ clock' \in Nat
      /\ MayCommit(q)
      /\ orgTenant' = (IF q.fresh THEN [orgTenant EXCEPT ![q.org] = q.tenant] ELSE orgTenant)
      /\ tenants' = (IF q.fresh THEN [tenants EXCEPT ![q.tenant] = "live"] ELSE tenants)
      /\ apiKeys' = IF q.key = NoOne THEN apiKeys ELSE [apiKeys EXCEPT ![q.key] = row]
  BY AccountsAssumption DEF CommitBootstrap, Finish, Becomes, AccountsInv, AccTypes,
     accWebhook, accReading
<1>2. q \in AccCalls /\ q.pc = "commit" /\ q.org \in Orgs /\ q.tenant \in TenantIDs
      /\ q.key \in KeyIDs \cup {NoOne} /\ q.fresh \in BOOLEAN
      /\ CandidateOK(c, q) /\ HoldsLock(c, q) /\ BootedOK(c, q) /\ Booted(q) /\ bootLock[q.org] = c
  BY DEF CommitBootstrap, AccountsInv, AccTypes, AccCalls, CallsInv, HandlerOK, Booting, Booted,
     HoldsLock
<1>q. q = call[c]  OBVIOUS
<1> HIDE DEF q
<1>3. HandlerOK(Resting)' /\ Resting \in AccCalls /\ Resting.pc \notin Booting \cup {"cacheput"}
      /\ Resting.tenant \in {NoOne, call[c].tenant}
  BY <1>1, RestingIs DEF Booting
\* The organization's mapping is its own, and the tenant exists from now on.
<1>4. \A u \in TenantIDs : tenants'[u] = IF q.fresh /\ u = q.tenant THEN "live" ELSE tenants[u]
  BY <1>1, <1>2 DEF AccountsInv, AccTypes
<1>5. \A o \in Orgs : orgTenant'[o] = IF q.fresh /\ o = q.org THEN q.tenant ELSE orgTenant[o]
  BY <1>1, <1>2 DEF AccountsInv, AccTypes
<1>6. q.fresh => tenants[q.tenant] = "none" /\ endOfTenant[q.tenant] = Never
                 /\ orgTenant[q.org] = NoOne
                 /\ \A d \in Callers \ {c} : call[d].tenant # q.tenant
  BY <1>2 DEF BootedOK
<1>7. q.key # NoOne /\ ~q.fresh => orgTenant[q.org] = q.tenant
  BY <1>1, <1>2 DEF MayCommit, BootedOK
<1>8. q.key # NoOne => /\ tenants'[q.tenant] # "none" /\ q.key \in KeyIDs
                       /\ apiKeys[q.key] = NoKey /\ endOfKey[q.key] = Never
                       /\ \A k \in KeyIDs : ~IsDefault(k, q.tenant)
                       /\ \A d \in Callers \ {c} : Inserts(call[d]) => call[d].key # q.key
  BY <1>1, <1>2, <1>4 DEF CandidateOK, Inserts, MayCommit
<1>9. row \in KeyRows /\ row.tenant = q.tenant  BY <1>2 DEF KeyRows
<1> HIDE DEF row
<1>10. apiKeys' \in [KeyIDs -> KeyRows]
       /\ \A k \in KeyIDs : apiKeys'[k] = IF k = q.key /\ q.key # NoOne THEN row ELSE apiKeys[k]
  BY <1>1, <1>2, <1>9, AccountsAssumption DEF AccountsInv, AccTypes
<1>11. KeysInv'
  <2> SUFFICES ASSUME NEW k \in KeyIDs
               PROVE  /\ apiKeys'[k].active =>
                           endOfKey[k] = Never /\ apiKeys'[k].tenant \in TenantIDs
                      /\ apiKeys'[k].tenant \in TenantIDs => tenants'[apiKeys'[k].tenant] # "none"
    BY <1>1 DEF AccountsInv, KeysInv, Never
  <2>1. \A u \in TenantIDs : tenants[u] # "none" => tenants'[u] # "none"  BY <1>4
  <2>2. CASE k = q.key /\ q.key # NoOne  BY <1>2, <1>8, <1>9, <1>10, <2>2
  <2>3. CASE ~(k = q.key /\ q.key # NoOne)
    BY <1>10, <2>1, <2>3 DEF AccountsInv, KeysInv
  <2>4. QED  BY <2>2, <2>3
<1>12. TenantsInv'
  <2>1. \A o \in Orgs : orgTenant[o] # NoOne =>
          orgTenant[o] \in TenantIDs /\ tenants[orgTenant[o]] # "none"
    BY DEF AccountsInv, AccTypes, TenantsInv
  <2>2. \A o \in Orgs : orgTenant'[o] # NoOne => tenants'[orgTenant'[o]] # "none"
    BY <1>2, <1>4, <1>5, <2>1
  <2>3. \A o, p \in Orgs : orgTenant'[o] = orgTenant'[p] /\ orgTenant'[o] # NoOne => o = p
    BY <1>2, <1>5, <1>6, <2>1 DEF AccountsInv, TenantsInv
  <2>4. ASSUME NEW u \in TenantIDs, tenants'[u] = "live"
        PROVE  endOfTenant[u] = Never /\ \E o \in Orgs : orgTenant'[o] = u
    <3>1. CASE q.fresh /\ u = q.tenant  BY <1>2, <1>5, <1>6, <3>1
    <3>2. CASE ~(q.fresh /\ u = q.tenant)
      <4>1. tenants[u] = "live"  BY <1>4, <2>4, <3>2
      <4>2. PICK o \in Orgs : orgTenant[o] = u  BY <4>1 DEF AccountsInv, TenantsInv
      <4>3. orgTenant'[o] = u  BY <1>5, <1>6, <4>2, AccountsAssumption
      <4>4. QED  BY <4>1, <4>3 DEF AccountsInv, TenantsInv
    <3>3. QED  BY <3>1, <3>2
  <2>5. QED  BY <1>1, <1>4, <2>2, <2>3, <2>4 DEF AccountsInv, TenantsInv, Never
<1>13. \A k \in KeyIDs, u \in TenantIDs :
         IsDefault(k, u)' <=> IF k = q.key /\ q.key # NoOne THEN u = q.tenant ELSE IsDefault(k, u)
  <2>1. row.active /\ row.auto  BY DEF row
  <2>2. QED  BY <1>8, <1>9, <1>10, <2>1 DEF IsDefault
<1>14. DefaultInv'
  BY <1>8, <1>13 DEF AccountsInv, DefaultInv
<1>15. WebhookInv' /\ CacheInv' /\ RevokedStops'
  BY <1>1 DEF AccountsInv, WebhookInv, CacheInv, RevokedStops, Never
<1>16. \A d \in Callers \ {c} : call'[d] = call[d]  BY <1>1 DEF AccountsInv, AccTypes
<1>17. /\ bootLock' \in [Orgs -> Callers \cup {NoOne}]
       /\ \A d \in Callers \ {c} : HoldsLock(d, call[d])'
  BY <1>1, UnlockedIs DEF AccountsInv
<1>18. ASSUME NEW d \in Callers \ {c} PROVE Relies(call[d])'
  <2>1. Relies(call[d]) /\ HandlerOK(call[d])
        /\ (Inserts(call[d]) => call[d].key \in KeyIDs)
        /\ (Booted(call[d]) => call[d].tenant \in TenantIDs /\ call[d].org \in Orgs
                               /\ bootLock[call[d].org] = d)
    BY AllRely DEF HoldsLock, Booted, Booting
  <2>2. Booted(call[d]) => call[d].org # q.org  BY <1>2, <2>1
  <2>3. Booted(call[d]) /\ q.key # NoOne => call[d].tenant # q.tenant
    \* Both would be bootstraps of the one organization that is mapped to the tenant.
    <3>1. CASE q.fresh  BY <1>6, <3>1
    <3>2. CASE ~q.fresh
      <4> SUFFICES ASSUME q.key # NoOne, Booted(call[d]), call[d].tenant = q.tenant PROVE FALSE
        OBVIOUS
      <4>1. orgTenant[q.org] = q.tenant /\ tenants[q.tenant] # "none"
        BY <1>2, <1>7, <1>8, <1>4, <3>2
      <4>2. call[d].fresh \in BOOLEAN  BY DEF AccountsInv, AccTypes, AccCalls
      <4>3. orgTenant[call[d].org] = q.tenant  BY <2>1, <4>1, <4>2 DEF Relies
      <4>4. QED  BY <1>2, <2>1, <2>2, <4>1, <4>3, AccountsAssumption DEF AccountsInv, TenantsInv
    <3>3. QED  BY <1>2, <3>1, <3>2
  <2>4. Inserts(call[d]) => Booted(call[d])  BY DEF Inserts, Booted
  <2>5. Inserts(call[d]) => apiKeys'[call[d].key] = NoKey
    BY <1>8, <1>10, <2>1 DEF Relies
  <2>6. \A k \in KeyIDs, u \in TenantIDs :
          Inserts(call[d]) /\ u = call[d].tenant => ~IsDefault(k, u)'
    BY <1>13, <2>1, <2>3, <2>4 DEF Relies
  <2>7. Booted(call[d]) => /\ orgTenant'[call[d].org] = orgTenant[call[d].org]
                           /\ tenants'[call[d].tenant] = tenants[call[d].tenant]
    BY <1>4, <1>5, <1>6, <2>1, <2>2
  <2>8. QED
    BY <1>1, <1>16, <2>1, <2>4, <2>5, <2>6, <2>7 DEF Relies, Inserts, Booted, Never
<1>19. CallsInv' /\ call' \in [Callers -> AccCalls]
  BY <1>1, <1>3, <1>17, <1>18, TableStep
<1>20. orgTenant' \in [Orgs -> TenantIDs \cup {NoOne}]
       /\ tenants' \in [TenantIDs -> {"none", "live", "deleted"}]
  BY <1>1, <1>2 DEF AccountsInv, AccTypes
<1>21. AccTypes'  BY <1>1, <1>10, <1>17, <1>19, <1>20 DEF AccountsInv, AccTypes, Never
<1>22. QED  BY <1>11, <1>12, <1>14, <1>15, <1>19, <1>21 DEF AccountsInv

\* What every caller relies on, kept by a step in which no caller moves.
LEMMA NoCallMoves ==
  ASSUME AccountsInv, UNCHANGED <<call, bootLock, claimed>>, clock' \in Nat, clock <= clock',
         \A k \in KeyIDs : \/ endOfKey'[k] = endOfKey[k]
                           \/ endOfKey'[k] = clock /\ apiKeys[k] # NoKey,
         \A d \in Callers : Relies(call[d])'
  PROVE  CallsInv'
<1>1. ASSUME NEW d \in Callers
      PROVE  /\ HandlerOK(call[d])' /\ ReadBeforeEnd(call[d])' /\ CandidateOK(d, call[d])'
             /\ HoldsLock(d, call[d])' /\ BootedOK(d, call[d])'
  <2>1. HandlerOK(call[d]) /\ ReadBeforeEnd(call[d]) /\ CandidateOK(d, call[d])
        /\ HoldsLock(d, call[d]) /\ BootedOK(d, call[d]) /\ Relies(call[d])'
        /\ clock \in Nat /\ call[d].start \in Nat
        /\ (Inserts(call[d]) => call[d].key \in KeyIDs)
    BY AccountsAssumption, AllRely DEF AccountsInv, AccTypes, AccCalls, CallsInv
  <2>2. HandlerOK(call[d])'  BY <2>1 DEF HandlerOK
  <2>3. ReadBeforeEnd(call[d])'  BY <2>1, AccountsAssumption DEF ReadBeforeEnd, HandlerOK
  <2>4. CandidateOK(d, call[d])'
    <3> SUFFICES ASSUME Inserts(call[d])' PROVE CandidateOK(d, call[d])'  BY DEF CandidateOK
    <3>1. endOfKey'[call[d].key] = Never  BY <2>1 DEF CandidateOK, Inserts
    <3>2. apiKeys'[call[d].key] = NoKey /\ \A k \in KeyIDs : ~IsDefault(k, call[d].tenant)'
      BY <2>1 DEF Relies
    <3>3. \A e \in Callers \ {d} : Inserts(call[e])' => call'[e].key # call'[d].key
      BY <2>1 DEF CandidateOK, Inserts
    <3>4. QED  BY <3>1, <3>2, <3>3 DEF CandidateOK, Never
  <2>5. HoldsLock(d, call[d])' /\ BootedOK(d, call[d])'
    BY <2>1 DEF HoldsLock, BootedOK, Booted, Relies
  <2>6. QED  BY <2>2, <2>3, <2>4, <2>5
<1>2. QED  BY <1>1 DEF CallsInv

\* Tenants, mapping and keys of a user are removed.
LEMMA HardDeleteUserKeeps ==
  ASSUME AccountsInv, NEW o \in Orgs, HardDeleteUser(o)
  PROVE  AccountsInv'
<1>1. PICK t : t = orgTenant[o]  OBVIOUS
<1>2. PICK ks : ks = {k \in KeyIDs : apiKeys[k].tenant = t}  OBVIOUS
<1>3. PICK es : es = {k \in ks : apiKeys[k].active}  OBVIOUS
<1>4. UNCHANGED <<clock, bootLock, call, claimed, handled, answered, keyCache, lastUse, lost>>
      /\ t # NoOne
      /\ tenants' = [tenants EXCEPT ![t] = "none"]
      /\ orgTenant' = [orgTenant EXCEPT ![o] = NoOne]
      /\ apiKeys' = [k \in KeyIDs |-> IF k \in ks THEN NoKey ELSE apiKeys[k]]
      /\ endOfTenant' = [endOfTenant EXCEPT ![t] = IF tenants[t] = "live" THEN clock ELSE @]
      /\ endOfKey' = [k \in KeyIDs |-> IF k \in ks /\ apiKeys[k].active THEN clock ELSE endOfKey[k]]
  BY <1>1, <1>2 DEF HardDeleteUser, accWebhook, accReading
<1>5. t \in TenantIDs /\ tenants[t] # "none" /\ clock \in Nat /\ clock \in 0 .. Never /\ clock # Never
  BY <1>1, <1>4, AccountsAssumption DEF AccountsInv, AccTypes, TenantsInv, Never
<1>6. es \in SUBSET KeyIDs
      /\ endOfKey' = [k \in KeyIDs |-> IF k \in es THEN clock ELSE endOfKey[k]]
  BY <1>2, <1>3, <1>4
<1>7. /\ endOfKey' \in [KeyIDs -> 0 .. Never] /\ CacheInv' /\ RevokedStops'
      /\ \A k \in KeyIDs : endOfKey'[k] = Never \/ endOfKey'[k] <= clock
  BY <1>4, <1>6, EndKeys
<1>8. NoKey \in KeyRows /\ NoKey.tenant = NoOne /\ ~NoKey.active  BY DEF NoKey, KeyRows
<1>9. /\ apiKeys' \in [KeyIDs -> KeyRows]
      /\ \A k \in KeyIDs : apiKeys'[k] = IF apiKeys[k].tenant = t THEN NoKey ELSE apiKeys[k]
  BY <1>2, <1>4, <1>8 DEF AccountsInv, AccTypes
<1>10. /\ \A u \in TenantIDs : tenants'[u] = IF u = t THEN "none" ELSE tenants[u]
       /\ \A u \in TenantIDs \ {t} : endOfTenant'[u] = endOfTenant[u]
       /\ \A p \in Orgs : orgTenant'[p] = IF p = o THEN NoOne ELSE orgTenant[p]
  BY <1>4, <1>5 DEF AccountsInv, AccTypes
<1>11. endOfTenant'[t] # Never /\ endOfTenant'[t] <= clock
       /\ endOfTenant' \in [TenantIDs -> 0 .. Never]
  <2>1. endOfTenant \in [TenantIDs -> 0 .. Never] /\ tenants[t] \in {"none", "live", "deleted"}
    BY <1>5 DEF AccountsInv, AccTypes
  <2>2. endOfTenant'[t] = IF tenants[t] = "live" THEN clock ELSE endOfTenant[t]
    BY <1>4, <1>5, <2>1
  <2>3. tenants[t] = "deleted" => endOfTenant[t] # Never /\ endOfTenant[t] <= clock
    BY <1>5 DEF AccountsInv, TenantsInv
  <2>4. endOfTenant' \in [TenantIDs -> 0 .. Never]  BY <1>4, <1>5, <2>1
  <2>5. QED  BY <1>5, <2>1, <2>2, <2>3, <2>4
<1>12. KeysInv'
  <2> SUFFICES ASSUME NEW k \in KeyIDs
               PROVE  /\ apiKeys'[k].active =>
                           endOfKey'[k] = Never /\ apiKeys'[k].tenant \in TenantIDs
                      /\ apiKeys'[k].tenant \in TenantIDs => tenants'[apiKeys'[k].tenant] # "none"
    BY <1>4, <1>7 DEF AccountsInv, KeysInv, Never
  <2>1. CASE apiKeys[k].tenant = t  BY <1>8, <1>9, <2>1, AccountsAssumption
  <2>2. CASE apiKeys[k].tenant # t
    BY <1>2, <1>4, <1>9, <1>10, <2>2 DEF AccountsInv, KeysInv
  <2>3. QED  BY <2>1, <2>2
<1>13. TenantsInv'
  <2>1. \A p \in Orgs : p # o /\ orgTenant[p] # NoOne =>
          orgTenant[p] # t /\ orgTenant[p] \in TenantIDs
    BY <1>1, <1>4 DEF AccountsInv, AccTypes, TenantsInv
  <2>2. \A p \in Orgs : orgTenant'[p] # NoOne => tenants'[orgTenant'[p]] # "none"
    BY <1>10, <2>1 DEF AccountsInv, TenantsInv
  <2>3. \A p, r \in Orgs : orgTenant'[p] = orgTenant'[r] /\ orgTenant'[p] # NoOne => p = r
    BY <1>10 DEF AccountsInv, TenantsInv
  <2>4. ASSUME NEW u \in TenantIDs \ {t}, tenants[u] = "live"
        PROVE  endOfTenant[u] = Never /\ \E p \in Orgs : orgTenant'[p] = u
    <3>1. PICK p \in Orgs : orgTenant[p] = u  BY <2>4 DEF AccountsInv, TenantsInv
    <3>2. p # o  BY <1>1, <2>4, <3>1
    <3>3. QED  BY <1>10, <2>4, <3>1, <3>2 DEF AccountsInv, TenantsInv
  <2>5. ASSUME NEW u \in TenantIDs
        PROVE  /\ tenants'[u] = "live" =>
                    endOfTenant'[u] = Never /\ \E p \in Orgs : orgTenant'[p] = u
               /\ tenants'[u] = "deleted" => endOfTenant'[u] # Never
               /\ endOfTenant'[u] = Never \/ endOfTenant'[u] <= clock
    <3>1. CASE u = t  BY <1>10, <1>11, <3>1
    <3>2. CASE u # t  BY <1>10, <2>4, <3>2 DEF AccountsInv, TenantsInv
    <3>3. QED  BY <3>1, <3>2
  <2>6. QED  BY <1>4, <2>2, <2>3, <2>5 DEF TenantsInv, Never
<1>14. \A k \in KeyIDs, u \in TenantIDs : IsDefault(k, u)' => IsDefault(k, u)
  BY <1>8, <1>9 DEF IsDefault
<1>15. DefaultInv' /\ WebhookInv'
  BY <1>4, <1>14 DEF AccountsInv, DefaultInv, WebhookInv
<1>16. ASSUME NEW d \in Callers PROVE Relies(call[d])'
  <2>1. Relies(call[d]) /\ (Inserts(call[d]) => call[d].key \in KeyIDs)
        /\ (Booted(call[d]) => call[d].tenant \in TenantIDs /\ call[d].org \in Orgs)
    BY AllRely
  <2>2. Inserts(call[d]) => Booted(call[d])  BY DEF Inserts, Booted
  <2>3. Inserts(call[d]) => apiKeys'[call[d].key] = NoKey
    BY <1>9, <2>1 DEF Relies
  <2>4. Booted(call[d]) /\ call[d].fresh =>
          tenants'[call[d].tenant] = "none" /\ endOfTenant'[call[d].tenant] = Never
          /\ orgTenant'[call[d].org] = NoOne
    BY <1>5, <1>10, <2>1 DEF Relies
  <2>5. Booted(call[d]) /\ ~call[d].fresh =>
          \/ orgTenant'[call[d].org] = call[d].tenant
          \/ tenants'[call[d].tenant] = "none" /\ endOfTenant'[call[d].tenant] # Never
    BY <1>1, <1>5, <1>10, <1>11, <2>1 DEF Relies
  <2>6. QED  BY <1>4, <1>14, <2>1, <2>2, <2>3, <2>4, <2>5 DEF Relies, Inserts, Booted, Never
<1>17. \A k \in KeyIDs : \/ endOfKey'[k] = endOfKey[k]
                         \/ endOfKey'[k] = clock /\ apiKeys[k] # NoKey
  <2>1. \A k \in es : apiKeys[k] # NoKey  BY <1>3, <1>8
  <2>2. QED  BY <1>6, <2>1
<1>18. CallsInv'  BY <1>4, <1>5, <1>16, <1>17, NoCallMoves
<1>19. orgTenant' \in [Orgs -> TenantIDs \cup {NoOne}]
       /\ tenants' \in [TenantIDs -> {"none", "live", "deleted"}]
  BY <1>4, <1>5 DEF AccountsInv, AccTypes
<1>20. AccTypes'  BY <1>4, <1>7, <1>9, <1>11, <1>19 DEF AccountsInv, AccTypes, Never
<1>21. QED  BY <1>7, <1>12, <1>13, <1>15, <1>18, <1>20 DEF AccountsInv

\* Time passes; cached keys age.
LEMMA AccTickKeeps ==
  ASSUME AccountsInv, AccTick
  PROVE  AccountsInv'
<1>1. UNCHANGED <<orgTenant, tenants, apiKeys, bootLock, endOfKey, endOfTenant, call, claimed,
                  handled, answered, keyCache, lastUse, lost>>
      /\ clock \in Nat /\ clock' = clock + 1 /\ clock' \in 0 .. MaxTime
  BY AccountsAssumption DEF AccTick, accTables, accWebhook, accReading, AccountsInv, AccTypes
<1>2. AccTypes'  BY <1>1 DEF AccountsInv, AccTypes, Never
<1>3. KeysInv'
  BY <1>1, <1>2, AccountsAssumption DEF AccountsInv, AccTypes, KeysInv, Never
<1>4. CacheInv'
  BY <1>1, AccountsAssumption DEF AccountsInv, AccTypes, CacheInv
<1>5. TenantsInv'
  BY <1>1, AccountsAssumption DEF AccountsInv, AccTypes, TenantsInv, Never
<1>6. DefaultInv' /\ WebhookInv' /\ RevokedStops'
  BY <1>1 DEF AccountsInv, DefaultInv, IsDefault, WebhookInv, RevokedStops
<1>7. CallsInv'
  <2>1. \A d \in Callers : Relies(call[d])'
    BY <1>1, AllRely DEF Relies, Inserts, Booted, IsDefault, Never
  <2>2. QED  BY <1>1, <2>1, NoCallMoves
<1>8. QED  BY <1>2, <1>3, <1>4, <1>5, <1>6, <1>7 DEF AccountsInv

\* Every step of Accounts preserves the invariant.
LEMMA AccountsNextKeeps == AccountsInv /\ [AccountsNext]_accVars => AccountsInv'
<1> SUFFICES ASSUME AccountsInv, [AccountsNext]_accVars PROVE AccountsInv'  OBVIOUS
<1>1. CASE UNCHANGED accVars
  <2>1. UNCHANGED <<clock, orgTenant, tenants, apiKeys, bootLock, endOfKey, endOfTenant, call,
                    claimed, handled, answered, keyCache, lastUse, lost>>
    BY <1>1 DEF accVars
  <2>2. AccTypes' /\ KeysInv' /\ CacheInv' /\ TenantsInv'
    BY <2>1 DEF AccountsInv, AccTypes, KeysInv, CacheInv, TenantsInv, Never
  <2>3. DefaultInv' /\ WebhookInv' /\ RevokedStops'
    BY <2>1 DEF AccountsInv, DefaultInv, IsDefault, WebhookInv, RevokedStops
  <2>4. CallsInv'
    <3>1. \A d \in Callers : Relies(call[d])'
      BY <2>1, AllRely DEF Relies, Inserts, Booted, IsDefault, Never
    <3>2. clock' \in Nat /\ clock <= clock'
      BY <2>1, AccountsAssumption DEF AccountsInv, AccTypes
    <3>3. QED  BY <2>1, <3>1, <3>2, NoCallMoves
  <2>5. QED  BY <2>2, <2>3, <2>4 DEF AccountsInv
<1>2. ASSUME NEW c \in Callers, NEW o \in Orgs, Bootstrap(c, o) PROVE AccountsInv'
  BY <1>2, BootstrapKeeps
<1>3. ASSUME NEW c \in Callers, NEW o \in Orgs, NEW then \in {"create", "revoke"},
             ResolveTenant(c, o, then)
      PROVE  AccountsInv'
  BY <1>3, ResolveTenantKeeps
<1>4. ASSUME NEW c \in Callers, LookupTenant(c) \/ FirstActiveKey(c) PROVE AccountsInv'
  BY <1>4, LookupTenantKeeps, FirstActiveKeyKeeps
<1>5. ASSUME NEW c \in Callers, CommitBootstrap(c) \/ RollbackBootstrap(c) \/ Dies(c)
      PROVE  AccountsInv'
  BY <1>5, CommitBootstrapKeeps, EndsKeeps
<1>6. ASSUME NEW c \in Callers, CreateKey(c) \/ RevokeKey(c) PROVE AccountsInv'
  BY <1>6, CreateKeyKeeps, RevokeKeyKeeps
<1>7. ASSUME NEW c \in Callers, NEW s \in Servers, NEW k \in KeyIDs, PresentKey(c, s, k)
      PROVE  AccountsInv'
  BY <1>7, PresentKeyKeeps
<1>8. ASSUME NEW c \in Callers, GetKeyByID(c) \/ CacheKey(c) PROVE AccountsInv'
  BY <1>8, GetKeyByIDKeeps, CacheKeyKeeps
<1>9. ASSUME NEW c \in Callers, NEW d \in Deliveries, NEW o \in Orgs, ReceiveDeletion(c, d, o)
      PROVE  AccountsInv'
  BY <1>9, ReceiveDeletionKeeps
<1>10. ASSUME NEW c \in Callers, OnOrgDeleted(c) \/ RevokeAllKeys(c) \/ SoftDeleteTenant(c)
       PROVE  AccountsInv'
  BY <1>10, OnOrgDeletedKeeps, RevokeAllKeysKeeps, SoftDeleteTenantKeeps
<1>11. ASSUME NEW o \in Orgs, HardDeleteUser(o) PROVE AccountsInv'
  BY <1>11, HardDeleteUserKeeps
<1>12. CASE AccTick  BY <1>12, AccTickKeeps
<1>13. QED
  BY <1>1, <1>2, <1>3, <1>4, <1>5, <1>6, <1>7, <1>8, <1>9, <1>10, <1>11, <1>12 DEF AccountsNext

\* The inductive invariant of the account tables, the key caches and the
\* handlers of all requests.
THEOREM AccountsInvariance == AccountsSpec => []AccountsInv
<1>1. AccountsInit => AccountsInv  BY AccountsInitInv
<1>2. AccountsInv /\ [AccountsNext]_accVars => AccountsInv'  BY AccountsNextKeeps
<1>3. QED  BY <1>1, <1>2, PTL DEF AccountsSpec

\* CachedKeyStore: a request that began one time to live after its key ended is
\* refused, on every instance and in every interleaving of lookups, cache writes
\* and revocations.
THEOREM RevocationTakesEffect == AccountsSpec => []RevokedStops
<1>1. AccountsInv => RevokedStops  BY DEF AccountsInv
<1>2. QED  BY <1>1, AccountsInvariance, PTL

\* bootstrap and the webhook: one default key per tenant, no live tenant without
\* its organization, and every delivery handled at most once.
THEOREM RacesHappenOnce == AccountsSpec => []OnceOnly
<1>1. AccountsInv => OnceOnly
  <2> SUFFICES ASSUME AccountsInv PROVE OnceOnly  OBVIOUS
  <2>1. AccountsTypeOK
    BY DEF AccountsInv, AccTypes, KeysInv, WebhookInv, AccountsTypeOK
  <2>2. DeliveryOnce  BY DEF AccountsInv, WebhookInv, DeliveryOnce
  <2>3. OneDefaultKey
    <3> SUFFICES ASSUME NEW t \in TenantIDs
                 PROVE  Cardinality({k \in ActiveKeys(t) : apiKeys[k].auto}) <= 1
      BY DEF AccountsInv, TenantsInv, OneDefaultKey
    <3>1. PICK D : D = {k \in ActiveKeys(t) : apiKeys[k].auto}  OBVIOUS
    <3>2. \A k, l \in D : k = l
      BY <3>1 DEF AccountsInv, DefaultInv, IsDefault, ActiveKeys
    <3>3. CASE D = {}  BY <3>1, <3>3, FS_EmptySet
    <3>4. CASE D # {}
      <4>1. PICK k : D = {k}  BY <3>2, <3>4
      <4>2. QED  BY <3>1, <4>1, FS_Singleton
    <3>5. QED  BY <3>3, <3>4
  <2>4. QED  BY <2>1, <2>2, <2>3 DEF OnceOnly
<1>2. QED  BY <1>1, AccountsInvariance, PTL

-----------------------------------------------------------------------------
(* Billing: the inductive invariant *)

Plans == {"free", "pro", "team"}
SubIDs == Objects \cup {Invoice(x) : x \in Objects} \cup {NoOne, Promo}
Subscriptions == [id : SubIDs, end : 0 .. (MaxMonth + 1) \cup {NoEnd}]

BillCalls ==
  [pc : {"idle", "save", "activate", "grant", "book", "downgrade", "downgradesync", "fetch",
         "compare", "sync", "cancel", "cancelplan"},
   id : SubIDs, plan : Plans, payment : Objects \cup {NoOne}]

Transactions == [payment : Objects \cup {NoOne}, status : {"succeeded", "failed"}]

ProviderObjects ==
  [kind : {"none", "sub", "order"}, plan : Plans,
   status : {"none", "created", "authenticated", "active", "paid", "cancelled"},
   charged : BOOLEAN]

BillTypes ==
  /\ month \in 0 .. MaxMonth /\ plan \in Plans
  /\ subscription \in Subscriptions
  /\ replica \in [plan : Plans, subscription : Subscriptions]
  /\ ledger \subseteq Transactions
  /\ provider \in [Objects -> ProviderObjects] /\ approved \subseteq Objects
  /\ billCall \in [Callers -> BillCalls]
  /\ granted \in [plans : SUBSET Plans, count : Nat]

\* What is authorised or paid at the provider was approved by the customer; what
\* was approved was created, with a plan that stays.
ProviderInv ==
  \A x \in Objects :
    /\ provider[x].status \in {"authenticated", "active", "paid"} => x \in approved
    /\ x \in approved => provider[x].kind # "none"
    /\ provider[x].kind = "none" => ~provider[x].charged

\* A plan that somebody has paid for or granted.
Justified(p) ==
  /\ p = "team" => "team" \in granted.plans \/ \E x \in approved : provider[x].plan = "team"
  /\ p = "pro" => approved # {} \/ "pro" \in granted.plans

Charged(p) == p # NoOne => provider[p].charged

\* A payment that was charged, or the row without one once something is approved.
Booked(p) == Charged(p) /\ (p = NoOne => approved # {})

\* A webhook's handler works for an approved object.
Paying == {"activate", "grant", "book"}
Paid(r) == Charged(r.payment) /\ (r.pc \in Paying => approved # {})

\* The plan in the table, and every plan a handler is about to write, is
\* justified; so is every payment that is booked or about to be.
PlansInv == Justified(plan) /\ \A c \in Callers : Justified(billCall[c].plan)

PaymentsInv ==
  /\ \A c \in Callers : Paid(billCall[c])
  /\ \A b \in ledger : b.status = "succeeded" => Booked(b.payment)

BillingInv == BillTypes /\ ProviderInv /\ PlansInv /\ PaymentsInv

-----------------------------------------------------------------------------
(* Billing: proofs *)

\* The fields of a billing request at rest.
LEMMA BillIdleIs ==
  /\ BillIdle \in BillCalls /\ BillIdle.plan = "free" /\ BillIdle.payment = NoOne
  /\ NoObject \in ProviderObjects /\ NoObject.kind = "none" /\ ~NoObject.charged
  /\ NoObject.status = "none"
  /\ NoSubscription \in Subscriptions /\ BillIdle.pc = "idle"
BY DEF BillIdle, BillCalls, Subscriptions, SubIDs, Plans, NoObject, ProviderObjects, NoSubscription

\* A tenant on the free plan satisfies the invariant.
LEMMA BillingInitInv == BillingInit => BillingInv
<1> SUFFICES ASSUME BillingInit PROVE BillingInv  OBVIOUS
<1>1. BillTypes
  BY BillIdleIs, BillingAssumption DEF BillingInit, BillTypes, Plans
<1>2. ProviderInv  BY BillIdleIs DEF BillingInit, ProviderInv
<1>3. PlansInv /\ PaymentsInv
  BY BillIdleIs DEF BillingInit, PlansInv, PaymentsInv, Justified, Charged, Paid, Paying
<1>4. QED  BY <1>1, <1>2, <1>3 DEF BillingInv

\* What is justified or charged stays so.
Stays ==
  /\ approved \subseteq approved' /\ granted.plans \subseteq granted'.plans
  /\ \A x \in Objects : /\ x \in approved => provider'[x].plan = provider[x].plan
                        /\ provider[x].charged => provider'[x].charged

\* What the provider has approved and charged stays so.
LEMMA StaysJustified ==
  ASSUME BillTypes, Stays
  PROVE  /\ \A p : Justified(p) => Justified(p)'
         /\ \A p \in Objects \cup {NoOne} : (Charged(p) => Charged(p)') /\ (Booked(p) => Booked(p)')
         /\ \A r \in BillCalls : Paid(r) => Paid(r)'
<1>1. \A p : Justified(p) => Justified(p)'  BY DEF BillTypes, Stays, Justified
<1>2. approved # {} => approved' # {}  BY DEF Stays
<1>3. \A p \in Objects \cup {NoOne} : Charged(p) => Charged(p)'  BY DEF Stays, Charged
<1>4. \A p \in Objects \cup {NoOne} : Booked(p) => Booked(p)'  BY <1>2, <1>3 DEF Booked
<1>5. ASSUME NEW r \in BillCalls, Paid(r) PROVE Paid(r)'
  <2>1. r.payment \in Objects \cup {NoOne}  BY DEF BillCalls
  <2>2. QED  BY <1>2, <1>3, <1>5, <2>1 DEF Paid
<1>6. QED  BY <1>1, <1>3, <1>4, <1>5

\* A step that moves one caller on to r with a justified plan and payment.
LEMMA BillingStep ==
  ASSUME BillingInv, BillTypes', ProviderInv', Stays, Justified(plan)',
         NEW c \in Callers, NEW r \in BillCalls, billCall' = [billCall EXCEPT ![c] = r],
         Justified(r.plan)', Paid(r)',
         \A b \in ledger' : b.status = "succeeded" => b \in ledger \/ Booked(b.payment)'
  PROVE  BillingInv'
<1>1. \A d \in Callers : billCall'[d] = IF d = c THEN r ELSE billCall[d]
  BY DEF BillingInv, BillTypes
<1>2. \A d \in Callers : billCall[d] \in BillCalls
  BY DEF BillingInv, BillTypes
<1>3. PlansInv'
  BY <1>1, StaysJustified DEF BillingInv, PlansInv
<1>4. \A d \in Callers : Paid(billCall[d])'
  <2> SUFFICES ASSUME NEW d \in Callers PROVE Paid(billCall[d])'  OBVIOUS
  <2>1. CASE d = c  BY <1>1, <2>1
  <2>2. CASE d # c  BY <1>1, <1>2, <2>2, StaysJustified DEF BillingInv, PaymentsInv
  <2>3. QED  BY <2>1, <2>2
<1>5. \A b \in ledger' : b.status = "succeeded" => Booked(b.payment)'
  <2> SUFFICES ASSUME NEW b \in ledger', b.status = "succeeded", b \in ledger
               PROVE  Booked(b.payment)'
    OBVIOUS
  <2>1. b.payment \in Objects \cup {NoOne} /\ Booked(b.payment)
    BY DEF BillingInv, BillTypes, PaymentsInv, Transactions
  <2>2. QED  BY <2>1, StaysJustified DEF BillingInv
<1>6. QED  BY <1>3, <1>4, <1>5 DEF BillingInv, PaymentsInv

\* A caller that goes on keeps its plan and payment, or gives them up.
CarriesOn(c) ==
  \E r \in BillCalls :
    /\ billCall' = [billCall EXCEPT ![c] = r]
    /\ Justified(r.plan) /\ Paid(r)

\* A request that ends or goes on carries no new plan or payment.
LEMMA GoesOn ==
  ASSUME BillingInv, NEW c \in Callers
  PROVE  /\ BillEnds(c) => CarriesOn(c)
         /\ \A pc \in {"downgrade", "downgradesync", "sync", "cancel", "cancelplan"} :
              BillGoes(c, pc) => CarriesOn(c)
<1> DEFINE q == billCall[c]
<1>1. q \in BillCalls /\ Justified(q.plan) /\ Paid(q)
  BY DEF BillingInv, BillTypes, PlansInv, PaymentsInv
<1>2. BillEnds(c) => CarriesOn(c)
  BY BillIdleIs DEF BillEnds, CarriesOn, Justified, Charged, Paid, Paying
<1>3. ASSUME NEW pc \in {"downgrade", "downgradesync", "sync", "cancel", "cancelplan"},
             BillGoes(c, pc)
      PROVE  CarriesOn(c)
  <2>1. billCall' = [billCall EXCEPT ![c] = [q EXCEPT !.pc = pc]]
    BY <1>3 DEF BillGoes, BillingInv, BillTypes
  <2> HIDE DEF q
  <2>2. PICK r : r = [q EXCEPT !.pc = pc]  OBVIOUS
  <2>3. r \in BillCalls /\ r.plan = q.plan /\ r.payment = q.payment /\ r.pc = pc
    BY <1>1, <2>2 DEF BillCalls
  <2>4. Paid(r)  BY <1>1, <2>3 DEF Paid, Paying
  <2>5. QED  BY <1>1, <2>1, <2>2, <2>3, <2>4 DEF CarriesOn
<1>4. QED  BY <1>2, <1>3

\* A statement of one handler: nothing changes at the provider.
LEMMA StatementKeeps ==
  ASSUME BillingInv, NEW c \in Callers, CarriesOn(c),
         UNCHANGED <<month, replica, billProvider, granted>>,
         subscription' \in Subscriptions,
         plan' \in Plans, Justified(plan'),
         ledger' \subseteq Transactions,
         \A b \in ledger' : b.status = "succeeded" => b \in ledger \/ Booked(b.payment)
  PROVE  BillingInv'
<1>1. PICK r \in BillCalls : /\ billCall' = [billCall EXCEPT ![c] = r]
                             /\ Justified(r.plan) /\ Paid(r)
  BY DEF CarriesOn
<1>2. UNCHANGED <<month, replica, provider, approved, granted>>  BY DEF billProvider
<1>3. billCall' \in [Callers -> BillCalls]  BY <1>1 DEF BillingInv, BillTypes
<1>4. BillTypes'  BY <1>2, <1>3 DEF BillingInv, BillTypes, NoEnd, Subscriptions
<1>5. ProviderInv' /\ Stays  BY <1>2 DEF BillingInv, ProviderInv, Stays
<1>6. Justified(plan)' /\ Justified(r.plan)' /\ Paid(r)'
  BY <1>1, <1>2 DEF Justified, Charged, Paid
<1>7. \A b \in ledger' : b.status = "succeeded" => b \in ledger \/ Booked(b.payment)'
  BY <1>2 DEF Booked, Charged
<1>8. QED  BY <1>1, <1>4, <1>5, <1>6, <1>7, BillingStep

\* What the invariant says of the tables and of every request.
LEMMA TablesNow ==
  ASSUME BillingInv
  PROVE  /\ subscription \in Subscriptions
         /\ replica \in [plan : Plans, subscription : Subscriptions]
         /\ plan \in Plans /\ Justified(plan) /\ Justified("free")
         /\ ledger \subseteq Transactions
         /\ month + 1 \in 0 .. (MaxMonth + 1) /\ month \in 0 .. (MaxMonth + 1)
         /\ \A c \in Callers : /\ billCall[c] \in BillCalls /\ Justified(billCall[c].plan)
                               /\ Paid(billCall[c])
BY BillingAssumption DEF BillingInv, BillTypes, PlansInv, PaymentsInv, Justified

\* The id of the checkout is saved.
LEMMA SaveCheckoutKeeps ==
  ASSUME BillingInv, NEW c \in Callers, SaveCheckout(c)
  PROVE  BillingInv'
<1>1. billCall[c].id \in SubIDs  BY TablesNow DEF BillCalls
<1>2. subscription' \in Subscriptions
  BY <1>1, TablesNow DEF SaveCheckout, SetTenantSubscription, Subscriptions
<1>3. QED  BY <1>2, TablesNow, GoesOn, StatementKeeps DEF SaveCheckout

\* A payment webhook of a charged payment.
LEMMA OnPaymentSuccessKeeps ==
  ASSUME BillingInv, NEW c \in Callers, NEW x \in Objects, NEW w \in Webhooks(x),
         OnPaymentSuccess(c, x, w)
  PROVE  BillingInv'
<1>1. PICK r : r = [pc |-> "activate", id |-> w.id, plan |-> WebhookPlan(w, x),
                    payment |-> w.payment]
  OBVIOUS
<1>2. w.id \in SubIDs /\ w.payment \in {x, NoOne} /\ (w.payment = x => provider[x].charged \/ x = NoOne)
  BY BillingAssumption DEF Webhooks, SubIDs
<1>3. x \in approved /\ provider[x].plan \in Plans
  BY DEF OnPaymentSuccess, BillingInv, BillTypes, ProviderObjects
<1>4. WebhookPlan(w, x) \in Plans /\ Justified(WebhookPlan(w, x))
  BY <1>3 DEF WebhookPlan, Plans, Justified
<1>5. r \in BillCalls /\ r.plan = WebhookPlan(w, x) /\ r.payment = w.payment
  BY <1>1, <1>2, <1>4 DEF BillCalls
<1>6. Paid(r)  BY <1>2, <1>3, <1>5, BillingAssumption DEF Charged, Paid
<1>7. CarriesOn(c)  BY <1>1, <1>4, <1>5, <1>6 DEF OnPaymentSuccess, CarriesOn
<1>8. QED  BY <1>7, TablesNow, StatementKeeps DEF OnPaymentSuccess

\* The subscription that was paid for becomes the tenant's.
LEMMA ActivateSubscriptionKeeps ==
  ASSUME BillingInv, NEW c \in Callers, ActivateSubscription(c)
  PROVE  BillingInv'
<1> DEFINE q == billCall[c]
<1>1. q \in BillCalls /\ Justified(q.plan) /\ Charged(q.payment) /\ q.id \in SubIDs
      /\ approved # {}
  BY TablesNow DEF BillCalls, ActivateSubscription, Paid, Paying
<1>2. billCall' = [billCall EXCEPT ![c] = [q EXCEPT !.pc = "grant", !.id = NoOne]]
  BY DEF ActivateSubscription, BillingInv, BillTypes
<1>3. subscription' = [id |-> q.id, end |-> month + 1]
  BY DEF ActivateSubscription, SetTenantSubscription
<1> HIDE DEF q
<1>4. subscription' \in Subscriptions
  BY <1>1, <1>3, TablesNow DEF Subscriptions
<1>5. PICK r : r = [q EXCEPT !.pc = "grant", !.id = NoOne]  OBVIOUS
<1>6. r \in BillCalls /\ r.plan = q.plan /\ r.payment = q.payment
  BY <1>1, <1>5 DEF BillCalls, SubIDs
<1>7. CarriesOn(c)  BY <1>1, <1>2, <1>5, <1>6 DEF CarriesOn, Paid
<1>8. QED  BY <1>4, <1>7, TablesNow, StatementKeeps DEF ActivateSubscription

\* The plan that was paid for becomes the tenant's.
LEMMA GrantPlanKeeps ==
  ASSUME BillingInv, NEW c \in Callers, GrantPlan(c)
  PROVE  BillingInv'
<1> DEFINE q == billCall[c]
<1>1. q \in BillCalls /\ Justified(q.plan) /\ Charged(q.payment) /\ q.plan \in Plans
      /\ approved # {}
  BY TablesNow DEF BillCalls, GrantPlan, Paid, Paying
<1>2. billCall' = [billCall EXCEPT ![c] = [q EXCEPT !.pc = "book", !.plan = "free"]]
      /\ plan' = q.plan
  BY DEF GrantPlan, BillingInv, BillTypes
<1> HIDE DEF q
<1>3. PICK r : r = [q EXCEPT !.pc = "book", !.plan = "free"]  OBVIOUS
<1>4. r \in BillCalls /\ r.plan = "free" /\ r.payment = q.payment
  BY <1>1, <1>3 DEF BillCalls, Plans
<1>5. CarriesOn(c)  BY <1>1, <1>2, <1>3, <1>4, TablesNow DEF CarriesOn, Paid
<1>6. plan' \in Plans /\ Justified(plan')  BY <1>1, <1>2
<1>7. QED  BY <1>5, <1>6, TablesNow, StatementKeeps DEF GrantPlan

\* The payment, or the row without one, is booked as succeeded.
LEMMA BookKeeps ==
  ASSUME BillingInv, NEW c \in Callers, Book(c)
  PROVE  BillingInv'
<1> DEFINE p == billCall[c].payment
<1>1. p \in Objects \cup {NoOne} /\ Booked(p)
  BY TablesNow DEF BillCalls, Book, Paid, Paying, Booked
<1>2. ledger' = ledger \cup {[payment |-> p, status |-> "succeeded"]}  BY DEF Book
<1>3. ledger' \subseteq Transactions
  BY <1>1, <1>2, TablesNow DEF Transactions
<1>4. \A b \in ledger' : b.status = "succeeded" => b \in ledger \/ Booked(b.payment)
  BY <1>1, <1>2
<1>5. QED  BY <1>3, <1>4, TablesNow, GoesOn, StatementKeeps DEF Book

\* A failed payment changes no plan.
LEMMA OnPaymentFailedKeeps ==
  ASSUME BillingInv, NEW c \in Callers, NEW x \in Objects, OnPaymentFailed(c, x)
  PROVE  BillingInv'
<1>1. ledger' = ledger \cup {[payment |-> x, status |-> "failed"]}  BY DEF OnPaymentFailed
<1>2. ledger' \subseteq Transactions
  BY <1>1, TablesNow DEF Transactions
<1>3. \A b \in ledger' : b.status = "succeeded" => b \in ledger \/ Booked(b.payment)
  BY <1>1
<1>4. CarriesOn(c)
  <2>1. billCall' = [billCall EXCEPT ![c] = billCall[c]]
    BY DEF OnPaymentFailed, BillingInv, BillTypes
  <2>2. QED  BY <2>1, TablesNow DEF CarriesOn
<1>5. QED  BY <1>2, <1>3, <1>4, TablesNow, StatementKeeps DEF OnPaymentFailed

\* Handlers that only read, and those that write the free plan.
LEMMA DowngradesKeep ==
  ASSUME BillingInv, NEW c \in Callers,
         \/ ReadPlan(c) \/ DowngradeExpired(c) \/ ClearSubscription(c) \/ DowngradeCancelled(c)
         \/ BillDies(c)
  PROVE  BillingInv'
<1>1. CarriesOn(c)
  BY GoesOn DEF ReadPlan, DowngradeExpired, ClearSubscription, DowngradeCancelled, BillDies
<1>2. subscription' \in Subscriptions
  BY TablesNow DEF ReadPlan, DowngradeExpired, ClearSubscription, DowngradeCancelled, BillDies,
     SetTenantSubscription, Subscriptions, SubIDs
<1>3. plan' \in {plan, "free"} /\ ledger' = ledger /\ UNCHANGED <<month, replica, billProvider, granted>>
  BY DEF ReadPlan, DowngradeExpired, ClearSubscription, DowngradeCancelled, BillDies
<1>4. plan' \in Plans /\ Justified(plan')  BY <1>3, TablesNow DEF Plans
<1>5. QED  BY <1>1, <1>2, <1>3, <1>4, TablesNow, StatementKeeps

\* A synchronisation starts in the background.
LEMMA StartSyncKeeps ==
  ASSUME BillingInv, NEW c \in Callers, StartSync(c)
  PROVE  BillingInv'
<1>1. PICK r : r = [BillIdle EXCEPT !.pc = "fetch", !.id = replica.subscription.id]  OBVIOUS
<1>2. r \in BillCalls /\ r.plan = "free" /\ r.payment = NoOne /\ r.pc = "fetch"
  BY <1>1, BillIdleIs, TablesNow DEF BillCalls, Subscriptions
<1>3. CarriesOn(c)
  BY <1>1, <1>2, TablesNow DEF StartSync, CarriesOn, Charged, Paid, Paying
<1>4. QED  BY <1>3, TablesNow, StatementKeeps DEF StartSync

\* It reads the subscription at the provider.
LEMMA SyncKeeps ==
  ASSUME BillingInv, NEW c \in Callers, SyncRazorpayTenantSubscription(c)
  PROVE  BillingInv'
<1>1. PICK p : p = ProviderPlan(billCall[c].id)  OBVIOUS
<1>2. p = NoOne \/ (p \in Plans /\ Justified(p))
  BY <1>1, TablesNow DEF ProviderPlan, BillingInv, BillTypes, ProviderObjects, ProviderInv,
     Justified, Plans
<1>3. CarriesOn(c)
  <2>1. CASE p = NoOne
    BY <1>1, <2>1, GoesOn DEF SyncRazorpayTenantSubscription
  <2>2. CASE p # NoOne
    <3>1. PICK r : r = [BillIdle EXCEPT !.pc = "compare", !.plan = p]  OBVIOUS
    <3>2. r \in BillCalls /\ r.plan = p /\ r.payment = NoOne /\ r.pc = "compare"
      BY <1>2, <2>2, <3>1, BillIdleIs DEF BillCalls
    <3>3. billCall' = [billCall EXCEPT ![c] = r]
      BY <1>1, <2>2, <3>1 DEF SyncRazorpayTenantSubscription
    <3>4. QED  BY <1>2, <2>2, <3>2, <3>3 DEF CarriesOn, Charged, Paid, Paying
  <2>3. QED  BY <2>1, <2>2
<1>4. QED  BY <1>3, TablesNow, StatementKeeps DEF SyncRazorpayTenantSubscription

\* It writes back what it has read, possibly late.
LEMMA ApplySyncKeeps ==
  ASSUME BillingInv, NEW c \in Callers, ApplySync(c)
  PROVE  BillingInv'
<1>1. plan' \in Plans /\ Justified(plan')
  BY TablesNow DEF ApplySync, BillCalls
<1>2. QED  BY <1>1, TablesNow, GoesOn, StatementKeeps DEF ApplySync

\* All handlers carry justified plans and payments into the next state.
AllCarryOn ==
  /\ billCall' \in [Callers -> BillCalls]
  /\ \A d \in Callers : Justified(billCall'[d].plan) /\ Paid(billCall'[d])

\* If one request, or none, moves without a new plan, all requests do.
LEMMA CarryingOn ==
  ASSUME BillingInv
  PROVE  /\ \A c \in Callers : CarriesOn(c) => AllCarryOn
         /\ billCall' = billCall => AllCarryOn
<1>1. billCall \in [Callers -> BillCalls]
      /\ \A d \in Callers : Justified(billCall[d].plan) /\ Paid(billCall[d])
  BY DEF BillingInv, BillTypes, PlansInv, PaymentsInv
<1>2. QED  BY <1>1 DEF AllCarryOn, CarriesOn

\* A step at the provider: what was approved keeps its plan, what was charged
\* stays charged.
LEMMA ProviderStep ==
  ASSUME BillingInv, AllCarryOn,
         UNCHANGED <<month, plan, subscription, replica, ledger, granted>>,
         NEW x \in Objects, NEW v \in ProviderObjects, provider' = [provider EXCEPT ![x] = v],
         approved' \in {approved, approved \cup {x}},
         v.status \in {"authenticated", "active", "paid"} => x \in approved',
         v.kind # "none", provider[x].charged => v.charged,
         x \in approved => v.plan = provider[x].plan
  PROVE  BillingInv'
<1>1. provider' \in [Objects -> ProviderObjects]
      /\ \A y \in Objects : provider'[y] = IF y = x THEN v ELSE provider[y]
  BY DEF BillingInv, BillTypes
<1>2. BillTypes'  BY <1>1 DEF AllCarryOn, BillingInv, BillTypes, NoEnd, Subscriptions
<1>3. ProviderInv' /\ Stays  BY <1>1 DEF BillingInv, BillTypes, ProviderInv, Stays
<1>4. PlansInv'
  BY <1>3, StaysJustified DEF AllCarryOn, BillingInv, PlansInv
<1>5. \A d \in Callers : billCall'[d] \in BillCalls
  BY DEF AllCarryOn
<1>6. PaymentsInv'
  <2>1. \A d \in Callers : Paid(billCall[d])'
    BY <1>3, <1>5, StaysJustified DEF AllCarryOn, BillingInv
  <2>2. \A b \in ledger : b.payment \in Objects \cup {NoOne}
    BY DEF BillingInv, BillTypes, Transactions
  <2>3. QED  BY <1>3, <2>1, <2>2, StaysJustified DEF BillingInv, PaymentsInv
<1>7. QED  BY <1>2, <1>3, <1>4, <1>6 DEF BillingInv

\* A checkout is opened at the provider.
LEMMA CheckoutKeeps ==
  ASSUME BillingInv, NEW c \in Callers, NEW x \in Objects, NEW p \in {"pro", "team"},
         Checkout(c, x, p)
  PROVE  BillingInv'
<1>1. PICK r : r = [BillIdle EXCEPT !.pc = "save", !.id = x]  OBVIOUS
<1>2. r \in BillCalls /\ r.plan = "free" /\ r.payment = NoOne /\ r.pc = "save"
  BY <1>1, BillIdleIs DEF BillCalls, SubIDs
<1>3. AllCarryOn
  <2>1. CarriesOn(c)  BY <1>1, <1>2, TablesNow DEF Checkout, CarriesOn, Charged, Paid, Paying
  <2>2. QED  BY <2>1, CarryingOn
<1>4. PICK kind \in {"sub", "order"} :
        provider' = [provider EXCEPT ![x] = [kind |-> kind, plan |-> p, status |-> "created",
                                             charged |-> FALSE]]
  BY DEF Checkout
<1>5. PICK v : v = [kind |-> kind, plan |-> p, status |-> "created", charged |-> FALSE]  OBVIOUS
<1>6. v \in ProviderObjects /\ v.status = "created" /\ v.kind # "none"
  BY <1>5 DEF ProviderObjects, Plans
<1>7. provider[x].kind = "none" /\ ~provider[x].charged /\ x \notin approved
  BY BillIdleIs DEF Checkout, BillingInv, ProviderInv
<1>8. UNCHANGED <<month, plan, subscription, replica, ledger, granted, approved>>  BY DEF Checkout
<1>9. QED  BY <1>3, <1>4, <1>5, <1>6, <1>7, <1>8, ProviderStep

\* An object moves on at the provider and keeps its kind and plan.
LEMMA MovesOn ==
  ASSUME BillingInv, AllCarryOn,
         UNCHANGED <<month, plan, subscription, replica, ledger, granted>>,
         NEW x \in Objects, provider[x].kind # "none",
         NEW s \in {"authenticated", "active", "paid", "cancelled"}, NEW charged \in BOOLEAN,
         provider' = [provider EXCEPT ![x] = [provider[x] EXCEPT !.status = s, !.charged = charged]],
         provider[x].charged => charged,
         \/ s = "cancelled" /\ approved' = approved
         \/ approved' = approved \cup {x}
  PROVE  BillingInv'
<1> DEFINE o == provider[x]
<1>1. o \in ProviderObjects  BY DEF BillingInv, BillTypes
<1>2. provider' = [provider EXCEPT ![x] = [o EXCEPT !.status = s, !.charged = charged]]
      /\ o.kind # "none" /\ (o.charged => charged) /\ o = provider[x]
  OBVIOUS
<1> HIDE DEF o
<1>3. PICK v : v = [o EXCEPT !.status = s, !.charged = charged]  OBVIOUS
<1>4. v \in ProviderObjects /\ v.status = s /\ v.charged = charged /\ v.kind = o.kind
      /\ v.plan = o.plan
  BY <1>1, <1>3 DEF ProviderObjects
<1>5. QED  BY <1>2, <1>3, <1>4, ProviderStep

\* The customer approves at the provider, or the subscription ends there.
LEMMA ApproveKeeps ==
  ASSUME BillingInv, NEW x \in Objects, Approve(x) \/ EndAtProvider(x)
  PROVE  BillingInv'
<1> DEFINE o == provider[x]
           Moved(s, p) == provider' = [provider EXCEPT ![x] = [o EXCEPT !.status = s, !.charged = p]]
<1>1. UNCHANGED <<month, plan, subscription, replica, ledger, granted, billCall>> /\ o.kind # "none"
  BY DEF Approve, EndAtProvider
<1>2. o \in ProviderObjects /\ o.charged \in BOOLEAN /\ o = provider[x]
      /\ provider \in [Objects -> ProviderObjects]
  BY DEF BillingInv, BillTypes, ProviderObjects
<1>3. AllCarryOn  BY <1>1, CarryingOn
<1> HIDE DEF o
<1>4. ASSUME NEW s, provider' = [provider EXCEPT ![x].status = s] PROVE Moved(s, o.charged)
  <2>1. [o EXCEPT !.status = s] = [o EXCEPT !.status = s, !.charged = o.charged]
    BY <1>2 DEF ProviderObjects
  <2>2. provider' = [provider EXCEPT ![x] = [o EXCEPT !.status = s]]  BY <1>2, <1>4
  <2>3. QED  BY <2>1, <2>2
<1>5. ASSUME NEW s, provider' = [provider EXCEPT ![x].status = s, ![x].charged = TRUE]
      PROVE  Moved(s, TRUE)
  BY <1>2, <1>5
<1>6. \E s \in {"authenticated", "active", "paid", "cancelled"}, p \in {o.charged, TRUE} :
        /\ Moved(s, p)
        /\ \/ s = "cancelled" /\ approved' = approved
           \/ approved' = approved \cup {x}
  BY <1>4, <1>5 DEF Approve, EndAtProvider
<1>7. QED  BY <1>1, <1>2, <1>3, <1>6, MovesOn

\* The customer cancels; the plan stays until the paid period ends.
LEMMA CancelSubscriptionKeeps ==
  ASSUME BillingInv, NEW c \in Callers, CancelSubscription(c)
  PROVE  BillingInv'
<1>1. CarriesOn(c)  BY GoesOn DEF CancelSubscription
<1>2. UNCHANGED <<month, plan, subscription, replica, ledger, approved, granted>>
  BY DEF CancelSubscription
<1>3. CASE provider' = provider
  BY <1>1, <1>2, <1>3, TablesNow, StatementKeeps DEF billProvider
<1>4. CASE /\ IsLive(replica.subscription.id)
           /\ CancelRazorpaySubscription(replica.subscription.id)
  <2>1. PICK x \in Objects : x = replica.subscription.id /\ provider[x].kind = "sub"
    BY <1>4 DEF IsLive
  <2>2. provider' = [provider EXCEPT ![x].status = "cancelled"]
    BY <1>4, <2>1 DEF CancelRazorpaySubscription
  <2>3. provider[x] \in ProviderObjects /\ provider[x].charged \in BOOLEAN
        /\ provider \in [Objects -> ProviderObjects]
    BY DEF BillingInv, BillTypes, ProviderObjects
  <2>4. PICK v : v = [provider[x] EXCEPT !.status = "cancelled"]  OBVIOUS
  <2>5. v \in ProviderObjects /\ v.status = "cancelled" /\ v.kind = "sub"
        /\ v.charged = provider[x].charged /\ v.plan = provider[x].plan
    BY <2>1, <2>3, <2>4 DEF ProviderObjects
  <2>6. provider' = [provider EXCEPT ![x] = v]  BY <2>2, <2>3, <2>4
  <2>7. QED  BY <1>1, <1>2, <2>5, <2>6, CarryingOn, ProviderStep
<1>5. QED  BY <1>3, <1>4 DEF CancelSubscription

\* The administrator, the replication and the calendar.
LEMMA OutsideKeeps ==
  ASSUME BillingInv,
         \/ \E p \in {"free", "team"} : SetTenantPlan(p)
         \/ SetTenantPlanPromo \/ Replicate \/ BillTick \/ UNCHANGED billVars
  PROVE  BillingInv'
<1>1. UNCHANGED <<provider, approved, ledger, billCall>> /\ granted \in [plans : SUBSET Plans, count : Nat]
  BY DEF SetTenantPlan, SetTenantPlanPromo, Replicate, BillTick, billVars, billProvider, BillingInv, BillTypes
<1>2. \/ plan' = plan /\ granted' = granted
      \/ \E p \in Plans : plan' = p
           /\ granted' = [plans |-> granted.plans \cup {p}, count |-> granted.count + 1]
  BY DEF SetTenantPlan, SetTenantPlanPromo, Replicate, BillTick, billVars, Plans
<1>3. granted' \in [plans : SUBSET Plans, count : Nat] /\ granted.plans \subseteq granted'.plans
      /\ plan' \in Plans /\ (plan' = plan \/ plan' \in granted'.plans)
  BY <1>1, <1>2, TablesNow
<1>4. subscription' \in Subscriptions
  BY TablesNow, BillIdleIs DEF SetTenantPlan, SetTenantPlanPromo, Replicate, BillTick, billVars, SubIDs,
     Subscriptions
<1>r. replica' \in [plan : Plans, subscription : Subscriptions]
  BY TablesNow DEF SetTenantPlan, SetTenantPlanPromo, Replicate, BillTick, billVars
<1>5. month' \in 0 .. MaxMonth
  BY BillingAssumption
     DEF SetTenantPlan, SetTenantPlanPromo, Replicate, BillTick, billVars, BillingInv, BillTypes
<1>6. BillTypes'
  BY <1>1, <1>3, <1>4, <1>5, <1>r DEF BillingInv, BillTypes, NoEnd, Subscriptions
<1>7. ProviderInv' /\ Stays  BY <1>1, <1>3 DEF BillingInv, ProviderInv, Stays
<1>8. Justified(plan)'
  <2>1. CASE plan' = plan  BY <1>7, <2>1, TablesNow, StaysJustified DEF BillingInv, Justified, Stays
  <2>2. CASE plan' \in granted'.plans  BY <2>2 DEF Justified
  <2>3. QED  BY <1>3, <2>1, <2>2
<1>9. PlansInv'
  BY <1>1, <1>7, <1>8, StaysJustified DEF BillingInv, PlansInv
<1>10. PaymentsInv'  BY <1>1 DEF BillingInv, PaymentsInv, Charged, Paid, Booked
<1>11. QED  BY <1>6, <1>7, <1>9, <1>10 DEF BillingInv

\* Every step of Billing preserves the invariant.
LEMMA BillingNextKeeps == BillingInv /\ [BillingNext]_billVars => BillingInv'
<1> SUFFICES ASSUME BillingInv, [BillingNext]_billVars PROVE BillingInv'  OBVIOUS
<1>1. ASSUME NEW c \in Callers, NEW x \in Objects, NEW p \in {"pro", "team"}, Checkout(c, x, p)
      PROVE  BillingInv'
  BY <1>1, CheckoutKeeps
<1>2. ASSUME NEW c \in Callers, NEW x \in Objects, NEW w \in Webhooks(x), OnPaymentSuccess(c, x, w)
      PROVE  BillingInv'
  BY <1>2, OnPaymentSuccessKeeps
<1>3. ASSUME NEW c \in Callers, NEW x \in Objects, OnPaymentFailed(c, x) PROVE BillingInv'
  BY <1>3, OnPaymentFailedKeeps
<1>4. ASSUME NEW c \in Callers,
             SaveCheckout(c) \/ ActivateSubscription(c) \/ GrantPlan(c) \/ Book(c)
      PROVE  BillingInv'
  BY <1>4, SaveCheckoutKeeps, ActivateSubscriptionKeeps, GrantPlanKeeps, BookKeeps
<1>5. ASSUME NEW c \in Callers,
             \/ ReadPlan(c) \/ DowngradeExpired(c) \/ ClearSubscription(c)
             \/ DowngradeCancelled(c) \/ BillDies(c)
      PROVE  BillingInv'
  BY <1>5, DowngradesKeep
<1>6. ASSUME NEW c \in Callers,
             StartSync(c) \/ SyncRazorpayTenantSubscription(c) \/ ApplySync(c)
      PROVE  BillingInv'
  BY <1>6, StartSyncKeeps, SyncKeeps, ApplySyncKeeps
<1>7. ASSUME NEW c \in Callers, CancelSubscription(c) PROVE BillingInv'
  BY <1>7, CancelSubscriptionKeeps
<1>8. ASSUME NEW x \in Objects, Approve(x) \/ EndAtProvider(x) PROVE BillingInv'
  BY <1>8, ApproveKeeps
<1>9. CASE \/ \E p \in {"free", "team"} : SetTenantPlan(p)
           \/ SetTenantPlanPromo \/ Replicate \/ BillTick \/ UNCHANGED billVars
  BY <1>9, OutsideKeeps
<1>10. QED
  BY <1>1, <1>2, <1>3, <1>4, <1>5, <1>6, <1>7, <1>8, <1>9 DEF BillingNext

\* Whatever the order of checkouts, webhooks, background synchronisations,
\* cancellations and expiries, and however far the read pool lags, a tenant is on
\* a paid plan only if the customer has approved one at the provider or an
\* administrator granted it; a payment is booked as succeeded only if it was
\* charged, and the row without a payment only after an approval.
THEOREM PlansArePaidFor == BillingSpec => []NoFreeUpgrade
<1>1. BillingInit => BillingInv  BY BillingInitInv
<1>2. BillingInv /\ [BillingNext]_billVars => BillingInv'  BY BillingNextKeeps
<1>3. BillingInv => NoFreeUpgrade
  <2> SUFFICES ASSUME BillingInv PROVE NoFreeUpgrade  OBVIOUS
  <2>1. BillingTypeOK
    BY BillingAssumption DEF BillingInv, BillTypes, BillCalls, Plans, SubIDs, Subscriptions,
       Transactions, BillingTypeOK
  <2>2. QED
    BY <2>1 DEF BillingInv, PlansInv, PaymentsInv, Justified, Booked, Charged, NoFreeUpgrade
<1>4. QED  BY <1>1, <1>2, <1>3, PTL DEF BillingSpec

-----------------------------------------------------------------------------
(* Quota: the inductive invariant *)

AlertSettings == [email : BOOLEAN, month : 0 .. NoMonth, level : {0, 66, 83, 100}]

\* The sizes a check admits, and none.
QuotaSizes == {s \in 0 .. MaxBatch : s <= MonthlyLimit}

QuotaCalls ==
  [pc : {"idle", "notify", "exceeded", "alert", "alertexceeded", "merge", "mergeexceeded",
         "refuse", "admit", "put"},
   size : QuotaSizes, level : {0, 66, 83, 100},
   seen : AlertSettings \cup {[email |-> FALSE]}, label : 0 .. NoMonth]

QuotaTypes ==
  /\ calendar \in 0 .. LastMonth
  /\ stored \in Nat /\ waiting \in Nat /\ uncounted \in Nat
  /\ settings \in AlertSettings
  /\ quotaCall \in [Callers -> QuotaCalls]
  /\ announced \subseteq 0 .. LastMonth /\ emailOff \in BOOLEAN

\* Only a request that fits carries a size; only one that does not is refused.
RequestOK(r) ==
  /\ r.pc \notin {"notify", "alert", "merge", "admit"} => r.size = 0
  /\ r.pc = "admit" => r.size > 0
  /\ r.pc \in {"exceeded", "alertexceeded", "mergeexceeded", "refuse"} => r.level = 100
  /\ r.pc \in {"alert", "alertexceeded", "merge", "mergeexceeded"} => r.label \in 0 .. LastMonth
  /\ r.pc = "put" => r.seen \in AlertSettings

\* As long as the alert email is on, a 100% level in the settings, or about to be
\* written there, stands for an alert that was sent, and so does a refusal.
Told(r) ==
  ~emailOff =>
    /\ r.pc \in {"merge", "mergeexceeded", "refuse"} /\ r.level = 100 => r.label \in announced
    /\ r.pc = "put" /\ r.seen.level = 100 => r.seen.month \in announced

ToldInv ==
  /\ ~emailOff => settings.email /\ (settings.level = 100 => settings.month \in announced)
  /\ \A c \in Callers : RequestOK(quotaCall[c]) /\ Told(quotaCall[c])

\* The batches that requests q have been admitted with and have not written yet.
InFlight(q) == {c \in Callers : q[c].size > 0}
Load(q) == Cardinality(InFlight(q))
PendingSizes(q) == {q[c].size : c \in InFlight(q)}

Cap == MonthlyLimit + (Cardinality(Callers) - 1) * MaxBatch

\* n is what the checks account for.  The batch that was admitted last fitted what
\* its check counted; the others are of any size.
Overshoot(n, q) ==
  /\ n <= Cap
  /\ Load(q) > 0 => \E s \in PendingSizes(q) : n + s + MaxBatch * (Load(q) - 1) <= Cap

\* The events that are stored or wait, without the ones no check counted.
Accounted == (stored + waiting) - uncounted

OvershootInv == Overshoot(Accounted, quotaCall)

QuotaInv == QuotaTypes /\ ToldInv /\ OvershootInv

-----------------------------------------------------------------------------
(* Quota: proofs *)

\* Arithmetic the provers are not to look for again.
LEMMA Times ==
  ASSUME NEW m \in Nat, NEW j \in Int, NEW k \in Int, j <= k
  PROVE  m * j \in Int /\ m * j <= m * k /\ m * (k - 1) = m * k - m /\ k * m = m * k
<1>1. k - j \in Nat  OBVIOUS
<1>2. m * (k - j) >= 0  BY <1>1
<1>3. m * (k - j) = m * k - m * j  OBVIOUS
<1>4. m * j \in Int /\ m * k \in Int  OBVIOUS
<1>5. QED  BY <1>2, <1>3, <1>4

\* The numbers of Overshoot, and the sizes it speaks of.
LEMMA LoadIs ==
  ASSUME NEW q \in [Callers -> QuotaCalls]
  PROVE  /\ IsFiniteSet(InFlight(q)) /\ Load(q) \in Nat
         /\ Cardinality(Callers) \in Nat /\ Load(q) <= Cardinality(Callers)
         /\ PendingSizes(q) \subseteq 1 .. MaxBatch
         /\ \A s \in PendingSizes(q) : s <= MonthlyLimit
         /\ Load(q) > 0 => PendingSizes(q) # {}
         /\ Load(q) = 0 => PendingSizes(q) = {}
<1>1. InFlight(q) \in SUBSET Callers  BY DEF InFlight
<1>2. IsFiniteSet(InFlight(q)) /\ Load(q) <= Cardinality(Callers)
  BY <1>1, FS_Subset, QuotaAssumption DEF Load
<1>3. Load(q) \in Nat /\ Cardinality(Callers) \in Nat
  BY <1>2, FS_CardinalityType, QuotaAssumption DEF Load
<1>4. ASSUME NEW c \in InFlight(q) PROVE q[c].size \in 1 .. MaxBatch /\ q[c].size <= MonthlyLimit
  <2>1. c \in Callers /\ q[c].size > 0  BY DEF InFlight
  <2>2. q[c].size \in QuotaSizes  BY <2>1 DEF QuotaCalls
  <2>3. QED  BY <2>1, <2>2, QuotaAssumption DEF QuotaSizes
<1>5. /\ PendingSizes(q) \subseteq 1 .. MaxBatch
      /\ \A s \in PendingSizes(q) : s <= MonthlyLimit
  BY <1>4 DEF PendingSizes
<1>6. Load(q) = 0 <=> InFlight(q) = {}  BY <1>2, FS_EmptySet DEF Load
<1>7. InFlight(q) = {} <=> PendingSizes(q) = {}  BY DEF PendingSizes
<1>8. QED  BY <1>2, <1>3, <1>5, <1>6, <1>7

\* The cap is a number of events, and not less than the limit.
LEMMA CapIs == MonthlyLimit <= Cap /\ Cap \in Nat
<1>1. Cardinality(Callers) \in Nat /\ Cardinality(Callers) # 0
  BY FS_CardinalityType, FS_EmptySet, QuotaAssumption
<1>2. PICK k \in Nat : k = Cardinality(Callers) - 1  BY <1>1
<1>3. MaxBatch \in Nat /\ MonthlyLimit \in Nat  BY QuotaAssumption
<1>4. MaxBatch * 0 <= MaxBatch * k /\ k * MaxBatch = MaxBatch * k /\ MaxBatch * k \in Int
  BY <1>3, Times
<1>5. Cap = MonthlyLimit + k * MaxBatch  BY <1>2 DEF Cap
<1>6. QED  BY <1>3, <1>4, <1>5

\* A month whose count and one batch fit has room for the rest at full size.
LEMMA RoomEnough ==
  ASSUME NEW q \in [Callers -> QuotaCalls], NEW n \in Nat, NEW s \in Nat, n + s <= MonthlyLimit
  PROVE  Load(q) > 0 => n + s + MaxBatch * (Load(q) - 1) <= Cap
<1>1. PICK k \in Int : k = Cardinality(Callers) - 1  BY LoadIs
<1>2. MaxBatch \in Nat /\ MonthlyLimit \in Nat /\ Load(q) - 1 \in Int /\ Load(q) - 1 <= k
  BY <1>1, LoadIs, QuotaAssumption
<1>3. /\ MaxBatch * (Load(q) - 1) <= MaxBatch * k /\ MaxBatch * (Load(q) - 1) \in Int
      /\ k * MaxBatch = MaxBatch * k /\ MaxBatch * k \in Int
  BY <1>2, Times
<1>4. Cap = MonthlyLimit + MaxBatch * k  BY <1>1, <1>3 DEF Cap
<1>5. QED  BY <1>2, <1>3, <1>4

\* Every way to change what is pending: nothing does, one batch is admitted, or one
\* is written.  No request changes the size it carries.
LEMMA SameSizes ==
  ASSUME NEW n, NEW q, NEW p, Overshoot(n, q), \A c \in Callers : p[c].size = q[c].size
  PROVE  Overshoot(n, p)
<1>1. InFlight(p) = InFlight(q)  BY DEF InFlight
<1>2. PendingSizes(p) = PendingSizes(q)  BY <1>1 DEF PendingSizes, InFlight
<1>3. Load(p) = Load(q)  BY <1>1 DEF Load
<1>4. QED  BY <1>2, <1>3 DEF Overshoot

\* Fewer events leave more room.
LEMMA FewerEvents ==
  ASSUME NEW q \in [Callers -> QuotaCalls], NEW n \in Int, NEW k \in Int, k <= n, Overshoot(n, q)
  PROVE  Overshoot(k, q)
<1>1. Cap \in Int /\ MaxBatch \in Nat /\ Load(q) \in Nat  BY CapIs, LoadIs, QuotaAssumption
<1>2. n <= Cap /\ k <= Cap  BY <1>1 DEF Overshoot
<1>3. ASSUME Load(q) > 0
      PROVE  \E s \in PendingSizes(q) : k + s + MaxBatch * (Load(q) - 1) <= Cap
  <2>1. PICK s \in PendingSizes(q) : n + s + MaxBatch * (Load(q) - 1) <= Cap
    BY <1>3 DEF Overshoot
  <2>2. s \in 1 .. MaxBatch  BY LoadIs
  <2>3. MaxBatch * (Load(q) - 1) \in Int  BY <1>1, Times
  <2>4. k + s + MaxBatch * (Load(q) - 1) <= Cap  BY <1>1, <2>1, <2>2, <2>3
  <2>5. QED  BY <2>4
<1>4. QED  BY <1>2, <1>3 DEF Overshoot

\* A request is admitted when its batch fits the count it has read.
LEMMA OneAdmitted ==
  ASSUME NEW p \in [Callers -> QuotaCalls], NEW n \in Nat,
         NEW c \in Callers, NEW s \in 1 .. MaxBatch, n + s <= MonthlyLimit, p[c].size = s
  PROVE  Overshoot(n, p)
<1>1. c \in InFlight(p) /\ s \in PendingSizes(p)
  <2>1. c \in InFlight(p)  BY DEF InFlight
  <2>2. QED  BY <2>1 DEF PendingSizes
<1>2. s \in Nat /\ n <= Cap  BY CapIs, QuotaAssumption
<1>3. Load(p) > 0 => n + s + MaxBatch * (Load(p) - 1) <= Cap  BY <1>2, RoomEnough
<1>4. QED  BY <1>1, <1>2, <1>3 DEF Overshoot

\* A further batch of size u in a month that has room for one of size m.
LEMMA AddUp ==
  ASSUME NEW n \in Int, NEW z \in Nat, NEW m \in Nat, NEW u \in 1 .. m, NEW j \in Int,
         NEW cap \in Int, n + z + m * j <= cap
  PROVE  n + z + u + m * (j - 1) <= cap
<1>1. PICK x : x = m * j  OBVIOUS
<1>2. x \in Int /\ n + z + x <= cap  BY <1>1, Times
<1>3. m * (j - 1) = x - m  BY <1>1, Times
<1>4. n + z + u + (x - m) <= cap  BY <1>2
<1>5. QED  BY <1>3, <1>4

\* A pending batch of size z is written.
LEMMA OneWritten ==
  ASSUME NEW q \in [Callers -> QuotaCalls], NEW p \in [Callers -> QuotaCalls],
         NEW n \in Int, Overshoot(n, q), NEW z \in PendingSizes(q),
         Load(p) = Load(q) - 1, PendingSizes(q) \subseteq PendingSizes(p) \cup {z}
  PROVE  Overshoot(n + z, p)
<1>1. z \in 1 .. MaxBatch /\ Load(q) \in Nat /\ Load(p) \in Nat /\ Load(q) > 0
      /\ Cap \in Int /\ MaxBatch \in Nat
      /\ PendingSizes(p) \subseteq 1 .. MaxBatch
      /\ (Load(p) > 0 => PendingSizes(p) # {}) /\ (Load(p) = 0 => PendingSizes(p) = {})
  BY LoadIs, CapIs, QuotaAssumption
<1>2. PICK s \in PendingSizes(q) : n + s + MaxBatch * (Load(q) - 1) <= Cap
  BY <1>1 DEF Overshoot
<1>3. s \in 1 .. MaxBatch  BY LoadIs
<1>4. MaxBatch * Load(p) \in Int /\ MaxBatch * Load(p) >= 0
      /\ MaxBatch * (Load(p) - 1) = MaxBatch * Load(p) - MaxBatch
      /\ n + s + MaxBatch * Load(p) <= Cap
  BY <1>1, <1>2, Times
<1>5. CASE s = z
  <2>1. n + z <= Cap  BY <1>1, <1>4, <1>5
  <2>2. ASSUME NEW u \in PendingSizes(p)
        PROVE  n + z + u + MaxBatch * (Load(p) - 1) <= Cap
    <3>1. u \in 1 .. MaxBatch  BY <1>1
    <3>2. Load(p) \in Int /\ z \in Nat /\ n + z + MaxBatch * Load(p) <= Cap
      BY <1>1, <1>4, <1>5
    <3>3. QED  BY <1>1, <3>1, <3>2, AddUp
  <2>3. QED  BY <1>1, <2>1, <2>2 DEF Overshoot
<1>6. CASE s # z
  <2>1. s \in PendingSizes(p)  BY <1>6
  <2>2. Load(p) > 0  BY <1>1, <2>1
  <2>3. MaxBatch * Load(p) >= MaxBatch
    <3>1. MaxBatch * 1 <= MaxBatch * Load(p)  BY <1>1, <2>2, Times
    <3>2. QED  BY <1>1, <3>1
  <2>4. n + z <= Cap  BY <1>1, <1>3, <1>4, <2>3
  <2>5. n + s + z + MaxBatch * (Load(p) - 1) <= Cap
    <3>1. Load(p) \in Int /\ s \in Nat /\ n + s + MaxBatch * Load(p) <= Cap
      BY <1>1, <1>3, <1>4
    <3>2. QED  BY <1>1, <3>1, AddUp
  <2>6. n + z + s + MaxBatch * (Load(p) - 1) = n + s + z + MaxBatch * (Load(p) - 1)
    BY <1>1, <1>3, <1>4
  <2>7. QED  BY <2>1, <2>4, <2>5, <2>6 DEF Overshoot
<1>7. QED  BY <1>5, <1>6

\* What a request carries when it rests, and what follows a threshold check.
LEMMA QuotaIdleIs ==
  /\ QuotaIdle \in QuotaCalls /\ QuotaIdle.pc = "idle" /\ QuotaIdle.size = 0
  /\ QuotaIdle.level = 0 /\ QuotaIdle.label = NoMonth
BY QuotaAssumption DEF QuotaIdle, QuotaCalls, QuotaSizes, NoMonth

\* The threshold that usage has reached is one of the four.
LEMMA AlertLevelIs ==
  ASSUME NEW used PROVE AlertLevel(used) \in {0, 66, 83, 100}
<1> DEFINE levels == {0} \cup {p \in {66, 83, 100} : Reached(used, p)}
<1>1. 0 \in levels /\ levels \subseteq {0, 66, 83, 100}  OBVIOUS
<1> HIDE DEF levels
<1>2. \E p \in levels : \A q \in levels : q <= p
  <2>1. CASE 100 \in levels  BY <1>1, <2>1
  <2>2. CASE 100 \notin levels /\ 83 \in levels  BY <1>1, <2>2
  <2>3. CASE 100 \notin levels /\ 83 \notin levels /\ 66 \in levels  BY <1>1, <2>3
  <2>4. CASE 100 \notin levels /\ 83 \notin levels /\ 66 \notin levels  BY <1>1, <2>4
  <2>5. QED  BY <2>1, <2>2, <2>3, <2>4
<1>3. (CHOOSE p \in levels : \A q \in levels : q <= p) \in levels  BY <1>2
<1>4. QED  BY <1>1, <1>3 DEF AlertLevel, levels

\* Where a check goes when it has no more to announce.
LEMMA CheckedIs ==
  ASSUME NEW r \in QuotaCalls, r.pc \in {"notify", "exceeded"},
         r.pc = "exceeded" => /\ r.size = 0 /\ r.level = 100
                              /\ (~emailOff => r.label \in announced)
  PROVE  /\ Checked(r) \in QuotaCalls /\ Checked(r).size = r.size
         /\ RequestOK(Checked(r)) /\ Told(Checked(r))
<1>1. r.size \in QuotaSizes /\ r.size \in 0 .. MaxBatch /\ MaxBatch \in Nat
  BY QuotaAssumption DEF QuotaCalls, QuotaSizes
<1>2. CASE r.size > 0
  <2>1. Checked(r) = [QuotaIdle EXCEPT !.pc = "admit", !.size = r.size]  BY <1>2 DEF Checked
  <2>2. /\ Checked(r) \in QuotaCalls /\ Checked(r).size = r.size /\ Checked(r).pc = "admit"
    BY <1>1, <2>1, QuotaIdleIs DEF QuotaCalls
  <2>3. QED  BY <1>2, <2>2 DEF RequestOK, Told
<1>3. CASE ~(r.size > 0) /\ r.pc # "exceeded"
  <2>1. Checked(r) = [QuotaIdle EXCEPT !.pc = "exceeded", !.level = 100]  BY <1>3 DEF Checked
  <2>2. /\ Checked(r) \in QuotaCalls /\ Checked(r).size = 0 /\ Checked(r).pc = "exceeded"
        /\ Checked(r).level = 100
    BY <2>1, QuotaIdleIs DEF QuotaCalls
  <2>3. QED  BY <1>1, <1>3, <2>2 DEF RequestOK, Told
<1>4. CASE ~(r.size > 0) /\ r.pc = "exceeded"
  <2>1. Checked(r) = [r EXCEPT !.pc = "refuse"]  BY <1>4 DEF Checked
  <2>2. /\ Checked(r) \in QuotaCalls /\ Checked(r).size = r.size /\ Checked(r).pc = "refuse"
        /\ Checked(r).level = 100 /\ Checked(r).label = r.label
    BY <1>4, <2>1 DEF QuotaCalls
  <2>3. QED  BY <1>4, <2>2 DEF RequestOK, Told
<1>5. QED  BY <1>2, <1>3, <1>4

\* A step of one request, given what it does to the tables.
LEMMA QuotaStep ==
  ASSUME QuotaInv, NEW c \in Callers, NEW r \in QuotaCalls, QuotaBecomes(c, r),
         RequestOK(r), Told(r)', calendar' = calendar,
         stored' \in Nat, waiting' \in Nat, uncounted' \in Nat,
         settings' \in AlertSettings,
         ~emailOff' => settings'.email /\ (settings'.level = 100 => settings'.month \in announced'),
         announced \subseteq announced', announced' \subseteq 0 .. LastMonth,
         emailOff' \in BOOLEAN, emailOff => emailOff',
         Overshoot(Accounted', quotaCall')
  PROVE  QuotaInv'
<1>1. quotaCall' = [quotaCall EXCEPT ![c] = r] /\ quotaCall \in [Callers -> QuotaCalls]
  BY DEF QuotaBecomes, QuotaInv, QuotaTypes
<1>2. QuotaTypes'  BY <1>1 DEF QuotaInv, QuotaTypes
<1>3. ASSUME NEW d \in Callers PROVE RequestOK(quotaCall[d])' /\ Told(quotaCall[d])'
  <2>1. CASE d = c  BY <1>1, <2>1 DEF RequestOK, Told
  <2>2. CASE d # c
    <3>1. quotaCall'[d] = quotaCall[d]  BY <1>1, <2>2
    <3>2. RequestOK(quotaCall[d]) /\ Told(quotaCall[d])  BY DEF QuotaInv, ToldInv
    <3>3. QED  BY <3>1, <3>2 DEF RequestOK, Told
  <2>3. QED  BY <2>1, <2>2
<1>4. ToldInv'  BY <1>3 DEF ToldInv
<1>5. QED  BY <1>2, <1>4 DEF QuotaInv, OvershootInv

\* A step that only moves a request, its batch included.
LEMMA QuotaMoves ==
  ASSUME QuotaInv, NEW c \in Callers, NEW r \in QuotaCalls, QuotaBecomes(c, r),
         RequestOK(r), Told(r), r.size = quotaCall[c].size,
         UNCHANGED <<calendar, quotaEvents, settings, quotaHistory>>
  PROVE  QuotaInv'
<1>1. quotaCall' = [quotaCall EXCEPT ![c] = r] /\ quotaCall \in [Callers -> QuotaCalls]
  BY DEF QuotaBecomes, QuotaInv, QuotaTypes
<1>2. \A d \in Callers : quotaCall'[d].size = quotaCall[d].size  BY <1>1
<1>3. Accounted' = Accounted  BY DEF Accounted, quotaEvents
<1>4. Overshoot(Accounted', quotaCall')
  BY <1>2, <1>3, SameSizes DEF QuotaInv, OvershootInv
<1>5. Told(r)'  BY DEF Told, quotaHistory
<1>6. QED
  BY <1>4, <1>5, QuotaStep DEF QuotaInv, QuotaTypes, ToldInv, quotaHistory, quotaEvents

\* What the invariant says of one request.
LEMMA QuotaRequest ==
  ASSUME QuotaInv, NEW c \in Callers
  PROVE  /\ quotaCall[c] \in QuotaCalls /\ RequestOK(quotaCall[c]) /\ Told(quotaCall[c])
         /\ stored \in Nat /\ waiting \in Nat /\ uncounted \in Nat /\ Accounted \in Int
         /\ calendar \in 0 .. LastMonth /\ quotaCall \in [Callers -> QuotaCalls]
BY DEF QuotaInv, QuotaTypes, ToldInv, Accounted

\* A request that goes on, or reads the month.
LEMMA QuotaGoesOn ==
  ASSUME NEW x \in QuotaCalls,
         NEW pc \in {"notify", "exceeded", "alert", "alertexceeded", "merge", "mergeexceeded"},
         NEW r, r = [x EXCEPT !.pc = pc]
  PROVE  /\ r \in QuotaCalls /\ r.pc = pc /\ r.size = x.size /\ r.level = x.level
         /\ r.label = x.label /\ r.seen = x.seen
BY DEF QuotaCalls

\* A request that labels its alert with the month.
LEMMA QuotaReadsMonth ==
  ASSUME NEW x \in QuotaCalls, NEW m \in 0 .. NoMonth, NEW r, r = [x EXCEPT !.label = m]
  PROVE  /\ r \in QuotaCalls /\ r.pc = x.pc /\ r.size = x.size /\ r.level = x.level
         /\ r.label = m /\ r.seen = x.seen
BY DEF QuotaCalls

\* The check reads a count; an admitted batch is pending from here on.
LEMMA CheckKeeps ==
  ASSUME QuotaInv, NEW c \in Callers, NEW size \in 1 .. MaxBatch, NEW counted \in 0 .. stored,
         Check(c, size, counted)
  PROVE  QuotaInv'
<1>1. PICK r : r = [QuotaIdle EXCEPT !.pc = "notify", !.level = AlertLevel(counted),
                                     !.size = IF Fits(counted, size) THEN size ELSE 0]
  OBVIOUS
<1>2. AlertLevel(counted) \in {0, 66, 83, 100}  BY AlertLevelIs
<1>3. /\ size \in 0 .. MaxBatch /\ size > 0 /\ MaxBatch \in Nat /\ MonthlyLimit \in Nat
      /\ counted \in Nat /\ counted <= stored /\ stored \in Nat /\ waiting \in Nat
  BY QuotaAssumption, QuotaRequest
<1>4. (IF Fits(counted, size) THEN size ELSE 0) \in QuotaSizes  BY <1>3 DEF QuotaSizes, Fits
<1>5. /\ r \in QuotaCalls /\ r.pc = "notify"
      /\ r.size = IF Fits(counted, size) THEN size ELSE 0
  BY <1>1, <1>2, <1>4, QuotaIdleIs DEF QuotaCalls
<1>6. PICK z : z = IF r.level = 0 THEN Checked(r) ELSE r  OBVIOUS
<1>7. z \in QuotaCalls /\ z.size = r.size /\ RequestOK(z) /\ Told(z)
  <2>1. CASE r.level = 0  BY <1>5, <1>6, <2>1, CheckedIs
  <2>2. CASE r.level # 0  BY <1>5, <1>6, <2>2 DEF RequestOK, Told
  <2>3. QED  BY <2>1, <2>2
<1>8. /\ QuotaBecomes(c, z) /\ UNCHANGED <<calendar, stored, waiting, settings, quotaHistory>>
      /\ uncounted' = IF Fits(counted, size) THEN stored + waiting - counted ELSE uncounted
  BY <1>1, <1>6 DEF Check
<1>9. quotaCall[c].size = 0 /\ quotaCall[c].pc = "idle"
  BY QuotaRequest DEF Check, QuotaFree, RequestOK
<1>10. CASE ~Fits(counted, size)
  BY <1>5, <1>7, <1>8, <1>9, <1>10, QuotaMoves DEF quotaEvents
<1>11. CASE Fits(counted, size)
  <2>1. quotaCall' = [quotaCall EXCEPT ![c] = z] /\ quotaCall' \in [Callers -> QuotaCalls]
    BY <1>7, <1>8, QuotaRequest DEF QuotaBecomes
  <2>2. quotaCall'[c].size = size /\ counted + size <= MonthlyLimit
    BY <1>5, <1>7, <1>11, <2>1, QuotaRequest DEF Fits
  <2>3. Overshoot(counted, quotaCall')  BY <1>3, <2>1, <2>2, OneAdmitted
  <2>4. uncounted' \in Nat /\ Accounted' = counted  BY <1>3, <1>8, <1>11 DEF Accounted
  <2>5. Told(z)'  BY <1>7, <1>8 DEF Told, quotaHistory
  <2>6. QED
    BY <1>7, <1>8, <2>3, <2>4, <2>5, QuotaStep DEF QuotaInv, QuotaTypes, ToldInv, quotaHistory
<1>12. QED  BY <1>10, <1>11

\* The settings are read: nothing to announce, or an alert follows.
LEMMA ReadAlertSettingsKeeps ==
  ASSUME QuotaInv, NEW c \in Callers, ReadAlertSettings(c)
  PROVE  QuotaInv'
<1>1. PICK r : r = [quotaCall[c] EXCEPT !.label = calendar]  OBVIOUS
<1>2. quotaCall[c].pc \in {"notify", "exceeded"}  BY DEF ReadAlertSettings
<1>3. calendar \in 0 .. NoMonth /\ calendar \in 0 .. LastMonth
  BY QuotaRequest, QuotaAssumption DEF NoMonth
<1>4. /\ r \in QuotaCalls /\ r.pc = quotaCall[c].pc /\ r.size = quotaCall[c].size
      /\ r.level = quotaCall[c].level /\ r.label = calendar /\ r.seen = quotaCall[c].seen
  BY <1>1, <1>3, QuotaRequest, QuotaReadsMonth
<1>5. r.pc = "exceeded" => r.size = 0 /\ r.level = 100
  BY <1>4, QuotaRequest DEF RequestOK
<1>6. PICK y : y = [r EXCEPT !.pc = IF r.pc = "notify" THEN "alert" ELSE "alertexceeded"]
  OBVIOUS
<1>7. /\ y \in QuotaCalls /\ y.size = r.size /\ y.level = r.level /\ y.label = calendar
      /\ y.pc = IF r.pc = "notify" THEN "alert" ELSE "alertexceeded"
  BY <1>4, <1>6, QuotaGoesOn
<1>8. RequestOK(y) /\ Told(y)
  BY <1>2, <1>3, <1>4, <1>5, <1>7 DEF RequestOK, Told
<1>9. CASE ~settings.email \/ AlreadyAnnounced(r.level)
  <2>1. QuotaBecomes(c, Checked(r)) /\ UNCHANGED <<calendar, quotaEvents, settings, quotaHistory>>
    BY <1>1, <1>9 DEF ReadAlertSettings, GetQuotaAlertSettings
  <2>2. r.pc = "exceeded" => (~emailOff => r.label \in announced)
    <3> SUFFICES ASSUME r.pc = "exceeded", ~emailOff PROVE r.label \in announced  OBVIOUS
    <3>1. settings.email /\ (settings.level = 100 => settings.month \in announced)
      BY DEF QuotaInv, ToldInv
    <3>2. settings.month = calendar /\ settings.level >= 100
      BY <1>5, <1>9, <3>1 DEF AlreadyAnnounced, GetQuotaAlertSettings
    <3>3. settings.level \in {0, 66, 83, 100}  BY DEF QuotaInv, QuotaTypes, AlertSettings
    <3>4. QED  BY <1>4, <3>1, <3>2, <3>3
  <2>3. QED  BY <1>2, <1>4, <1>5, <2>1, <2>2, CheckedIs, QuotaMoves
<1>10. CASE ~(~settings.email \/ AlreadyAnnounced(r.level))
  <2>1. QuotaBecomes(c, y) /\ UNCHANGED <<calendar, quotaEvents, settings, quotaHistory>>
    BY <1>1, <1>6, <1>10 DEF ReadAlertSettings, GetQuotaAlertSettings
  <2>2. QED  BY <1>4, <1>7, <1>8, <2>1, QuotaMoves
<1>11. QED  BY <1>9, <1>10

\* The alert is sent if there is an address.
LEMMA QuotaAlertKeeps ==
  ASSUME QuotaInv, NEW c \in Callers, QuotaAlert(c)
  PROVE  QuotaInv'
<1>1. PICK r : r = [quotaCall[c] EXCEPT !.pc =
                     IF quotaCall[c].pc = "alert" THEN "merge" ELSE "mergeexceeded"]
  OBVIOUS
<1>2. quotaCall[c].pc \in {"alert", "alertexceeded"}  BY DEF QuotaAlert
<1>3. /\ r \in QuotaCalls /\ r.size = quotaCall[c].size /\ r.level = quotaCall[c].level
      /\ r.label = quotaCall[c].label
      /\ r.pc = IF quotaCall[c].pc = "alert" THEN "merge" ELSE "mergeexceeded"
  BY <1>1, QuotaRequest, QuotaGoesOn
<1>4. r.label \in 0 .. LastMonth /\ RequestOK(r)
  BY <1>2, <1>3, QuotaRequest DEF RequestOK
<1>5. /\ QuotaBecomes(c, r)
      /\ announced' = IF settings.email /\ quotaCall[c].level = 100
                      THEN announced \cup {quotaCall[c].label} ELSE announced
      /\ UNCHANGED <<calendar, quotaEvents, settings, emailOff>>
  BY <1>1 DEF QuotaAlert
<1>6. /\ announced \subseteq announced' /\ announced' \subseteq 0 .. LastMonth
      /\ (settings.email /\ r.level = 100 => r.label \in announced')
  BY <1>3, <1>4, <1>5 DEF QuotaInv, QuotaTypes
<1>7. ~emailOff => settings.email  BY DEF QuotaInv, ToldInv
<1>8. Told(r)'  BY <1>3, <1>5, <1>6, <1>7 DEF Told
<1>9. \A d \in Callers : quotaCall'[d].size = quotaCall[d].size
  BY <1>3, <1>5, QuotaRequest DEF QuotaBecomes
<1>10. Overshoot(Accounted', quotaCall')
  <2>1. Accounted' = Accounted  BY <1>5 DEF Accounted, quotaEvents
  <2>2. QED  BY <1>9, <2>1, SameSizes DEF QuotaInv, OvershootInv
<1>11. ~emailOff => settings.email /\ (settings.level = 100 => settings.month \in announced')
  BY <1>6 DEF QuotaInv, ToldInv
<1>12. QED
  BY <1>3, <1>4, <1>5, <1>6, <1>8, <1>10, <1>11, QuotaStep DEF QuotaInv, QuotaTypes, quotaEvents

\* The alert is remembered in the settings.
LEMMA UpdateQuotaAlertSettingsKeeps ==
  ASSUME QuotaInv, NEW c \in Callers, UpdateQuotaAlertSettings(c)
  PROVE  QuotaInv'
<1>1. PICK r : r = [quotaCall[c] EXCEPT !.pc =
                     IF quotaCall[c].pc = "merge" THEN "notify" ELSE "exceeded"]
  OBVIOUS
<1>2. quotaCall[c].pc \in {"merge", "mergeexceeded"}  BY DEF UpdateQuotaAlertSettings
<1>3. /\ r \in QuotaCalls /\ r.size = quotaCall[c].size /\ r.level = quotaCall[c].level
      /\ r.label = quotaCall[c].label
      /\ r.pc = IF quotaCall[c].pc = "merge" THEN "notify" ELSE "exceeded"
  BY <1>1, QuotaRequest, QuotaGoesOn
<1>4. ~emailOff /\ quotaCall[c].level = 100 => quotaCall[c].label \in announced
  BY <1>2, QuotaRequest DEF Told
<1>5. r.pc = "exceeded" => /\ r.size = 0 /\ r.level = 100
                           /\ (~emailOff => r.label \in announced)
  BY <1>2, <1>3, <1>4, QuotaRequest DEF RequestOK
<1>6. PICK z : z = Checked(r)  OBVIOUS
<1>7. z \in QuotaCalls /\ z.size = r.size /\ RequestOK(z) /\ Told(z)
  BY <1>2, <1>3, <1>5, <1>6, CheckedIs
<1>8. /\ QuotaBecomes(c, z)
      /\ settings' = [email |-> TRUE, month |-> quotaCall[c].label, level |-> quotaCall[c].level]
      /\ UNCHANGED <<calendar, quotaEvents, quotaHistory>>
  BY <1>1, <1>6 DEF UpdateQuotaAlertSettings
<1>9. quotaCall[c].label \in 0 .. NoMonth /\ quotaCall[c].level \in {0, 66, 83, 100}
  BY QuotaRequest DEF QuotaCalls
<1>10. /\ settings' \in AlertSettings /\ settings'.email
       /\ settings'.month = quotaCall[c].label /\ settings'.level = quotaCall[c].level
  BY <1>8, <1>9 DEF AlertSettings
<1>11. \A d \in Callers : quotaCall'[d].size = quotaCall[d].size
  BY <1>3, <1>7, <1>8, QuotaRequest DEF QuotaBecomes
<1>12. Overshoot(Accounted', quotaCall')
  <2>1. Accounted' = Accounted  BY <1>8 DEF Accounted, quotaEvents
  <2>2. QED  BY <1>11, <2>1, SameSizes DEF QuotaInv, OvershootInv
<1>13. Told(z)'  BY <1>7, <1>8 DEF Told, quotaHistory
<1>14. QED
  BY <1>4, <1>7, <1>8, <1>10, <1>12, <1>13, QuotaStep
     DEF QuotaInv, QuotaTypes, quotaHistory, quotaEvents

\* A request at rest owes nothing.
LEMMA QuotaRest == RequestOK(QuotaIdle) /\ Told(QuotaIdle)
BY QuotaIdleIs DEF RequestOK, Told

\* A request that ends has no batch any more.
LEMMA QuotaFinished ==
  ASSUME QuotaInv, NEW c \in Callers, QuotaFinish(c)
  PROVE  /\ quotaCall' \in [Callers -> QuotaCalls]
         /\ quotaCall' = [quotaCall EXCEPT ![c] = QuotaIdle]
         /\ InFlight(quotaCall') = InFlight(quotaCall) \ {c}
         /\ quotaCall[c].size > 0 => Load(quotaCall') = Load(quotaCall) - 1
<1>1. /\ quotaCall' \in [Callers -> QuotaCalls]
      /\ quotaCall' = [quotaCall EXCEPT ![c] = QuotaIdle]
  BY QuotaRequest, QuotaIdleIs DEF QuotaFinish, QuotaBecomes
<1>2. /\ quotaCall'[c].size = 0
      /\ \A d \in Callers : d # c => quotaCall'[d].size = quotaCall[d].size
  BY <1>1, QuotaRequest, QuotaIdleIs
<1>3. InFlight(quotaCall') = InFlight(quotaCall) \ {c}  BY <1>2 DEF InFlight
<1>4. IsFiniteSet(InFlight(quotaCall))  BY QuotaRequest, LoadIs
<1>5. quotaCall[c].size > 0 => c \in InFlight(quotaCall)  BY DEF InFlight
<1>6. QED  BY <1>1, <1>3, <1>4, <1>5, FS_RemoveElement DEF Load

\* A refusal stores nothing.
LEMMA RefuseKeeps ==
  ASSUME QuotaInv, NEW c \in Callers, Refuse(c)
  PROVE  QuotaInv'
<1>1. quotaCall[c].size = 0  BY QuotaRequest DEF Refuse, RequestOK
<1>2. QED  BY <1>1, QuotaIdleIs, QuotaRest, QuotaMoves DEF Refuse, QuotaFinish

\* A request that writes its batch leaves room for the others.
LEMMA QuotaWritten ==
  ASSUME QuotaInv, NEW c \in Callers, quotaCall[c].pc = "admit", QuotaFinish(c)
  PROVE  /\ quotaCall[c].size \in Nat
         /\ Overshoot(Accounted + quotaCall[c].size, quotaCall')
<1>1. PICK z : z = quotaCall[c].size  OBVIOUS
<1>2. z > 0 /\ z \in QuotaSizes  BY <1>1, QuotaRequest DEF RequestOK, QuotaCalls
<1>3. z \in Nat  BY <1>2, QuotaAssumption DEF QuotaSizes
<1>4. z \in PendingSizes(quotaCall)
  <2>1. c \in InFlight(quotaCall)  BY <1>1, <1>2 DEF InFlight
  <2>2. QED  BY <1>1, <2>1 DEF PendingSizes
<1>5. Load(quotaCall') = Load(quotaCall) - 1  BY <1>1, <1>2, QuotaFinished
<1>6. PendingSizes(quotaCall) \subseteq PendingSizes(quotaCall') \cup {z}
  <2>1. ASSUME NEW d \in InFlight(quotaCall)
        PROVE  quotaCall[d].size \in PendingSizes(quotaCall') \cup {z}
    <3>1. CASE d = c  BY <1>1, <3>1
    <3>2. CASE d # c
      <4>1. d \in InFlight(quotaCall') /\ quotaCall'[d] = quotaCall[d]
        BY <3>2, QuotaFinished, QuotaRequest DEF InFlight
      <4>2. QED  BY <4>1 DEF PendingSizes
    <3>3. QED  BY <3>1, <3>2
  <2>2. QED  BY <2>1 DEF PendingSizes
<1>7. Overshoot(Accounted + z, quotaCall')
  BY <1>4, <1>5, <1>6, QuotaRequest, QuotaFinished, OneWritten DEF QuotaInv, OvershootInv
<1>8. QED  BY <1>1, <1>3, <1>7

\* The synchronous append stores what it can of the batch.
LEMMA LogBatchKeeps ==
  ASSUME QuotaInv, NEW c \in Callers, LogBatch(c)
  PROVE  QuotaInv'
<1>1. PICK z : z = quotaCall[c].size  OBVIOUS
<1>2. QuotaFinish(c) /\ UNCHANGED <<calendar, waiting, settings, uncounted, quotaHistory>>
  BY DEF LogBatch
<1>3. PICK n \in 0 .. z : stored' = stored + n  BY <1>1 DEF LogBatch
<1>4. z \in Nat /\ Overshoot(Accounted + z, quotaCall')
  BY <1>1, <1>2, QuotaWritten DEF LogBatch
<1>5. /\ n \in Nat /\ n <= z /\ stored' \in Nat /\ Accounted \in Int
      /\ Accounted' = Accounted + n
  BY <1>2, <1>3, <1>4, QuotaRequest DEF Accounted
<1>6. Accounted + n \in Int /\ Accounted + z \in Int /\ Accounted + n <= Accounted + z
  BY <1>4, <1>5
<1>7. Overshoot(Accounted', quotaCall')
  BY <1>2, <1>4, <1>5, <1>6, QuotaFinished, FewerEvents
<1>8. Told(QuotaIdle)'  BY QuotaIdleIs DEF Told, QuotaIdle
<1>9. QED
  BY <1>2, <1>5, <1>7, <1>8, QuotaIdleIs, QuotaRest, QuotaStep
     DEF QuotaInv, QuotaTypes, ToldInv, quotaHistory, QuotaFinish

\* The batch moves to the outbox.
LEMMA EnqueueKeeps ==
  ASSUME QuotaInv, NEW c \in Callers, Enqueue(c)
  PROVE  QuotaInv'
<1>1. PICK z : z = quotaCall[c].size  OBVIOUS
<1>2. /\ QuotaFinish(c) /\ waiting' = waiting + z
      /\ UNCHANGED <<calendar, stored, settings, uncounted, quotaHistory>>
  BY <1>1 DEF Enqueue
<1>3. z \in Nat /\ Overshoot(Accounted + z, quotaCall')
  BY <1>1, <1>2, QuotaWritten DEF Enqueue
<1>4. waiting' \in Nat /\ Accounted' = Accounted + z
  BY <1>2, <1>3, QuotaRequest DEF Accounted
<1>5. Told(QuotaIdle)'  BY QuotaIdleIs DEF Told, QuotaIdle
<1>6. QED
  BY <1>2, <1>3, <1>4, <1>5, QuotaIdleIs, QuotaRest, QuotaStep
     DEF QuotaInv, QuotaTypes, ToldInv, quotaHistory, QuotaFinish

\* A step of no request, given what it does to the count.
LEMMA QuotaCounts ==
  ASSUME QuotaInv, calendar' \in 0 .. LastMonth, stored' \in Nat, waiting' \in Nat,
         uncounted' \in Nat, UNCHANGED <<settings, quotaCall, quotaHistory>>,
         Overshoot(Accounted', quotaCall)
  PROVE  QuotaInv'
<1>1. QuotaTypes'  BY DEF QuotaInv, QuotaTypes, quotaHistory
<1>2. ToldInv'  BY DEF QuotaInv, ToldInv, Told, RequestOK, quotaHistory
<1>3. QED  BY <1>1, <1>2 DEF QuotaInv, OvershootInv

\* The worker stores what it can of a batch, without a check.
LEMMA DrainKeeps ==
  ASSUME QuotaInv, NEW size \in 1 .. MaxBatch, Drain(size)
  PROVE  QuotaInv'
<1>1. /\ stored \in Nat /\ waiting \in Nat /\ uncounted \in Nat /\ calendar \in 0 .. LastMonth
      /\ quotaCall \in [Callers -> QuotaCalls] /\ Overshoot(Accounted, quotaCall)
  BY DEF QuotaInv, QuotaTypes, OvershootInv
<1>2. /\ size <= waiting /\ waiting' = waiting - size
      /\ UNCHANGED <<calendar, settings, quotaCall, uncounted, quotaHistory>>
  BY DEF Drain
<1>3. PICK n \in 0 .. size : stored' = stored + n  BY DEF Drain
<1>4. size \in Nat /\ n \in Nat /\ n <= size  BY <1>3, QuotaAssumption
<1>5. /\ stored' \in Nat /\ waiting' \in Nat /\ Accounted \in Int /\ Accounted' \in Int
      /\ Accounted' <= Accounted
  BY <1>1, <1>2, <1>3, <1>4 DEF Accounted
<1>6. Overshoot(Accounted', quotaCall)  BY <1>1, <1>5, FewerEvents
<1>7. QED  BY <1>1, <1>2, <1>5, <1>6, QuotaCounts

\* An unchecked event is no check's.
LEMMA LogUncheckedKeeps == ASSUME QuotaInv, LogUnchecked PROVE QuotaInv'
<1>1. /\ stored \in Nat /\ waiting \in Nat /\ uncounted \in Nat /\ calendar \in 0 .. LastMonth
      /\ Overshoot(Accounted, quotaCall)
  BY DEF QuotaInv, QuotaTypes, OvershootInv
<1>2. /\ stored' = stored + 1 /\ uncounted' = uncounted + 1
      /\ UNCHANGED <<calendar, waiting, settings, quotaCall, quotaHistory>>
  BY DEF LogUnchecked
<1>3. stored' \in Nat /\ uncounted' \in Nat /\ Accounted' = Accounted
  BY <1>1, <1>2 DEF Accounted
<1>4. QED  BY <1>1, <1>2, <1>3, QuotaCounts

\* No check of the new month has counted anything: a batch in flight fits it.
LEMMA NextMonthKeeps == ASSUME QuotaInv, NextMonth PROVE QuotaInv'
<1>1. /\ stored \in Nat /\ waiting \in Nat /\ calendar \in 0 .. LastMonth
      /\ quotaCall \in [Callers -> QuotaCalls]
  BY DEF QuotaInv, QuotaTypes
<1>2. /\ stored' \in 0 .. stored /\ uncounted' = stored' + waiting
      /\ calendar' = calendar + 1 /\ calendar < LastMonth
      /\ UNCHANGED <<waiting, settings, quotaCall, quotaHistory>>
  BY DEF NextMonth
<1>3. stored' \in Nat /\ uncounted' \in Nat /\ waiting' \in Nat /\ Accounted' = 0
  <2>1. stored' \in Nat /\ waiting' = waiting  BY <1>1, <1>2
  <2>2. PICK n \in Nat : n = stored'  BY <2>1
  <2>3. PICK u \in Nat : u = n + waiting  BY <1>1
  <2>4. u - u = 0  OBVIOUS
  <2>5. uncounted' = u  BY <1>2, <2>2, <2>3
  <2>6. stored' + waiting' = u  BY <2>1, <2>2, <2>3
  <2>7. Accounted' = u - u  BY <2>5, <2>6 DEF Accounted
  <2>8. QED  BY <1>1, <2>1, <2>4, <2>5, <2>7
<1>4. Overshoot(0, quotaCall)
  <2>1. 0 <= Cap  BY CapIs
  <2>2. ASSUME Load(quotaCall) > 0
        PROVE  \E s \in PendingSizes(quotaCall) : 0 + s + MaxBatch * (Load(quotaCall) - 1) <= Cap
    <3>1. PICK s \in PendingSizes(quotaCall) : s \in 1 .. MaxBatch /\ s <= MonthlyLimit
      BY <1>1, <2>2, LoadIs
    <3>2. s \in Nat /\ 0 + s <= MonthlyLimit  BY <3>1, QuotaAssumption
    <3>3. QED  BY <1>1, <2>2, <3>1, <3>2, RoomEnough
  <2>3. QED  BY <2>1, <2>2 DEF Overshoot
<1>5. calendar' \in 0 .. LastMonth  BY <1>1, <1>2, QuotaAssumption
<1>6. QED  BY <1>2, <1>3, <1>4, <1>5, QuotaCounts

\* The dashboard reads the settings it will write back.
LEMMA LoadSettingsKeeps ==
  ASSUME QuotaInv, NEW c \in Callers, NEW email \in BOOLEAN, LoadSettings(c, email)
  PROVE  QuotaInv'
<1>1. PICK s : s = [settings EXCEPT !.email = email]  OBVIOUS
<1>2. settings \in AlertSettings  BY DEF QuotaInv, QuotaTypes
<1>3. /\ s \in AlertSettings /\ s.month = settings.month /\ s.level = settings.level
  BY <1>1, <1>2 DEF AlertSettings
<1>4. PICK r : r = [QuotaIdle EXCEPT !.pc = "put", !.seen = s]  OBVIOUS
<1>5. r \in QuotaCalls /\ r.pc = "put" /\ r.seen = s /\ r.size = 0
  BY <1>3, <1>4, QuotaIdleIs DEF QuotaCalls
<1>6. RequestOK(r)  BY <1>3, <1>5 DEF RequestOK
<1>7. Told(r)  BY <1>3, <1>5 DEF Told, QuotaInv, ToldInv
<1>8. quotaCall[c].size = 0  BY QuotaRequest DEF LoadSettings, QuotaFree, RequestOK
<1>9. QuotaBecomes(c, r) /\ UNCHANGED <<calendar, quotaEvents, settings, quotaHistory>>
  BY <1>1, <1>4 DEF LoadSettings
<1>10. QED  BY <1>5, <1>6, <1>7, <1>8, <1>9, QuotaMoves

\* The dashboard overwrites the settings with what it has read.
LEMMA PutAlertSettingsKeeps ==
  ASSUME QuotaInv, NEW c \in Callers, PutAlertSettings(c)
  PROVE  QuotaInv'
<1>1. PICK s : s = quotaCall[c].seen  OBVIOUS
<1>2. /\ s \in AlertSettings /\ quotaCall[c].size = 0
      /\ (~emailOff /\ s.level = 100 => s.month \in announced)
  BY <1>1, QuotaRequest DEF PutAlertSettings, RequestOK, Told
<1>3. /\ QuotaFinish(c) /\ settings' = s /\ emailOff' = (emailOff \/ ~s.email)
      /\ UNCHANGED <<calendar, quotaEvents, announced>>
  BY <1>1 DEF PutAlertSettings
<1>4. \A d \in Callers : quotaCall'[d].size = quotaCall[d].size
  BY <1>2, <1>3, QuotaFinished, QuotaRequest, QuotaIdleIs
<1>5. Overshoot(Accounted', quotaCall')
  <2>1. Accounted' = Accounted  BY <1>3 DEF Accounted, quotaEvents
  <2>2. QED  BY <1>4, <2>1, SameSizes DEF QuotaInv, OvershootInv
<1>6. Told(QuotaIdle)'  BY QuotaIdleIs DEF Told, QuotaIdle
<1>7. emailOff' \in BOOLEAN /\ (emailOff => emailOff') /\ (~emailOff' => s.email /\ ~emailOff)
  BY <1>3
<1>8. QED
  BY <1>2, <1>3, <1>5, <1>6, <1>7, QuotaIdleIs, QuotaRest, QuotaStep
     DEF QuotaInv, QuotaTypes, QuotaFinish, quotaEvents

\* An empty month satisfies the invariant.
LEMMA QuotaInitInv == QuotaInit => QuotaInv
<1> SUFFICES ASSUME QuotaInit PROVE QuotaInv  OBVIOUS
<1>1. quotaCall \in [Callers -> QuotaCalls] /\ \A c \in Callers : quotaCall[c] = QuotaIdle
  BY QuotaIdleIs DEF QuotaInit
<1>2. settings \in AlertSettings
  BY QuotaAssumption DEF QuotaInit, AlertSettings, NoMonth
<1>3. QuotaTypes
  <2>1. calendar \in 0 .. LastMonth  BY QuotaAssumption DEF QuotaInit
  <2>2. QED  BY <1>1, <1>2, <2>1 DEF QuotaInit, QuotaTypes
<1>4. ToldInv  BY <1>1, QuotaRest DEF QuotaInit, ToldInv
<1>5. Overshoot(0, quotaCall)
  <2>1. 0 <= Cap  BY CapIs
  <2>2. InFlight(quotaCall) = {}  BY <1>1, QuotaIdleIs DEF InFlight
  <2>3. Load(quotaCall) = 0  BY <2>2, FS_EmptySet DEF Load
  <2>4. QED  BY <2>1, <2>3 DEF Overshoot
<1>6. Accounted = 0  BY DEF Accounted, QuotaInit
<1>7. QED  BY <1>3, <1>4, <1>5, <1>6 DEF QuotaInv, OvershootInv

\* Every step of Quota preserves the invariant.
LEMMA QuotaNextKeeps == QuotaInv /\ [QuotaNext]_quotaVars => QuotaInv'
<1> SUFFICES ASSUME QuotaInv, [QuotaNext]_quotaVars PROVE QuotaInv'  OBVIOUS
<1>1. ASSUME NEW c \in Callers, NEW size \in 1 .. MaxBatch, NEW counted \in 0 .. stored,
             Check(c, size, counted)
      PROVE  QuotaInv'
  BY <1>1, CheckKeeps
<1>2. ASSUME NEW c \in Callers,
             ReadAlertSettings(c) \/ QuotaAlert(c) \/ UpdateQuotaAlertSettings(c)
      PROVE  QuotaInv'
  BY <1>2, ReadAlertSettingsKeeps, QuotaAlertKeeps, UpdateQuotaAlertSettingsKeeps
<1>3. ASSUME NEW c \in Callers, Refuse(c) \/ LogBatch(c) \/ Enqueue(c) PROVE QuotaInv'
  BY <1>3, RefuseKeeps, LogBatchKeeps, EnqueueKeeps
<1>4. ASSUME NEW c \in Callers, NEW email \in BOOLEAN, LoadSettings(c, email) PROVE QuotaInv'
  BY <1>4, LoadSettingsKeeps
<1>5. ASSUME NEW c \in Callers, PutAlertSettings(c) PROVE QuotaInv'
  BY <1>5, PutAlertSettingsKeeps
<1>6. ASSUME NEW size \in 1 .. MaxBatch, Drain(size) PROVE QuotaInv'  BY <1>6, DrainKeeps
<1>7. CASE NextMonth  BY <1>7, NextMonthKeeps
<1>8. CASE LogUnchecked  BY <1>8, LogUncheckedKeeps
<1>9. CASE UNCHANGED quotaVars
  BY <1>9 DEF QuotaInv, QuotaTypes, ToldInv, Told, RequestOK, OvershootInv, Accounted, quotaVars
<1>10. QED  BY <1>1, <1>2, <1>3, <1>4, <1>5, <1>6, <1>7, <1>8, <1>9 DEF QuotaNext

\* For any number of requests in flight, any limit, batch size and replica lag: the
\* events of a month, stored or in the outbox, never exceed its cap by more than the
\* other requests in flight can add and what the last admitting check did not count,
\* and no request is refused in a month whose 100% alert was not sent, as long as
\* the alert email stays configured.
THEOREM QuotaIsKept == QuotaSpec => []QuotaHolds
<1>1. QuotaInit => QuotaInv  BY QuotaInitInv
<1>2. QuotaInv /\ [QuotaNext]_quotaVars => QuotaInv'  BY QuotaNextKeeps
<1>3. QuotaInv => QuotaHolds
  <2> SUFFICES ASSUME QuotaInv PROVE QuotaHolds  OBVIOUS
  <2>1. QuotaTypeOK  BY DEF QuotaInv, QuotaTypes, QuotaTypeOK, AlertSettings
  <2>2. OvershootBounded
    <3>1. /\ stored \in Nat /\ waiting \in Nat /\ uncounted \in Nat
          /\ stored + waiting - uncounted <= Cap /\ Cap \in Nat
      BY CapIs DEF QuotaInv, QuotaTypes, OvershootInv, Overshoot, Accounted
    <3>2. stored + waiting <= Cap + uncounted  BY <3>1
    <3>3. QED  BY <3>2 DEF OvershootBounded, Cap
  <2>3. RefusalIsAnnounced
    <3>1. ASSUME NEW c \in Callers, ~emailOff, quotaCall[c].pc = "refuse"
          PROVE  quotaCall[c].label \in announced
      BY <3>1, QuotaRequest DEF RequestOK, Told
    <3>2. QED  BY <3>1 DEF RefusalIsAnnounced
  <2>4. QED  BY <2>1, <2>2, <2>3 DEF QuotaHolds
<1>4. QED  BY <1>1, <1>2, <1>3, PTL DEF QuotaSpec

-----------------------------------------------------------------------------
(* RateLimit: the inductive invariant *)

BucketObjects == [tokens : 0 .. Burst, touched : 0 .. LastSecond + 1]

RateCalls == [pc : {"idle", "touch", "allow"}, cost : 0 .. MaxCost, bucket : Buckets \cup {NoOne}]

RateTypes ==
  /\ backend \in {"memory", "redis"} /\ second \in 0 .. LastSecond
  /\ current \in Buckets \cup {NoOne} /\ bucket \in [Buckets -> BucketObjects]
  /\ window \in Nat /\ rateCall \in [Callers -> RateCalls] /\ admitted \in Nat
  /\ orphans \in SUBSET Buckets /\ IsFiniteSet(orphans) /\ redisErrors \in Nat
  /\ sweeping \in BOOLEAN

\* A request holds the bucket in the map or one that was evicted under it, and
\* takes tokens in the second in which it touched the bucket.
HolderOK(r) ==
  /\ r.pc = "idle" <=> r.bucket = NoOne
  /\ r.pc # "idle" => r.bucket = current \/ r.bucket \in orphans
  /\ r.pc = "allow" => bucket[r.bucket].touched = second + 1

HoldersInv ==
  /\ current \notin orphans
  /\ sweeping => current # NoOne
  /\ backend = "redis" => orphans = {} /\ current = NoOne
  /\ \A c \in Callers : HolderOK(rateCall[c])

\* What a bucket lacks was taken since its last touch and not yet refilled.
Refilled(t, at, now) ==
  /\ at = 0 => t = Burst
  /\ at > 0 => /\ at <= now + 1
               /\ t = Burst \/ t >= Rate * (now + 1 - at)

RefillInv ==
  current # NoOne => Refilled(bucket[current].tokens, bucket[current].touched, second)

\* The tokens left in the buckets o of the objects k.
Purse(o, k) == {z \in o \X (1 .. Burst) : z[2] <= k[z[1]].tokens}

InMap(b, k) == IF b = NoOne THEN Burst ELSE k[b].tokens

\* What was spent and what can still be spent before the next second.
MemoryBound ==
  backend = "memory" /\ Refills =>
    admitted + InMap(current, bucket) + Cardinality(Purse(orphans, bucket))
      <= Burst * (1 + Cardinality(orphans)) + Rate * second

RedisBound ==
  backend = "redis" =>
    admitted <= RedisLimit * second + Smaller(window, RedisLimit) + redisErrors * MaxCost

RateInv == RateTypes /\ HoldersInv /\ RefillInv /\ MemoryBound /\ RedisBound

-----------------------------------------------------------------------------
(* RateLimit: proofs *)

\* The size of a run of tokens of one bucket.
LEMMA Slice ==
  ASSUME NEW b, NEW lo \in Int, NEW hi \in Int, lo <= hi + 1
  PROVE  IsFiniteSet({b} \X (lo .. hi)) /\ Cardinality({b} \X (lo .. hi)) = hi + 1 - lo
<1>1. IsFiniteSet({b}) /\ Cardinality({b}) = 1  BY FS_Singleton
<1>2. IsFiniteSet(lo .. hi) /\ Cardinality(lo .. hi) = hi + 1 - lo
  <2>1. IsFiniteSet(lo .. hi) /\ Cardinality(lo .. hi) = IF lo > hi THEN 0 ELSE hi - lo + 1
    BY FS_Interval
  <2>2. QED  BY <2>1
<1>3. QED  BY <1>1, <1>2, FS_Product

\* A purse is finite.
LEMMA PurseIs ==
  ASSUME NEW o, IsFiniteSet(o), NEW k
  PROVE  IsFiniteSet(Purse(o, k)) /\ Cardinality(Purse(o, k)) \in Nat
<1>1. IsFiniteSet(1 .. Burst)  BY FS_Interval, RateAssumption
<1>2. IsFiniteSet(o \X (1 .. Burst))  BY <1>1, FS_Product
<1>3. Purse(o, k) \in SUBSET (o \X (1 .. Burst))  BY DEF Purse
<1>4. QED  BY <1>2, <1>3, FS_Subset, FS_CardinalityType

\* A purse depends on the tokens of its buckets only.
LEMMA PurseSame ==
  ASSUME NEW o, NEW k, NEW l, \A b \in o : k[b].tokens = l[b].tokens
  PROVE  Purse(o, k) = Purse(o, l)
BY DEF Purse

\* Empty buckets make an empty purse.
LEMMA PurseEmpty ==
  ASSUME NEW o, NEW k, \A b \in o : k[b].tokens = 0
  PROVE  Cardinality(Purse(o, k)) = 0
<1>1. Purse(o, k) = {}  BY RateAssumption DEF Purse
<1>2. QED  BY <1>1, FS_EmptySet

\* Taking tokens from one bucket takes as many from the purse.
LEMMA PurseSpent ==
  ASSUME NEW o, IsFiniteSet(o), NEW k \in [Buckets -> BucketObjects],
         NEW l \in [Buckets -> BucketObjects], o \subseteq Buckets, NEW b \in o,
         NEW cost \in Nat, cost <= k[b].tokens, l[b].tokens = k[b].tokens - cost,
         \A d \in o \ {b} : k[d].tokens = l[d].tokens
  PROVE  Cardinality(Purse(o, l)) = Cardinality(Purse(o, k)) - cost
<1>1. PICK t \in 0 .. Burst : t = k[b].tokens  BY DEF BucketObjects
<1>2. PICK s : s = {b} \X (t - cost + 1 .. t)  OBVIOUS
<1>3. t \in Nat /\ t <= Burst /\ Burst \in Nat /\ cost <= t  BY <1>1, RateAssumption
<1>4. Cardinality(s) = cost
  <2>1. t - cost + 1 \in Int /\ t \in Int /\ t - cost + 1 <= t + 1  BY <1>3
  <2>2. Cardinality(s) = t + 1 - (t - cost + 1)  BY <1>2, <2>1, Slice
  <2>3. QED  BY <1>3, <2>2
<1>5. s \subseteq Purse(o, k)
  <2>1. ASSUME NEW i \in t - cost + 1 .. t PROVE i \in 1 .. Burst /\ i <= t  BY <1>3
  <2>2. QED  BY <1>1, <1>2, <2>1 DEF Purse
<1>6. Purse(o, l) = Purse(o, k) \ s
  <2>1. ASSUME NEW d \in o, NEW i \in 1 .. Burst
        PROVE  i <= l[d].tokens <=> i <= k[d].tokens /\ <<d, i>> \notin s
    <3>1. CASE d = b  BY <1>1, <1>2, <1>3, <3>1
    <3>2. CASE d # b  BY <1>2, <3>2
    <3>3. QED  BY <3>1, <3>2
  <2>2. QED  BY <2>1 DEF Purse
<1>7. Purse(o, k) \cap s = s  BY <1>5
<1>8. IsFiniteSet(Purse(o, k)) /\ Cardinality(Purse(o, k)) \in Nat  BY PurseIs
<1>9. Cardinality(Purse(o, k) \ s) = Cardinality(Purse(o, k)) - Cardinality(Purse(o, k) \cap s)
  BY <1>8, FS_Difference
<1>10. QED  BY <1>4, <1>6, <1>7, <1>9

\* A bucket that joins brings its tokens.
LEMMA PurseGrown ==
  ASSUME NEW o, IsFiniteSet(o), NEW k \in [Buckets -> BucketObjects], NEW b \in Buckets,
         b \notin o
  PROVE  Cardinality(Purse(o \cup {b}, k)) = Cardinality(Purse(o, k)) + k[b].tokens
<1>1. PICK t \in 0 .. Burst : t = k[b].tokens  BY DEF BucketObjects
<1>2. PICK s : s = {b} \X (1 .. t)  OBVIOUS
<1>3. t \in Nat /\ t <= Burst /\ Burst \in Nat  BY <1>1, RateAssumption
<1>4. IsFiniteSet(s) /\ Cardinality(s) = t
  <2>1. 1 \in Int /\ t \in Int /\ 1 <= t + 1  BY <1>3
  <2>2. IsFiniteSet(s) /\ Cardinality(s) = t + 1 - 1  BY <1>2, <2>1, Slice
  <2>3. QED  BY <1>3, <2>2
<1>5. Purse(o \cup {b}, k) = Purse(o, k) \cup s
  <2>1. ASSUME NEW i PROVE i \in 1 .. Burst /\ i <= t <=> i \in 1 .. t  BY <1>3
  <2>2. QED  BY <1>1, <1>2, <2>1 DEF Purse
<1>6. Purse(o, k) \cap s = {}  BY <1>2 DEF Purse
<1>7. IsFiniteSet(Purse(o, k)) /\ Cardinality(Purse(o, k)) \in Nat  BY PurseIs
<1>8. Cardinality(Purse(o, k) \cup s)
        = Cardinality(Purse(o, k)) + Cardinality(s) - Cardinality(Purse(o, k) \cap s)
  BY <1>4, <1>7, FS_Union
<1>9. Cardinality(Purse(o, k) \cap s) = 0  BY <1>6, FS_EmptySet
<1>10. PICK n \in Nat : n = Cardinality(Purse(o, k))  BY <1>7
<1>11. Cardinality(Purse(o, k) \cup s) = n + t - 0  BY <1>4, <1>8, <1>9, <1>10
<1>12. Cardinality(Purse(o, k) \cup s) = n + t  BY <1>3, <1>11
<1>13. QED  BY <1>1, <1>5, <1>10, <1>12

\* What the invariant says of one request.
LEMMA RateCallOf ==
  ASSUME RateInv, NEW c \in Callers
  PROVE  /\ rateCall \in [Callers -> RateCalls] /\ rateCall[c] \in RateCalls
         /\ HolderOK(rateCall[c])
         /\ bucket \in [Buckets -> BucketObjects] /\ NoOne \notin Buckets
         /\ (rateCall[c].pc # "idle" =>
               /\ rateCall[c].bucket \in Buckets
               /\ backend = "memory"
               /\ rateCall[c].bucket = current \/ rateCall[c].bucket \in orphans)
<1>1. /\ rateCall \in [Callers -> RateCalls] /\ bucket \in [Buckets -> BucketObjects]
      /\ orphans \subseteq Buckets /\ backend \in {"memory", "redis"}
      /\ current \in Buckets \cup {NoOne}
  BY DEF RateInv, RateTypes
<1>2. HolderOK(rateCall[c]) /\ rateCall[c] \in RateCalls /\ NoOne \notin Buckets
  BY <1>1, RateAssumption DEF RateInv, HoldersInv
<1>3. backend = "redis" => orphans = {} /\ current = NoOne  BY DEF RateInv, HoldersInv
<1>4. rateCall[c].bucket \in Buckets \cup {NoOne}  BY <1>2 DEF RateCalls
<1>5. QED  BY <1>1, <1>2, <1>3, <1>4 DEF HolderOK

\* The counters of the bounds, as integers.
LEMMA RateNumbers ==
  ASSUME RateInv
  PROVE  /\ admitted \in Nat /\ second \in Nat /\ second \in 0 .. LastSecond
         /\ window \in Nat /\ redisErrors \in Nat
         /\ Burst \in Nat /\ Rate \in Nat /\ MaxCost \in Nat
         /\ Cardinality(orphans) \in Nat /\ Cardinality(Purse(orphans, bucket)) \in Nat
         /\ InMap(current, bucket) \in 0 .. Burst
<1>1. /\ admitted \in Nat /\ second \in 0 .. LastSecond /\ window \in Nat /\ redisErrors \in Nat
      /\ IsFiniteSet(orphans) /\ current \in Buckets \cup {NoOne}
      /\ bucket \in [Buckets -> BucketObjects]
  BY DEF RateInv, RateTypes
<1>2. Burst \in Nat /\ Rate \in Nat /\ MaxCost \in Nat /\ LastSecond \in Nat  BY RateAssumption
<1>3. InMap(current, bucket) \in 0 .. Burst  BY <1>1, <1>2 DEF InMap, BucketObjects
<1>4. QED  BY <1>1, <1>2, <1>3, PurseIs, FS_CardinalityType

\* A step of a request that neither takes tokens nor moves the clock.
LEMMA NothingTaken ==
  ASSUME RateInv, UNCHANGED <<backend, second, window, admitted, orphans, redisErrors, sweeping>>,
         \A b \in orphans : bucket'[b].tokens = bucket[b].tokens,
         InMap(current', bucket') <= InMap(current, bucket), InMap(current', bucket') \in Int
  PROVE  MemoryBound' /\ RedisBound'
<1>1. Purse(orphans, bucket') = Purse(orphans, bucket)  BY PurseSame
<1>2. RedisBound'  BY DEF RateInv, RedisBound
<1>3. PICK x \in Int : x = Burst * (1 + Cardinality(orphans)) + Rate * second  BY RateNumbers
<1>4. backend = "memory" /\ Refills =>
        admitted + InMap(current', bucket') + Cardinality(Purse(orphans, bucket)) <= x
  BY <1>3, RateNumbers DEF RateInv, MemoryBound
<1>5. MemoryBound'  BY <1>1, <1>3, <1>4 DEF MemoryBound
<1>6. QED  BY <1>2, <1>5

\* A bucket is loaded, or a full one is put into the map.
LEMMA GetOrCreateBucketKeeps ==
  ASSUME RateInv, NEW c \in Callers, NEW cost \in EventCosts, GetOrCreateBucket(c, cost)
  PROVE  RateInv'
<1>1. PICK b \in Buckets :
        /\ \/ b = current /\ UNCHANGED <<current, bucket>>
           \/ /\ current = NoOne /\ ~Reachable(b) /\ b \notin orphans
              /\ current' = b
              /\ bucket' = [bucket EXCEPT ![b] = [tokens |-> Burst, touched |-> 0]]
        /\ rateCall' = [rateCall EXCEPT ![c] = [pc |-> "touch", cost |-> cost, bucket |-> b]]
  BY DEF GetOrCreateBucket
<1>2. /\ backend = "memory" /\ rateCall[c].pc = "idle"
      /\ UNCHANGED <<backend, second, window, admitted, orphans, redisErrors, sweeping>>
  BY DEF GetOrCreateBucket, RateFree
<1>3. PICK r : r = [pc |-> "touch", cost |-> cost, bucket |-> b]  OBVIOUS
<1>4. r \in RateCalls /\ r.pc = "touch" /\ r.bucket = b
  BY <1>3, RateAssumption DEF RateCalls, EventCosts
<1>5. rateCall' = [rateCall EXCEPT ![c] = r] /\ rateCall' \in [Callers -> RateCalls]
  BY <1>1, <1>3, <1>4, RateCallOf
<1>6. [tokens |-> Burst, touched |-> 0] \in BucketObjects  BY RateAssumption DEF BucketObjects
<1>7. current' = b /\ b \notin orphans /\ bucket' \in [Buckets -> BucketObjects]
  BY <1>1, <1>6, RateCallOf DEF RateInv, HoldersInv
<1>8. RateTypes'  BY <1>2, <1>5, <1>7 DEF RateInv, RateTypes
<1>9. HoldersInv'
  <2>1. ASSUME NEW d \in Callers PROVE HolderOK(rateCall[d])'
    <3>1. CASE d = c  BY <1>4, <1>5, <1>7, <3>1, RateCallOf DEF HolderOK
    <3>2. CASE d # c
      <4>1. rateCall'[d] = rateCall[d] /\ HolderOK(rateCall[d])
        BY <1>5, <3>2, RateCallOf
      <4>2. CASE UNCHANGED <<current, bucket>>  BY <1>2, <4>1, <4>2 DEF HolderOK
      <4>3. CASE /\ current = NoOne /\ ~Reachable(b) /\ b \notin orphans
                 /\ bucket' = [bucket EXCEPT ![b] = [tokens |-> Burst, touched |-> 0]]
        <5>1. rateCall[d].bucket # b  BY <4>3 DEF Reachable
        <5>2. rateCall[d].pc # "idle" => /\ rateCall[d].bucket \in Buckets
                                         /\ rateCall[d].bucket \in orphans
          BY <4>3, RateCallOf
        <5>3. rateCall[d].pc # "idle" => bucket'[rateCall[d].bucket] = bucket[rateCall[d].bucket]
          BY <4>3, <5>1, <5>2, RateCallOf
        <5>4. QED  BY <1>2, <4>1, <5>2, <5>3 DEF HolderOK
      <4>4. QED  BY <1>1, <4>2, <4>3
    <3>3. QED  BY <3>1, <3>2
  <2>2. current' # NoOne /\ current' \notin orphans'  BY <1>2, <1>7, RateCallOf
  <2>3. QED  BY <1>2, <2>1, <2>2 DEF HoldersInv
<1>10. RefillInv' /\ InMap(current', bucket') = InMap(current, bucket)
       /\ \A d \in orphans : bucket'[d].tokens = bucket[d].tokens
  <2>1. CASE b = current /\ UNCHANGED <<current, bucket>>
    BY <1>2, <2>1 DEF RateInv, RefillInv, Refilled, InMap
  <2>2. CASE /\ current = NoOne /\ b \notin orphans /\ current' = b
             /\ bucket' = [bucket EXCEPT ![b] = [tokens |-> Burst, touched |-> 0]]
    <3>1. bucket'[b].tokens = Burst /\ bucket'[b].touched = 0  BY <2>2, RateCallOf
    <3>2. InMap(current', bucket') = InMap(current, bucket)
      BY <2>2, <3>1, RateAssumption DEF InMap
    <3>3. \A d \in orphans : bucket'[d] = bucket[d]
      BY <2>2, RateCallOf DEF RateInv, RateTypes
    <3>4. RefillInv'  BY <2>2, <3>1 DEF RefillInv, Refilled
    <3>5. QED  BY <3>2, <3>3, <3>4
  <2>3. QED  BY <1>1, <2>1, <2>2
<1>11. MemoryBound' /\ RedisBound'  BY <1>2, <1>10, NothingTaken, RateNumbers
<1>12. QED  BY <1>8, <1>9, <1>10, <1>11 DEF RateInv

\* The fields of a request at rest.
LEMMA RateIdleIs == RateIdle \in RateCalls /\ RateIdle.pc = "idle" /\ RateIdle.bucket = NoOne
BY RateAssumption DEF RateIdle, RateCalls

\* A bucket touched in this second may lack anything.
LEMMA JustTouched ==
  ASSUME NEW t \in Nat, NEW now \in Nat PROVE Refilled(t, now + 1, now)
<1>1. Rate * (now + 1 - (now + 1)) = 0  BY RateAssumption
<1>2. QED  BY <1>1 DEF Refilled

\* A request marks its bucket, evicted or not.
LEMMA TouchKeeps ==
  ASSUME RateInv, NEW c \in Callers, Touch(c)
  PROVE  RateInv'
<1>1. PICK b : b = rateCall[c].bucket  OBVIOUS
<1>2. /\ rateCall[c].pc = "touch" /\ bucket' = [bucket EXCEPT ![b].touched = second + 1]
      /\ rateCall' = [rateCall EXCEPT ![c].pc = "allow"]
      /\ UNCHANGED <<backend, second, current, window, admitted, orphans, redisErrors, sweeping>>
  BY <1>1 DEF Touch
<1>3. b \in Buckets /\ (b = current \/ b \in orphans)  BY <1>1, <1>2, RateCallOf
<1>4. second \in Nat /\ second + 1 \in 0 .. LastSecond + 1
  BY RateNumbers, RateAssumption
<1>5. /\ bucket' \in [Buckets -> BucketObjects] /\ bucket'[b].touched = second + 1
      /\ \A d \in Buckets : bucket'[d].tokens = bucket[d].tokens
      /\ \A d \in Buckets \ {b} : bucket'[d] = bucket[d]
  BY <1>2, <1>3, <1>4, RateCallOf DEF BucketObjects
<1>6. /\ rateCall' \in [Callers -> RateCalls] /\ rateCall'[c].pc = "allow"
      /\ rateCall'[c].bucket = b /\ \A d \in Callers \ {c} : rateCall'[d] = rateCall[d]
  BY <1>1, <1>2, RateCallOf DEF RateCalls
<1>7. RateTypes'  BY <1>2, <1>5, <1>6 DEF RateInv, RateTypes
<1>8. ASSUME NEW d \in Callers PROVE HolderOK(rateCall[d])'
  <2>1. CASE d = c  BY <1>2, <1>3, <1>5, <1>6, <2>1, RateCallOf DEF HolderOK
  <2>2. CASE d # c
    <3>1. rateCall'[d] = rateCall[d] /\ HolderOK(rateCall[d])  BY <1>6, <2>2, RateCallOf
    <3>2. rateCall[d].pc # "idle" => rateCall[d].bucket \in Buckets  BY RateCallOf
    <3>3. CASE rateCall[d].bucket = b
      BY <1>2, <1>5, <3>1, <3>3 DEF HolderOK
    <3>4. CASE rateCall[d].bucket # b
      <4>1. rateCall[d].pc # "idle" => bucket'[rateCall[d].bucket] = bucket[rateCall[d].bucket]
        BY <1>5, <3>2, <3>4
      <4>2. /\ rateCall[d].pc = "idle" <=> rateCall[d].bucket = NoOne
            /\ rateCall[d].pc # "idle" =>
                 rateCall[d].bucket = current' \/ rateCall[d].bucket \in orphans'
            /\ rateCall[d].pc = "allow" => bucket'[rateCall[d].bucket].touched = second' + 1
        BY <1>2, <3>1, <4>1 DEF HolderOK
      <4>3. QED  BY <3>1, <4>2 DEF HolderOK
    <3>5. QED  BY <3>3, <3>4
  <2>3. QED  BY <2>1, <2>2
<1>9. HoldersInv'  BY <1>2, <1>8 DEF RateInv, HoldersInv
<1>10. RefillInv'
  <2>1. CASE current = b
    <3>1. bucket'[b].tokens \in Nat  BY <1>3, <1>5, RateAssumption DEF BucketObjects
    <3>2. QED  BY <1>2, <1>4, <1>5, <2>1, <3>1, JustTouched DEF RefillInv
  <2>2. CASE current # b
    <3>1. current # NoOne => bucket'[current] = bucket[current]
      BY <1>5, <2>2 DEF RateInv, RateTypes
    <3>2. QED  BY <1>2, <3>1 DEF RateInv, RefillInv, Refilled
  <2>3. QED  BY <2>1, <2>2
<1>11. InMap(current', bucket') = InMap(current, bucket)
  BY <1>2, <1>5 DEF InMap, RateInv, RateTypes
<1>12. \A d \in orphans : bucket'[d].tokens = bucket[d].tokens
  BY <1>5 DEF RateInv, RateTypes
<1>13. MemoryBound' /\ RedisBound'  BY <1>2, <1>11, <1>12, NothingTaken, RateNumbers
<1>14. QED  BY <1>7, <1>9, <1>10, <1>13 DEF RateInv

\* Tokens leave a bucket with the request they admit.
LEMMA AllowNKeeps ==
  ASSUME RateInv, NEW c \in Callers, AllowN(c)
  PROVE  RateInv'
<1>1. PICK b, cost : b = rateCall[c].bucket /\ cost = rateCall[c].cost  OBVIOUS
<1>2. /\ rateCall[c].pc = "allow" /\ rateCall' = [rateCall EXCEPT ![c] = RateIdle]
      /\ UNCHANGED <<backend, second, current, window, orphans, redisErrors, sweeping>>
  BY DEF AllowN
<1>3. \/ UNCHANGED <<bucket, admitted>>
      \/ /\ cost <= bucket[b].tokens /\ bucket' = [bucket EXCEPT ![b].tokens = @ - cost]
         /\ admitted' = admitted + cost
  BY <1>1 DEF AllowN, Allowed
<1>4. /\ b \in Buckets /\ (b = current \/ b \in orphans) /\ backend = "memory"
      /\ bucket[b].touched = second + 1
  BY <1>1, <1>2, RateCallOf DEF HolderOK
<1>5. cost \in Nat  BY <1>1, RateCallOf, RateAssumption DEF RateCalls
<1>6. /\ rateCall' \in [Callers -> RateCalls] /\ rateCall'[c] = RateIdle
      /\ \A d \in Callers \ {c} : rateCall'[d] = rateCall[d]
  BY <1>2, RateCallOf, RateIdleIs
<1>7. PICK t \in 0 .. Burst : t = bucket[b].tokens  BY <1>4, RateCallOf DEF BucketObjects
<1>8. PICK paid \in Nat :
        /\ paid <= t /\ bucket' \in [Buckets -> BucketObjects] /\ bucket'[b].tokens = t - paid
        /\ \A d \in Buckets : bucket'[d].touched = bucket[d].touched
        /\ \A d \in Buckets \ {b} : bucket'[d] = bucket[d]
        /\ admitted' = admitted + paid
  <2>1. CASE UNCHANGED <<bucket, admitted>>
    <3>1. 0 \in Nat /\ 0 <= t /\ t - 0 = t /\ admitted + 0 = admitted
      BY <1>7, RateNumbers, RateAssumption
    <3>2. QED  BY <1>7, <2>1, <3>1, RateCallOf
  <2>2. CASE /\ cost <= bucket[b].tokens /\ bucket' = [bucket EXCEPT ![b].tokens = @ - cost]
             /\ admitted' = admitted + cost
    <3>1. t - cost \in 0 .. Burst /\ cost <= t  BY <1>5, <1>7, <2>2, RateAssumption
    <3>2. bucket' = [bucket EXCEPT ![b].tokens = t - cost]  BY <1>4, <1>7, <2>2, RateCallOf
    <3>3. /\ bucket' \in [Buckets -> BucketObjects] /\ bucket'[b].tokens = t - cost
          /\ \A d \in Buckets : bucket'[d].touched = bucket[d].touched
          /\ \A d \in Buckets \ {b} : bucket'[d] = bucket[d]
      BY <1>4, <3>1, <3>2, RateCallOf DEF BucketObjects
    <3>4. QED  BY <1>5, <2>2, <3>1, <3>3
  <2>3. QED  BY <1>3, <2>1, <2>2
<1>9. RateTypes'
  <2>1. admitted' \in Nat  BY <1>8, RateNumbers
  <2>2. QED  BY <1>2, <1>6, <1>8, <2>1 DEF RateInv, RateTypes
<1>10. ASSUME NEW d \in Callers PROVE HolderOK(rateCall[d])'
  <2>1. CASE d = c  BY <1>6, <2>1, RateIdleIs DEF HolderOK
  <2>2. CASE d # c
    <3>1. rateCall'[d] = rateCall[d] /\ HolderOK(rateCall[d])  BY <1>6, <2>2, RateCallOf
    <3>2. rateCall[d].pc # "idle" => rateCall[d].bucket \in Buckets  BY RateCallOf
    <3>3. QED  BY <1>2, <1>8, <3>1, <3>2 DEF HolderOK
  <2>3. QED  BY <2>1, <2>2
<1>11. HoldersInv'  BY <1>2, <1>10 DEF RateInv, HoldersInv
<1>12. RefillInv'
  <2>1. CASE current = b
    <3>1. t - paid \in Nat  BY <1>7, <1>8, RateAssumption
    <3>2. bucket'[b].touched = second + 1  BY <1>4, <1>8
    <3>3. QED  BY <1>2, <1>8, <2>1, <3>1, <3>2, JustTouched, RateNumbers DEF RefillInv
  <2>2. CASE current # b
    <3>1. current # NoOne => bucket'[current] = bucket[current]
      BY <1>8, <2>2 DEF RateInv, RateTypes
    <3>2. QED  BY <1>2, <3>1 DEF RateInv, RefillInv, Refilled
  <2>3. QED  BY <2>1, <2>2
<1>13. admitted' + InMap(current, bucket') + Cardinality(Purse(orphans, bucket'))
         = admitted + InMap(current, bucket) + Cardinality(Purse(orphans, bucket))
  <2>0. IsFiniteSet(orphans) /\ orphans \subseteq Buckets /\ current \notin orphans
        /\ current \in Buckets \cup {NoOne} /\ NoOne \notin Buckets
    BY RateAssumption DEF RateInv, RateTypes, HoldersInv
  <2>1. CASE b = current
    <3>1. Purse(orphans, bucket') = Purse(orphans, bucket)
      BY <1>8, <2>0, <2>1, PurseSame
    <3>2. InMap(current, bucket') = t - paid /\ InMap(current, bucket) = t
      BY <1>4, <1>7, <1>8, <2>0, <2>1 DEF InMap
    <3>3. t \in Nat  BY <1>7, RateAssumption
    <3>4. QED  BY <1>8, <3>1, <3>2, <3>3, RateNumbers
  <2>2. CASE b # current
    <3>1. Cardinality(Purse(orphans, bucket')) = Cardinality(Purse(orphans, bucket)) - paid
      BY <1>4, <1>7, <1>8, <2>0, <2>2, PurseSpent, RateCallOf
    <3>2. InMap(current, bucket') = InMap(current, bucket)
      BY <1>8, <2>0, <2>2 DEF InMap
    <3>3. QED  BY <1>8, <3>1, <3>2, RateNumbers
  <2>3. QED  BY <2>1, <2>2
<1>14. MemoryBound'  BY <1>2, <1>13 DEF RateInv, MemoryBound
<1>15. RedisBound'  BY <1>2, <1>4 DEF RedisBound
<1>16. QED  BY <1>9, <1>11, <1>12, <1>14, <1>15 DEF RateInv

\* The time to live is long enough to refill a bucket.
LEMMA IdleIsFull ==
  ASSUME NEW t \in 0 .. Burst, NEW at \in Nat, NEW now \in Nat, Refilled(t, at, now),
         at = 0 \/ at - 1 + IdleTTL < now, Refills
  PROVE  t = Burst
<1>1. CASE at = 0  BY <1>1 DEF Refilled
<1>2. CASE at > 0 /\ t # Burst
  <2>1. PICK k \in Nat : k = now + 1 - at  BY <1>2 DEF Refilled
  <2>2. t >= Rate * k  BY <1>2, <2>1 DEF Refilled
  <2>3. IdleTTL <= k /\ IdleTTL \in Int /\ k \in Int /\ Rate \in Nat
    BY <1>2, <2>1, RateAssumption
  <2>4. Rate * IdleTTL <= Rate * k /\ IdleTTL * Rate = Rate * IdleTTL
    BY <2>3, Times, RateAssumption
  <2>5. PICK x \in Int : x = Rate * k  BY <2>3
  <2>6. PICK y \in Int : y = Rate * IdleTTL  BY <2>3
  <2>7. y <= x /\ y >= Burst /\ t >= x  BY <2>2, <2>4, <2>5, <2>6, RateAssumption DEF Refills
  <2>8. QED  BY <2>7, RateAssumption
<1>3. QED  BY <1>1, <1>2

\* The sweeper's look changes nothing but its mind.
LEMMA FindIdleKeeps == ASSUME RateInv, FindIdle PROVE RateInv'
<1>1. /\ current # NoOne /\ sweeping' = TRUE
      /\ UNCHANGED <<backend, second, current, bucket, window, rateCall, admitted, orphans,
                     redisErrors>>
  BY DEF FindIdle
<1>2. RateTypes' /\ HoldersInv' /\ RefillInv'
  BY <1>1 DEF RateInv, RateTypes, HoldersInv, HolderOK, RefillInv, Refilled
<1>3. MemoryBound' /\ RedisBound'
  BY <1>1 DEF RateInv, MemoryBound, RedisBound, RedisLimit, Larger
<1>4. QED  BY <1>2, <1>3 DEF RateInv

\* A bucket leaves the map: full if it is idle and nobody holds it, and else an orphan.
LEMMA DeleteKeeps == ASSUME RateInv, Delete PROVE RateInv'
<1>1. /\ current # NoOne /\ current' = NoOne /\ sweeping' = FALSE
      /\ orphans' = (IF ~Idle(current) \/ \E c \in Callers : rateCall[c].bucket = current
                     THEN orphans \cup {current} ELSE orphans)
      /\ UNCHANGED <<backend, second, bucket, window, rateCall, admitted, redisErrors>>
  BY DEF Delete, RateInv, HoldersInv
<1>2. /\ current \in Buckets /\ current \notin orphans /\ backend = "memory"
      /\ orphans \subseteq Buckets /\ IsFiniteSet(orphans)
      /\ bucket \in [Buckets -> BucketObjects] /\ NoOne \notin Buckets
      /\ rateCall \in [Callers -> RateCalls]
  BY <1>1, RateAssumption DEF RateInv, RateTypes, HoldersInv
<1>3. /\ orphans' \in SUBSET Buckets /\ IsFiniteSet(orphans') /\ orphans \subseteq orphans'
      /\ NoOne \notin orphans'
  BY <1>1, <1>2, FS_AddElement
<1>4. RateTypes'  BY <1>1, <1>3 DEF RateInv, RateTypes
<1>5. ASSUME NEW d \in Callers PROVE HolderOK(rateCall[d])'
  <2>1. HolderOK(rateCall[d])  BY RateCallOf
  <2>2. rateCall[d].pc # "idle" => rateCall[d].bucket \in orphans'
    <3>1. CASE rateCall[d].bucket = current  BY <1>1, <3>1
    <3>2. CASE rateCall[d].bucket # current  BY <1>3, <2>1, <3>2 DEF HolderOK
    <3>3. QED  BY <3>1, <3>2
  <2>3. QED  BY <1>1, <2>1, <2>2 DEF HolderOK
<1>6. HoldersInv'  BY <1>1, <1>2, <1>3, <1>5 DEF HoldersInv
<1>7. RefillInv'  BY <1>1 DEF RefillInv
<1>8. PICK t \in 0 .. Burst : t = bucket[current].tokens  BY <1>2 DEF BucketObjects
<1>9. InMap(current, bucket) = t /\ InMap(current', bucket') = Burst
  BY <1>1, <1>8 DEF InMap
<1>10. PICK x \in Int : x = Burst * (1 + Cardinality(orphans))  BY RateNumbers
<1>11. PICK y \in Int : y = Rate * second  BY RateNumbers
<1>12. PICK n \in Nat : n = Cardinality(Purse(orphans, bucket))  BY RateNumbers
<1>13. Refills => admitted + t + n <= x + y
  BY <1>2, <1>9, <1>10, <1>11, <1>12 DEF RateInv, MemoryBound
<1>14. CASE ~Idle(current) \/ \E c \in Callers : rateCall[c].bucket = current
  <2>1. orphans' = orphans \cup {current}  BY <1>1, <1>14
  <2>2. Cardinality(Purse(orphans', bucket)) = n + t
    BY <1>2, <1>8, <1>12, <2>1, PurseGrown
  <2>3. Cardinality(orphans') = Cardinality(orphans) + 1  BY <1>2, <2>1, FS_AddElement
  <2>4. PICK m \in Nat : m = Cardinality(orphans)  BY RateNumbers
  <2>5. Burst * (1 + Cardinality(orphans')) = x + Burst
    <3>1. 1 + Cardinality(orphans') = 1 + m + 1  BY <2>3, <2>4
    <3>2. Burst * (1 + m + 1) = Burst * (1 + m) + Burst  BY <2>4, RateNumbers
    <3>3. QED  BY <1>10, <2>4, <3>1, <3>2
  <2>6. Refills => admitted + Burst + (n + t) <= (x + Burst) + y
    BY <1>8, <1>13, RateNumbers
  <2>7. QED
    BY <1>1, <1>4, <1>6, <1>7, <1>9, <1>11, <2>2, <2>5, <2>6, <1>2
       DEF RateInv, MemoryBound, RedisBound
<1>15. CASE ~(~Idle(current) \/ \E c \in Callers : rateCall[c].bucket = current)
  <2>1. orphans' = orphans  BY <1>1, <1>15
  <2>2. Refills => t = Burst
    <3>1. Refilled(t, bucket[current].touched, second)  BY <1>1, <1>8 DEF RateInv, RefillInv
    <3>2. bucket[current].touched \in Nat  BY <1>2, RateAssumption DEF BucketObjects
    <3>3. bucket[current].touched = 0 \/ bucket[current].touched - 1 + IdleTTL < second
      BY <1>15 DEF Idle
    <3>4. QED  BY <3>1, <3>2, <3>3, IdleIsFull, RateNumbers
  <2>3. Refills => admitted + Burst + n <= x + y  BY <1>13, <2>2
  <2>4. QED
    BY <1>1, <1>2, <1>4, <1>6, <1>7, <1>9, <1>10, <1>11, <1>12, <2>1, <2>3
       DEF RateInv, MemoryBound, RedisBound
<1>16. QED  BY <1>14, <1>15

\* The counter of the second in Redis, and a request let through on an error.
LEMMA RedisKeeps ==
  ASSUME RateInv, NEW c \in Callers, NEW cost \in EventCosts,
         RedisAllowN(c, cost) \/ RedisFails(c, cost)
  PROVE  RateInv'
<1>1. /\ backend = "redis"
      /\ UNCHANGED <<backend, second, current, bucket, rateCall, orphans, sweeping>>
  BY DEF RedisAllowN, RedisFails
<1>2. cost \in Nat /\ cost <= MaxCost  BY RateAssumption DEF EventCosts
<1>3. RedisLimit \in Nat  BY RateAssumption DEF RedisLimit, Larger
<1>4. HoldersInv' /\ RefillInv' /\ MemoryBound'
  BY <1>1 DEF RateInv, HoldersInv, HolderOK, RefillInv, Refilled, MemoryBound
<1>5. PICK x \in Int : x = RedisLimit * second  BY <1>3, RateNumbers
<1>6. PICK y \in Int : y = redisErrors * MaxCost  BY RateNumbers
<1>7. admitted <= x + Smaller(window, RedisLimit) + y
  BY <1>1, <1>5, <1>6 DEF RateInv, RedisBound
<1>8. CASE RedisAllowN(c, cost)
  <2>1. /\ window' = window + cost /\ redisErrors' = redisErrors
        /\ admitted' = IF window + cost <= RedisLimit THEN admitted + cost ELSE admitted
    BY <1>8 DEF RedisAllowN
  <2>2. RateTypes'  BY <1>1, <1>2, <2>1, RateNumbers DEF RateInv, RateTypes
  <2>3. admitted' <= x + Smaller(window', RedisLimit) + y
    BY <1>2, <1>3, <1>7, <2>1, RateNumbers DEF Smaller
  <2>4. RedisBound'  BY <1>1, <1>5, <1>6, <2>1, <2>3 DEF RedisBound, RedisLimit, Larger
  <2>5. QED  BY <1>4, <2>2, <2>4 DEF RateInv
<1>9. CASE RedisFails(c, cost)
  <2>1. window' = window /\ redisErrors' = redisErrors + 1 /\ admitted' = admitted + cost
    BY <1>9 DEF RedisFails
  <2>2. RateTypes'  BY <1>1, <1>2, <2>1, RateNumbers DEF RateInv, RateTypes
  <2>3. redisErrors' * MaxCost = y + MaxCost  BY <1>6, <2>1, RateNumbers
  <2>4. Smaller(window, RedisLimit) \in Int  BY <1>3, RateNumbers DEF Smaller
  <2>5. admitted' <= x + Smaller(window', RedisLimit) + redisErrors' * MaxCost
    BY <1>2, <1>7, <2>1, <2>3, <2>4, RateNumbers
  <2>6. RedisBound'  BY <1>1, <1>5, <2>5 DEF RedisBound, RedisLimit, Larger
  <2>7. QED  BY <1>4, <2>2, <2>6 DEF RateInv
<1>10. QED  BY <1>8, <1>9

\* A second later every reachable bucket has gained the rate, and no bucket but
\* the one in the map is reachable.
LEMMA RateTickKeeps == ASSUME RateInv, RateTick PROVE RateInv'
<1>1. /\ second < LastSecond /\ second' = second + 1 /\ window' = 0
      /\ UNCHANGED <<backend, current, rateCall, admitted, orphans, redisErrors, sweeping>>
      /\ bucket' = [b \in Buckets |-> IF Reachable(b)
                     THEN [bucket[b] EXCEPT !.tokens = Smaller(Burst, @ + Rate)] ELSE NoBucket]
  BY DEF RateTick
<1>2. /\ current \in Buckets \cup {NoOne} /\ current \notin orphans /\ orphans \subseteq Buckets
      /\ NoOne \notin Buckets /\ bucket \in [Buckets -> BucketObjects]
      /\ (backend = "redis" => orphans = {} /\ current = NoOne)
      /\ backend \in {"memory", "redis"}
  BY RateAssumption DEF RateInv, RateTypes, HoldersInv
<1>3. \A c \in Callers : rateCall[c].pc = "idle" /\ rateCall[c].bucket = NoOne
  BY RateCallOf DEF RateTick, RateFree, HolderOK
<1>4. \A b \in Buckets : Reachable(b) <=> b = current  BY <1>2, <1>3 DEF Reachable
<1>5. ASSUME NEW b \in Buckets
      PROVE  /\ bucket'[b] \in BucketObjects
             /\ b # current => bucket'[b].tokens = 0
             /\ b = current =>
                  /\ bucket'[b].touched = bucket[b].touched
                  /\ bucket'[b].tokens = Smaller(Burst, bucket[b].tokens + Rate)
  <2>1. bucket'[b] = IF b = current
                     THEN [bucket[b] EXCEPT !.tokens = Smaller(Burst, bucket[b].tokens + Rate)]
                     ELSE NoBucket
    BY <1>1, <1>4
  <2>2. bucket[b] \in BucketObjects  BY <1>2
  <2>3. Smaller(Burst, bucket[b].tokens + Rate) \in 0 .. Burst
    BY <2>2, RateAssumption DEF Smaller, BucketObjects
  <2>4. NoBucket \in BucketObjects /\ NoBucket.tokens = 0
    BY RateAssumption DEF NoBucket, BucketObjects
  <2>5. QED  BY <2>1, <2>2, <2>3, <2>4 DEF BucketObjects
<1>6. bucket' \in [Buckets -> BucketObjects]  BY <1>1, <1>5
<1>7. second \in Nat /\ second' \in 0 .. LastSecond /\ second' \in Nat
  BY <1>1, RateNumbers, RateAssumption
<1>8. RateTypes'  BY <1>1, <1>6, <1>7 DEF RateInv, RateTypes
<1>9. HoldersInv'
  <2>1. ASSUME NEW d \in Callers PROVE HolderOK(rateCall[d])'  BY <1>1, <1>3 DEF HolderOK
  <2>2. sweeping' => current' # NoOne  BY <1>1 DEF RateInv, HoldersInv
  <2>3. QED  BY <1>1, <1>2, <2>1, <2>2 DEF HoldersInv
<1>10. RefillInv'
  <2> SUFFICES ASSUME current # NoOne
               PROVE  Refilled(bucket'[current].tokens, bucket'[current].touched, second')
    BY <1>1 DEF RefillInv
  <2>1. PICK t \in 0 .. Burst, at \in Nat : t = bucket[current].tokens /\ at = bucket[current].touched
    BY <1>2, RateAssumption DEF BucketObjects
  <2>2. Refilled(t, at, second)  BY <2>1 DEF RateInv, RefillInv
  <2>3. bucket'[current].tokens = Smaller(Burst, t + Rate) /\ bucket'[current].touched = at
    BY <1>2, <1>5, <2>1
  <2>4. Burst \in Nat /\ Rate \in Nat /\ t \in Nat /\ t <= Burst  BY <2>1, RateAssumption
  <2>5. CASE at = 0
    <3>1. t = Burst  BY <2>2, <2>5 DEF Refilled
    <3>2. Smaller(Burst, t + Rate) = Burst  BY <2>4, <3>1 DEF Smaller
    <3>3. QED  BY <2>3, <2>5, <3>2 DEF Refilled
  <2>6. CASE at > 0
    <3>1. PICK k \in Nat : k = second + 1 - at  BY <1>7, <2>1, <2>2, <2>6 DEF Refilled
    <3>2. t = Burst \/ t >= Rate * k  BY <2>2, <2>6, <3>1 DEF Refilled
    <3>3. second' + 1 - at = k + 1 /\ at <= second' + 1
      BY <1>1, <1>7, <2>1, <3>1
    <3>4. PICK x \in Int : x = Rate * k  BY <2>4
    <3>5. Rate * (k + 1) = x + Rate  BY <2>4, <3>4
    <3>6. Smaller(Burst, t + Rate) = Burst \/ Smaller(Burst, t + Rate) >= x + Rate
      BY <2>4, <3>2, <3>4 DEF Smaller
    <3>7. QED  BY <2>3, <2>6, <3>3, <3>5, <3>6 DEF Refilled
  <2>7. QED  BY <2>1, <2>5, <2>6
<1>11. MemoryBound'
  <2> SUFFICES ASSUME backend = "memory", Refills
               PROVE  admitted + InMap(current, bucket') + Cardinality(Purse(orphans, bucket'))
                        <= Burst * (1 + Cardinality(orphans)) + Rate * second'
    BY <1>1 DEF MemoryBound
  <2>1. \A b \in orphans : bucket'[b].tokens = 0  BY <1>2, <1>5
  <2>2. Cardinality(Purse(orphans, bucket')) = 0  BY <2>1, PurseEmpty
  <2>3. InMap(current, bucket') \in Int
        /\ InMap(current, bucket') <= InMap(current, bucket) + Rate
    <3>1. CASE current = NoOne  BY <3>1, RateNumbers DEF InMap
    <3>2. CASE current # NoOne
      <4>1. PICK t \in 0 .. Burst : t = bucket[current].tokens
        BY <1>2, <3>2 DEF BucketObjects
      <4>2. InMap(current, bucket') = Smaller(Burst, t + Rate) /\ InMap(current, bucket) = t
        BY <1>2, <1>5, <3>2, <4>1 DEF InMap
      <4>3. QED  BY <4>2, RateAssumption DEF Smaller
    <3>3. QED  BY <3>1, <3>2
  <2>4. PICK x \in Int : x = Burst * (1 + Cardinality(orphans))  BY RateNumbers
  <2>5. PICK y \in Int : y = Rate * second  BY RateNumbers
  <2>6. Rate * second' = y + Rate  BY <1>1, <1>7, <2>5, RateNumbers
  <2>7. admitted + InMap(current, bucket) + Cardinality(Purse(orphans, bucket)) <= x + y
    BY <2>4, <2>5 DEF RateInv, MemoryBound
  <2>8. admitted + InMap(current, bucket') + 0 <= x + (y + Rate)
    BY <2>3, <2>7, RateNumbers
  <2>9. QED  BY <2>2, <2>4, <2>6, <2>8
<1>12. RedisBound'
  <2> SUFFICES ASSUME backend = "redis"
               PROVE  admitted <= RedisLimit * second' + Smaller(window', RedisLimit)
                                    + redisErrors * MaxCost
    BY <1>1 DEF RedisBound, RedisLimit, Larger
  <2>1. PICK l \in Nat : l = RedisLimit  BY RateAssumption DEF RedisLimit, Larger
  <2>2. PICK x \in Int : x = l * second  BY <2>1, RateNumbers
  <2>3. PICK y \in Int : y = redisErrors * MaxCost  BY RateNumbers
  <2>4. admitted <= x + Smaller(window, l) + y
    BY <2>1, <2>2, <2>3 DEF RateInv, RedisBound
  <2>5. l * second' = x + l  BY <1>1, <1>7, <2>1, <2>2
  <2>6. Smaller(window', l) = 0  BY <1>1, <2>1 DEF Smaller
  <2>7. admitted <= (x + l) + 0 + y  BY <2>1, <2>4, RateNumbers DEF Smaller
  <2>8. QED  BY <2>1, <2>3, <2>5, <2>6, <2>7
<1>13. QED  BY <1>8, <1>9, <1>10, <1>11, <1>12 DEF RateInv

\* A limiter without buckets satisfies the invariant.
LEMMA RateInitInv == RateInit => RateInv
<1> SUFFICES ASSUME RateInit PROVE RateInv  OBVIOUS
<1>1. NoBucket \in BucketObjects  BY RateAssumption DEF NoBucket, BucketObjects
<1>2. rateCall \in [Callers -> RateCalls] /\ \A c \in Callers : rateCall[c] = RateIdle
  BY RateIdleIs DEF RateInit
<1>3. RateTypes
  <2>1. sweeping \in BOOLEAN  BY DEF RateInit
  <2>2. QED  BY <1>1, <1>2, <2>1, FS_EmptySet, RateAssumption DEF RateInit, RateTypes
<1>4. HoldersInv  BY <1>2, RateIdleIs DEF RateInit, HoldersInv, HolderOK
<1>5. RefillInv  BY DEF RateInit, RefillInv
<1>6. MemoryBound
  <2>1. Cardinality(Purse({}, bucket)) = 0  BY PurseEmpty
  <2>2. Cardinality({}) = 0  BY FS_EmptySet
  <2>3. 0 + Burst + 0 <= Burst * (1 + 0) + Rate * 0  BY RateAssumption
  <2>4. QED  BY <2>1, <2>2, <2>3 DEF RateInit, MemoryBound, InMap
<1>7. RedisBound
  <2>1. PICK l \in Nat : l = RedisLimit  BY RateAssumption DEF RedisLimit, Larger
  <2>2. 0 <= l * 0 + Smaller(0, l) + 0 * MaxCost  BY <2>1, RateAssumption DEF Smaller
  <2>3. QED  BY <2>1, <2>2 DEF RateInit, RedisBound
<1>8. QED  BY <1>3, <1>4, <1>5, <1>6, <1>7 DEF RateInv

\* Every step of RateLimit preserves the invariant.
LEMMA RateNextKeeps == RateInv /\ [RateNext]_rateVars => RateInv'
<1> SUFFICES ASSUME RateInv, [RateNext]_rateVars PROVE RateInv'  OBVIOUS
<1>1. ASSUME NEW c \in Callers, NEW cost \in EventCosts,
             GetOrCreateBucket(c, cost) \/ RedisAllowN(c, cost) \/ RedisFails(c, cost)
      PROVE  RateInv'
  BY <1>1, GetOrCreateBucketKeeps, RedisKeeps
<1>2. ASSUME NEW c \in Callers, Touch(c) \/ AllowN(c) PROVE RateInv'
  BY <1>2, TouchKeeps, AllowNKeeps
<1>3. CASE FindIdle \/ Delete  BY <1>3, FindIdleKeeps, DeleteKeeps
<1>4. CASE RateTick  BY <1>4, RateTickKeeps
<1>5. CASE UNCHANGED rateVars
  <2>1. RateTypes' /\ HoldersInv' /\ RefillInv'
    BY <1>5 DEF rateVars, RateInv, RateTypes, HoldersInv, HolderOK, RefillInv, Refilled
  <2>2. MemoryBound' /\ RedisBound'
    BY <1>5 DEF rateVars, RateInv, MemoryBound, RedisBound, RedisLimit, Larger
  <2>3. QED  BY <2>1, <2>2 DEF RateInv
<1>6. QED  BY <1>1, <1>2, <1>3, <1>4, <1>5 DEF RateNext

\* For any burst, rate, number of requests and rounds of the sweeper: in memory an
\* identity is admitted at most one burst and the steady rate since the start, with
\* one more burst for every bucket deleted in use, provided the time to live refills
\* a bucket; and with Redis, whose count starts again every second, at most one limit
\* in every second and the requests that its failures let through.
THEOREM RateIsKept == RateSpec => []RateBounded
<1>1. RateInit => RateInv  BY RateInitInv
<1>2. RateInv /\ [RateNext]_rateVars => RateInv'  BY RateNextKeeps
<1>3. RateInv => RateBounded
  <2> SUFFICES ASSUME RateInv PROVE RateBounded  OBVIOUS
  <2>1. RateTypeOK
    <3>1. \A c \in Callers : rateCall[c].pc # "idle" => rateCall[c].bucket \in Buckets
      BY RateCallOf
    <3>2. QED  BY <3>1 DEF RateInv, RateTypes, BucketObjects, RateTypeOK
  <2>2. CASE backend = "memory"
    <3>1. PICK x \in Int : x = Burst * (1 + Cardinality(orphans)) + Rate * second
      BY RateNumbers
    <3>2. Refills =>
            admitted + InMap(current, bucket) + Cardinality(Purse(orphans, bucket)) <= x
      BY <2>2, <3>1 DEF RateInv, MemoryBound
    <3>3. Refills => admitted <= x  BY <3>2, RateNumbers
    <3>4. QED  BY <2>1, <2>2, <3>1, <3>3 DEF RateBounded
  <2>3. CASE backend # "memory"
    <3>1. PICK l \in Nat : l = RedisLimit  BY RateAssumption DEF RedisLimit, Larger
    <3>2. PICK x \in Int : x = l * second  BY <3>1, RateNumbers
    <3>3. PICK y \in Int : y = redisErrors * MaxCost  BY RateNumbers
    <3>4. backend = "redis"  BY <2>3 DEF RateInv, RateTypes
    <3>5. admitted <= x + Smaller(window, l) + y
      BY <3>1, <3>2, <3>3, <3>4 DEF RateInv, RedisBound
    <3>6. admitted <= (x + l) + y  BY <3>1, <3>5, RateNumbers DEF Smaller
    <3>7. l * (second + 1) = x + l  BY <3>1, <3>2, RateNumbers
    <3>8. admitted <= RedisLimit * (second + 1) + redisErrors * MaxCost
      BY <3>1, <3>3, <3>6, <3>7
    <3>9. QED  BY <2>1, <2>3, <3>8 DEF RateBounded
  <2>4. QED  BY <2>2, <2>3
<1>4. QED  BY <1>1, <1>2, <1>3, PTL DEF RateSpec

=============================================================================
