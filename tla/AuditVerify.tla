----------------------------- MODULE AuditVerify -----------------------------
(***************************************************************************)
(* Verification of the audit chain while it is being written:              *)
(* audit.Service.Verify, VerifyDeep and VerifyOne over AuditStore.Walk,    *)
(* Get and Previous, composed with the writers of AuditChain.              *)
(*                                                                         *)
(* A verification is not one transaction.  Walk reads the window page by   *)
(* page and, for each row of a page, Previous runs a query of its own; all *)
(* of them go to the read pool, whose database may be a replica that lags  *)
(* behind the primary (readRows).  Walk keeps its connection until the     *)
(* page is exhausted, so Previous needs a second one from the same pool.   *)
(*                                                                         *)
(* Tamper is the environment: someone with access to the database itself   *)
(* bypasses the append-only triggers and changes or removes one row.       *)
(***************************************************************************)
EXTENDS AuditChain

CONSTANTS
  Verifiers,    \* concurrent verification requests
  Windows,      \* the [from, to] ranges asked for
  Modes,        \* subset of {"first", "deep", "one"}
  PageSize,     \* rows per page of Walk
  PoolSize,     \* connections of the read pool
  MaxTampers    \* how often the environment may tamper: 0 or 1

ASSUME PageAssumption == PageSize \in Nat \ {0} /\ PoolSize \in Nat
ASSUME WindowAssumption == \A win \in Windows : DOMAIN win = {"from", "to"}
ASSUME TamperAssumption == MaxTampers \in {0, 1}
ASSUME TimesAssumption == Times \subseteq Int

VARIABLES
  readRows,     \* audit_events as the read pool's database shows it
  ver,          \* the state of each verification
  tamper,       \* what the environment did, or None
  tamperSeen    \* whether the read database shows it

vvars == <<readRows, ver, tamper, tamperSeen>>

allVars == <<vars, vvars>>

Idle == [pc |-> "idle"]

-----------------------------------------------------------------------------
InWindow(r, win) == win.from <= r.ts /\ r.ts <= win.to

\* The rows the next page query of Walk selects from.
Remaining(z) ==
  {r \in RowsOf(readRows, z.tenant) : InWindow(r, z.win) /\ r.seq > z.lastSeq}

\* ORDER BY sequence_number ASC LIMIT pageSize
Page(S) == {r \in S : Cardinality(Below(S, r.seq)) < PageSize}

First(S) == CHOOSE r \in S : \A q \in S : r.seq <= q.seq

\* Mutant: the predecessor is looked up at the sequence number below.
ExpectedPrevAdjacent(S, e) ==
  LastHash({q \in S : q.seq = e.seq - 1})

\* The hash of Previous(e), the row before e in the whole chain and not in
\* the window.  (Its two queries see the same row e, which never moves.)
ExpectedPrev(S, e) == LastHash(Below(S, e.seq))

\* Mutant: the links are compared, the digests are not recomputed.
BrokenReasonLinksOnly(S, e, mode) ==
  IF ExpectedPrev(S, e) # e.prev THEN "prev_hash" ELSE "none"

\* All modes make both comparisons; if both fail, Verify and VerifyOne name
\* the link, VerifyDeep the digest.
BrokenReason(S, e, mode) ==
  LET linked == ExpectedPrev(S, e) = e.prev
      digest == ComputeHash(e) = e.hash
  IN  CASE linked /\ digest -> "none"
        [] ~linked /\ (digest \/ mode # "deep") -> "prev_hash"
        [] OTHER -> "hash"

Holding(v) == ver[v].pc = "scan"

FreeConn == Cardinality({v \in Verifiers : Holding(v)}) < PoolSize

-----------------------------------------------------------------------------
VInit ==
  /\ Init
  /\ readRows = {}
  /\ ver = [v \in Verifiers |-> Idle]
  /\ tamper = None
  /\ tamperSeen = FALSE

\* Verify or VerifyDeep is called.  visible and after are history: the rows
\* in the window now, and whether tampering can be seen already.
StartVerify(v, t, mode, win) ==
  /\ ver[v].pc = "idle"
  /\ mode # "one"
  /\ ver' = [ver EXCEPT ![v] =
       [pc |-> "query", tenant |-> t, mode |-> mode, win |-> win,
        lastSeq |-> -1, page |-> {}, chunk |-> 0, count |-> 0,
        valid |-> TRUE, broken |-> <<>>, root |-> GenesisHash,
        visible |-> {r.seq : r \in {q \in RowsOf(readRows, t) :
                                       InWindow(q, win)}},
        after |-> tamperSeen]]
  /\ UNCHANGED <<vars, readRows, tamper, tamperSeen>>

\* Walk runs the query of its next page and keeps the connection.
QueryPage(v) ==
  /\ ver[v].pc = "query"
  /\ FreeConn
  /\ ver' = [ver EXCEPT ![v].pc = "scan", ![v].chunk = 0,
                        ![v].page = Page(Remaining(ver[v]))]
  /\ UNCHANGED <<vars, readRows, tamper, tamperSeen>>

\* Walk's bookkeeping after the callback returned nil for row e.
Advance(z, e) ==
  [z EXCEPT !.page = @ \ {e}, !.lastSeq = e.seq, !.chunk = @ + 1,
            !.count = @ + 1]

\* Verify has found a broken row and checks no more.
Skipping(v) == ver[v].mode = "first" /\ ~ver[v].valid

\* The callback of Verify ignores the rows after the first broken one.
SkipRow(v) ==
  /\ ver[v].pc = "scan"
  /\ ver[v].page # {}
  /\ Skipping(v)
  /\ ver' = [ver EXCEPT ![v] = Advance(@, First(@.page))]
  /\ UNCHANGED <<vars, readRows, tamper, tamperSeen>>

IsStored(e) == \E q \in RowsOf(readRows, e.tenant) : q.id = e.id

\* The verdict on row e, recorded: Verify and VerifyDeep differ only in that
\* Verify looks no further, which SkipRow models.
Record(z, e, reason) ==
  IF reason = "none" THEN [z EXCEPT !.root = e.hash]
  ELSE [z EXCEPT !.valid = FALSE,
                 !.broken = Append(@, [id |-> e.id, reason |-> reason])]

\* The callback of Verify or VerifyDeep: Previous on a second connection,
\* then both comparisons.
CheckRow(v) ==
  /\ ver[v].pc = "scan"
  /\ ver[v].page # {}
  /\ ~Skipping(v)
  /\ FreeConn
  /\ LET e == First(ver[v].page)
         S == RowsOf(readRows, ver[v].tenant)
     IN  /\ IsStored(e)
         /\ ver' = [ver EXCEPT ![v] =
                      Advance(Record(@, e, BrokenReason(S, e, @.mode)), e)]
  /\ UNCHANGED <<vars, readRows, tamper, tamperSeen>>

\* Previous finds the row gone: the verification ends with an error.
PreviousNotFound(v) ==
  /\ \/ ver[v].pc = "scan" /\ ~Skipping(v)
     \/ ver[v].pc = "one"
  /\ ver[v].page # {}
  /\ FreeConn
  /\ ~IsStored(First(ver[v].page))
  /\ ver' = [ver EXCEPT ![v] = Idle]
  /\ UNCHANGED <<vars, readRows, tamper, tamperSeen>>

\* Mutant: a full page ends the walk.
EndPageFull(v) ==
  /\ ver[v].pc = "scan"
  /\ ver[v].page = {}
  /\ ver' = [ver EXCEPT ![v].pc =
               IF ver[v].chunk <= PageSize THEN "done" ELSE "query"]
  /\ UNCHANGED <<vars, readRows, tamper, tamperSeen>>

\* The page is exhausted: its connection goes back, and a full page means
\* that there may be another one.
EndPage(v) ==
  /\ ver[v].pc = "scan"
  /\ ver[v].page = {}
  /\ ver' = [ver EXCEPT ![v].pc =
               IF ver[v].chunk < PageSize THEN "done" ELSE "query"]
  /\ UNCHANGED <<vars, readRows, tamper, tamperSeen>>

\* VerifyOne: Get, then Previous, each with a connection of its own.
StartVerifyOne(v, r) ==
  /\ ver[v].pc = "idle"
  /\ FreeConn
  /\ ver' = [ver EXCEPT ![v] =
       [pc |-> "one", tenant |-> r.tenant, mode |-> "one",
        win |-> [from |-> r.ts, to |-> r.ts], lastSeq |-> -1, page |-> {r},
        chunk |-> 0, count |-> 0, valid |-> TRUE, broken |-> <<>>,
        root |-> r.hash, visible |-> {}, after |-> tamperSeen]]
  /\ UNCHANGED <<vars, readRows, tamper, tamperSeen>>

\* VerifyOne's two comparisons.
CheckOne(v) ==
  /\ ver[v].pc = "one"
  /\ FreeConn
  /\ LET e == First(ver[v].page)
         S == RowsOf(readRows, ver[v].tenant)
     IN  /\ IsStored(e)
         /\ ver' = [ver EXCEPT ![v] =
              [Advance(Record(@, e, BrokenReason(S, e, "one")), e)
                 EXCEPT !.pc = "done"]]
  /\ UNCHANGED <<vars, readRows, tamper, tamperSeen>>

\* The result has been returned, or the client gave up before.
EndVerify(v) ==
  /\ ver[v].pc # "idle"
  /\ ver' = [ver EXCEPT ![v] = Idle]
  /\ UNCHANGED <<vars, readRows, tamper, tamperSeen>>

-----------------------------------------------------------------------------
(* The database *)

\* The read database has applied every commit so far.
Replicate ==
  /\ readRows # rows
  /\ readRows' = rows
  /\ tamperSeen' = (tamper # None)
  /\ UNCHANGED <<vars, ver, tamper>>

TamperKinds == {"edit", "rehash", "garble", "delete"}

\* The record of what the environment did can be told from None.
ASSUME NoneAssumption ==
  \A k \in TamperKinds, i \in EventIDs, t \in Tenants, h \in BOOLEAN :
    None # [kind |-> k, id |-> i, tenant |-> t, hidden |-> h]

HasSuccessor(r) == \E q \in RowsOf(rows, r.tenant) : q.seq > r.seq

\* One row is changed in place, changed and given the digest of its new
\* content or a digest of nothing, or removed.
TamperedRow(r, kind, d) ==
  LET edited == [r EXCEPT !.data = d]
  IN  CASE kind = "edit"   -> {edited}
        [] kind = "rehash" -> {[edited EXCEPT !.hash = ComputeHash(edited)]}
        [] kind = "garble" -> {[edited EXCEPT !.hash = <<>>]}
        [] kind = "delete" -> {}

Tamper(r, kind, d) ==
  /\ tamper = None /\ MaxTampers > 0
  /\ d # r.data
  /\ rows' = (rows \ {r}) \cup TamperedRow(r, kind, d)
  /\ tamper' = [kind |-> kind, id |-> r.id, tenant |-> r.tenant,
                hidden |-> kind \in {"rehash", "delete"} /\ ~HasSuccessor(r)]
  /\ UNCHANGED <<nextSeq, lock, pc, tenant, batch, todo, prevHash, existing,
                 toInsert, inserted, acked, readRows, ver, tamperSeen>>

-----------------------------------------------------------------------------
VerifyStep(v) ==
  \/ QueryPage(v) \/ SkipRow(v) \/ CheckRow(v) \/ PreviousNotFound(v)
  \/ EndPage(v) \/ CheckOne(v)

Start(v) ==
  \/ \E t \in Tenants, mode \in Modes, win \in Windows :
        StartVerify(v, t, mode, win)
  \/ /\ "one" \in Modes
     /\ \E r \in readRows : StartVerifyOne(v, r)

VNext ==
  \/ Next /\ UNCHANGED vvars
  \/ \E v \in Verifiers : Start(v) \/ VerifyStep(v) \/ EndVerify(v)
  \/ Replicate
  \/ \E r \in rows, kind \in TamperKinds, d \in ValidData : Tamper(r, kind, d)

VSpec == VInit /\ [][VNext]_allVars

\* A verification runs on as long as the pool serves it, and waiters of the
\* pool are served in turn (SF).  Nothing obliges a client to give up.
VFairSpec ==
  VSpec /\ \A v \in Verifiers : SF_allVars(VerifyStep(v))

-----------------------------------------------------------------------------
(* Properties *)

\* A verification in progress or finished keeps a page of at most PageSize
\* rows of its own tenant and window.
VTypeOK ==
  /\ TypeOK
  /\ \A v \in Verifiers : ver[v].pc # "idle" =>
       /\ Cardinality(ver[v].page) <= PageSize
       /\ \A r \in ver[v].page :
            r.tenant = ver[v].tenant /\ InWindow(r, ver[v].win)
                                     /\ r.seq > ver[v].lastSeq

\* Verify, VerifyDeep and VerifyOne never report a break in a chain nobody
\* tampered with, although rows are appended, aborted and replicated while
\* they run and the window cuts rows with late timestamps out of the chain.
NoFalseAlarm ==
  tamper = None => \A v \in Verifiers : ver[v].pc # "idle" => ver[v].valid

Finished(v) == ver[v].pc = "done" /\ ver[v].mode # "one"

\* The read database is, with respect to tampering, what it was at the start.
Undisturbed(v) == ver[v].after = tamperSeen

Walked(v) == {r \in RowsOf(readRows, ver[v].tenant) :
                 InWindow(r, ver[v].win) /\ r.seq <= ver[v].lastSeq}

\* The declarative verdict: the rows whose link or digest is wrong.
IsBroken(r) ==
  \/ r.hash # ComputeHash(r)
  \/ ~IsHead(Below(RowsOf(readRows, r.tenant), r.seq), r.prev)

BrokenIDs(v) == {r.id : r \in {q \in Walked(v) : IsBroken(q)}}

ReportedIDs(v) == {ver[v].broken[i].id : i \in DOMAIN ver[v].broken}

\* VerifyDeep, paged and interleaved with appends, lists exactly the rows
\* that a check of the whole table at once finds broken.
DeepIsExact ==
  \A v \in Verifiers :
    Finished(v) /\ ver[v].mode = "deep" /\ Undisturbed(v) =>
      ReportedIDs(v) = BrokenIDs(v)

\* Verify names the broken row with the lowest sequence number.
FirstIsFirst ==
  \A v \in Verifiers :
    Finished(v) /\ ver[v].mode = "first" /\ Undisturbed(v) =>
      /\ ver[v].valid <=> BrokenIDs(v) = {}
      /\ ~ver[v].valid =>
           LET bad == {r \in Walked(v) : r.id \in BrokenIDs(v)}
           IN  ReportedIDs(v) = {First(bad).id}

\* What the verifications of service.go say is true: no false alarm, all the
\* broken rows in VerifyDeep's report and the first one in Verify's.
ReportsAreExact == VTypeOK /\ NoFalseAlarm /\ DeepIsExact /\ FirstIsFirst

\* Walk visits, once each, every row of the window that was visible when the
\* verification started, whatever the page boundaries and later appends.
WalkIsComplete ==
  \A v \in Verifiers :
    Finished(v) /\ Undisturbed(v) =>
      /\ ver[v].count = Cardinality(Walked(v))
      /\ \A n \in ver[v].visible : n <= ver[v].lastSeq

\* docs/concepts/audit-vs-telemetry.mdx: "SHA-256 links detect changes relative
\* to the stored chain".  A full verification that can see the tampering fails,
\* unless the row was the last of its chain and its digest was replaced too.
TamperIsReported ==
  \A v \in Verifiers :
    /\ Finished(v) /\ ver[v].after
    /\ ver[v].tenant = tamper.tenant /\ ~tamper.hidden
    /\ \A x \in Times : ver[v].win.from <= x /\ x <= ver[v].win.to
    => ~ver[v].valid

\* Verify returns: with fewer verifications than read connections none of
\* them waits for ever for the second connection that Previous needs.
VerifyReturns ==
  \A v \in Verifiers : ver[v].pc = "query" ~> ver[v].pc \in {"done", "idle"}

=============================================================================
