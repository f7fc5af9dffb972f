------------------------------ MODULE ShareLinks ------------------------------
(***************************************************************************)
(* Share links of one tenant on the free plan: creation behind the free    *)
(* tier's limit, revocation and expiry, access by whoever holds the token, *)
(* the reads such an access may do, and the export allowance that shared   *)
(* and other exports draw on.  Audit events are their timestamps; 0 is the *)
(* zero time of an absent bound.                                           *)
(***************************************************************************)
EXTENDS Requests, Naturals, FiniteSets

CONSTANTS
  Links,         \* share link ids
  Stamps,        \* timestamps of the tenant's audit events
  Windows,       \* the filter_from and filter_to a link is created with
  Ranges,        \* the from and to that requests ask for
  ExportLimit,   \* maxExports of the plan
  LinkLife,      \* expires_in
  LastDay,       \* bound on the clock
  MaxBlindChecks \* bound on limit checks that could not count

ASSUME ShareAssumption ==
  /\ Stamps \subseteq Nat \ {0} /\ ExportLimit \in Nat /\ LinkLife \in Nat /\ LastDay \in Nat
  /\ MaxBlindChecks \in Nat /\ IsFiniteSet(Callers) /\ Callers # {}
  /\ NoOne \notin Links
  /\ Windows \cup Ranges \subseteq [from : Stamps \cup {0}, to : Stamps \cup {0}]

VARIABLES
  day,
  links,      \* the share_links table
  shareCall,  \* the request each caller is in
  ended,      \* when each link was revoked
  exports,    \* successful audit.export events of the last 30 days
  unseen,     \* history: exports that the check which last counted enough room did
              \* not see, because its read pool lagged
  blind,      \* history: export limit checks that failed and let the request pass
  blindLinks  \* history: link limit checks that failed and let the request pass

shareVars == <<day, links, shareCall, ended, exports, unseen, blind, blindLinks>>
limitVars == <<exports, unseen, blind, blindLinks>>

AtNoTime == LastDay + LinkLife + 1
NoLink == [made |-> FALSE, from |-> 0, to |-> 0, expires |-> 0, revoked |-> FALSE]
ShareIdle == [pc |-> "idle", link |-> NoOne, start |-> 0, events |-> {}]

ShareInit ==
  /\ day = 0 /\ links = [l \in Links |-> NoLink]
  /\ shareCall = [c \in Callers |-> ShareIdle]
  /\ ended = [l \in Links |-> AtNoTime]
  /\ exports = 0 /\ unseen = 0 /\ blind = 0 /\ blindLinks = 0

ShareFree(c) == shareCall[c].pc = "idle"
ShareBecomes(c, r) == shareCall' = [shareCall EXCEPT ![c] = r]
ShareFinish(c) == ShareBecomes(c, ShareIdle)

\* Link.Valid
Valid(l, now) == l.made /\ ~l.revoked /\ now < l.expires

ActiveLinks == {l \in Links : Valid(links[l], day)}

(***************************************************************************)
(* The dashboard.                                                          *)
(***************************************************************************)

RoomForLink == Cardinality(ActiveLinks) < 1

\* createLink up to the insert: the plan is free, so active links are counted; a
\* list that fails passes.
CreateLink(c) ==
  /\ ShareFree(c)
  /\ \/ RoomForLink /\ UNCHANGED blindLinks
     \/ blindLinks < MaxBlindChecks /\ blindLinks' = blindLinks + 1
  /\ ShareBecomes(c, [ShareIdle EXCEPT !.pc = "insert"])
  /\ UNCHANGED <<day, links, ended, exports, unseen, blind>>

InsertLink(c, w) ==
  /\ shareCall[c].pc = "insert"
  /\ \E l \in Links :
       /\ ~links[l].made
       /\ links' = [links EXCEPT ![l] = [NoLink EXCEPT !.made = TRUE, !.from = w.from, !.to = w.to,
                                                       !.expires = day + LinkLife]]
  /\ ShareFinish(c)
  /\ UNCHANGED <<day, ended, limitVars>>

RevokeLink(l) ==
  /\ links[l].made /\ ~links[l].revoked
  /\ links' = [links EXCEPT ![l].revoked = TRUE]
  /\ ended' = [ended EXCEPT ![l] = day]
  /\ UNCHANGED <<day, shareCall, limitVars>>

(***************************************************************************)
(* ShareAuth: look the link up, compare the secret, check that the link is *)
(* valid, count the access, serve.                                         *)
(***************************************************************************)

PresentShareToken(c, l) ==
  /\ ShareFree(c) /\ Valid(links[l], day)
  /\ ShareBecomes(c, [ShareIdle EXCEPT !.pc = "record", !.link = l, !.start = day])
  /\ UNCHANGED <<day, links, ended, limitVars>>

\* The handler uses the row it has read; a link's bounds never change.  The update
\* of access_count may find the link ended, or fail: the request is served.
RecordAccess(c) ==
  /\ shareCall[c].pc = "record"
  /\ ShareBecomes(c, [shareCall[c] EXCEPT !.pc = "serve"])
  /\ UNCHANGED <<day, links, ended, limitVars>>

\* MergeShareRange; applyShareListFilter is the same text.  A request that
\* carries no share token keeps the range it asks for.
MergeFrom(row, from) == IF row.from # 0 /\ (from = 0 \/ row.from > from) THEN row.from ELSE from

\* Mutant: an absent bound of the request is taken for a bound.
MergeToBefore(row, to) == IF row.to # 0 /\ row.to < to THEN row.to ELSE to

MergeTo(row, to) == IF row.to # 0 /\ (to = 0 \/ row.to < to) THEN row.to ELSE to

Row(c) == IF shareCall[c].link = NoOne THEN NoLink ELSE links[shareCall[c].link]

\* buildAuditFilter and Walk: both bounds are inclusive, a zero bound is none.
InRange(from, to) ==
  {e \in Stamps : (from # 0 => e >= from) /\ (to # 0 => e <= to)}

\* What is read for the range a request asks for.
Selected(c, from, to) == InRange(MergeFrom(Row(c), from), MergeTo(Row(c), to))

Respond(c, pc, events) ==
  ShareBecomes(c, [shareCall[c] EXCEPT !.pc = pc, !.events = events])

ListEvents(c, from, to) ==
  /\ shareCall[c].pc = "serve"
  /\ Respond(c, "answered", Selected(c, from, to))
  /\ UNCHANGED <<day, links, ended, limitVars>>

\* The verdict is about the events of the range; first_broken_event_id names one.
Verify(c, from, to) ==
  /\ shareCall[c].pc = "serve"
  /\ Respond(c, "answered", Selected(c, from, to))
  /\ UNCHANGED <<day, links, ended, limitVars>>

\* getEvent compares the event's own timestamp with the link's bounds.
GetEvent(c, e) ==
  /\ shareCall[c].pc = "serve"
  /\ LET row == links[shareCall[c].link] IN
     ~(row.from # 0 /\ e < row.from) /\ ~(row.to # 0 /\ e > row.to)
  /\ Respond(c, "answered", {e})
  /\ UNCHANGED <<day, links, ended, limitVars>>

\* The response is written and the request ends.
Answered(c) ==
  /\ shareCall[c].pc = "answered"
  /\ ShareFinish(c)
  /\ UNCHANGED <<day, links, ended, limitVars>>

(***************************************************************************)
(* Exports, by the holder of a link or by the tenant: count the month's    *)
(* exports, produce the file, log the export.                              *)
(***************************************************************************)

MayExport(seen) == seen < ExportLimit

\* List counts what the read pool shows of the exports.  The check passes when the
\* plan or the count cannot be read.
CheckExportLimit(c, seen) ==
  /\ ShareFree(c) \/ shareCall[c].pc = "serve"
  /\ \/ MayExport(seen) /\ unseen' = exports - seen /\ UNCHANGED blind
     \/ blind < MaxBlindChecks /\ blind' = blind + 1 /\ UNCHANGED unseen
  /\ ShareBecomes(c, [shareCall[c] EXCEPT !.pc = "export"])
  /\ UNCHANGED <<day, links, ended, exports, blindLinks>>

\* The PDF is written as it is rendered; a failure is logged with an outcome
\* that nothing counts.
ExportPDF(c, from, to) ==
  /\ shareCall[c].pc = "export"
  /\ \E pc \in {"log", "answered"} : Respond(c, pc, Selected(c, from, to))
  /\ UNCHANGED <<day, links, ended, limitVars>>

\* Merges the range a second time; a failure is not logged.
ExportEvidencePack(c, from, to) ==
  /\ shareCall[c].pc = "export"
  /\ LET range == Selected(c, MergeFrom(Row(c), from), MergeTo(Row(c), to)) IN
     \E pc \in {"log", "answered"} : Respond(c, pc, range)
  /\ UNCHANGED <<day, links, ended, limitVars>>

\* The export is one more successful one, unless Log fails, which is ignored.
LogExportAudit(c) ==
  /\ shareCall[c].pc = "log"
  /\ exports' \in {exports, exports + 1}
  /\ ShareFinish(c)
  /\ UNCHANGED <<day, links, ended, unseen, blind, blindLinks>>

ShareTick ==
  /\ day < LastDay
  /\ day' = day + 1
  /\ UNCHANGED <<links, shareCall, ended, limitVars>>

ShareNext ==
  \/ \E c \in Callers :
       \/ CreateLink(c)
       \/ \E w \in Windows : InsertLink(c, w)
       \/ \E r \in Ranges :
            \/ ListEvents(c, r.from, r.to) \/ Verify(c, r.from, r.to)
            \/ ExportPDF(c, r.from, r.to) \/ ExportEvidencePack(c, r.from, r.to)
       \/ \E l \in Links : PresentShareToken(c, l)
       \/ RecordAccess(c)
       \/ \E e \in Stamps : GetEvent(c, e)
       \/ Answered(c)
       \/ \E seen \in 0..exports : CheckExportLimit(c, seen)
       \/ LogExportAudit(c)
  \/ \E l \in Links : RevokeLink(l)
  \/ ShareTick

ShareSpec == ShareInit /\ [][ShareNext]_shareVars

-----------------------------------------------------------------------------

\* Type correctness of the links and of the requests that use them.
ShareTypeOK ==
  /\ day \in 0..LastDay /\ exports \in Nat
  /\ links \in [Links -> [made : BOOLEAN, from : Stamps \cup {0}, to : Stamps \cup {0},
                          expires : 0..(LastDay + LinkLife), revoked : BOOLEAN]]
  /\ \A c \in Callers : shareCall[c].link \in Links \cup {NoOne}

\* share.go: a link is a window on the audit log.  Whatever range, including
\* none, the holder of a token asks for, and whichever shared route is used,
\* only events between the link's own bounds are served.
ShareStaysInside ==
  \A c \in Callers :
    \A e \in shareCall[c].events :
      LET row == Row(c) IN e >= row.from /\ (row.to = 0 \/ e <= row.to)

\* A revoked or expired link opens nothing: no access that began after the
\* link's end is served, however long the access takes.
EndedLinkStops ==
  \A c \in Callers : shareCall[c].pc \notin {"record", "serve"} /\ shareCall[c].link # NoOne =>
    /\ shareCall[c].start <= ended[shareCall[c].link]
    /\ shareCall[c].start < links[shareCall[c].link].expires

\* share_handler.go: "Free tier is limited to 1 active share link".  The count
\* and the insert are not atomic, and a failed count passes: there is at most one
\* active link per request in flight and one per check that could not count.
FreeLinksBounded == Cardinality(ActiveLinks) <= Cardinality(Callers) + blindLinks

\* checkExportLimit: the evidence exports of a month, shared ones included, are
\* exceeded by at most one for every other request in flight and for every check
\* that could not count, and by the exports that a lagging count did not see.
ExportsBounded == exports <= ExportLimit + Cardinality(Callers) - 1 + unseen + blind

\* Share links give no more than they grant: no event outside the window, nothing
\* after their end, no more links and exports than the plan has room for, up to
\* the requests in flight and what the counts missed.
ShareIsConfined ==
  /\ ShareTypeOK
  /\ ShareStaysInside /\ EndedLinkStops
  /\ FreeLinksBounded /\ ExportsBounded

=============================================================================
