-------------------------------- MODULE Quota --------------------------------
(***************************************************************************)
(* The monthly event quota of one tenant: the check before an append or an *)
(* enqueue, the threshold alerts, and the tenant settings in which the     *)
(* alerts are remembered beside what the dashboard edits.  The count, the  *)
(* notification and the append are separate statements; the count is read  *)
(* from the read pool, which may be a replica, the settings and the events *)
(* are written to the primary.                                             *)
(***************************************************************************)
EXTENDS Requests, Naturals, FiniteSets

CONSTANTS
  MonthlyLimit,   \* plan.MonthlyEventLimit
  MaxBatch,       \* largest batch
  LastMonth       \* bound on the calendar

ASSUME QuotaAssumption ==
  /\ MonthlyLimit \in Nat \ {0} /\ MaxBatch \in Nat \ {0} /\ LastMonth \in Nat
  /\ Callers # {} /\ IsFiniteSet(Callers)

VARIABLES
  calendar,    \* the current month
  stored,      \* events stored with a time in this month or later
  waiting,     \* events in the outbox
  settings,    \* tenants.settings: alert_email, quota_alert_month, quota_alert_level
  quotaCall,   \* the request each caller is in
  uncounted,   \* history: events stored or in the outbox that the check which last
               \* admitted a batch did not count, or that came after it unchecked
  announced,   \* history: months with a 100% alert
  emailOff     \* history: the alert email was off at some time

quotaVars == <<calendar, stored, waiting, settings, quotaCall, uncounted, announced, emailOff>>
quotaHistory == <<announced, emailOff>>
quotaEvents == <<stored, waiting, uncounted>>

NoMonth == LastMonth + 1
\* size is that of an admitted batch, 0 for one that exceeds the limit.
QuotaIdle == [pc |-> "idle", size |-> 0, level |-> 0, seen |-> [email |-> FALSE],
              label |-> NoMonth]

QuotaInit ==
  /\ calendar = 0 /\ stored = 0 /\ waiting = 0 /\ uncounted = 0
  /\ settings = [email |-> TRUE, month |-> NoMonth, level |-> 0]
  /\ quotaCall = [c \in Callers |-> QuotaIdle]
  /\ announced = {} /\ emailOff = FALSE

QuotaFree(c) == quotaCall[c].pc = "idle"
QuotaBecomes(c, r) == quotaCall' = [quotaCall EXCEPT ![c] = r]
QuotaFinish(c) == QuotaBecomes(c, QuotaIdle)

\* maybeNotifyQuota: the threshold that usage has reached, 0 for none.
Reached(used, percent) ==
  CASE MonthlyLimit = 30000 /\ percent = 83 -> used >= 25000
    [] MonthlyLimit = 30000 /\ percent = 66 -> used >= 20000
    [] OTHER -> used * 100 >= percent * MonthlyLimit

AlertLevel(used) ==
  LET levels == {0} \cup {p \in {66, 83, 100} : Reached(used, p)}
  IN  CHOOSE p \in levels : \A q \in levels : q <= p

Fits(used, size) == used + size <= MonthlyLimit

\* Where Check goes when it has no more to announce for this level: to the
\* append, to the refusal's alert, or, that done, to the refusal.
Checked(r) ==
  IF r.size > 0 THEN [QuotaIdle EXCEPT !.pc = "admit", !.size = r.size]
  ELSE IF r.pc # "exceeded" THEN [QuotaIdle EXCEPT !.pc = "exceeded", !.level = 100]
  ELSE [r EXCEPT !.pc = "refuse"]

\* CountEventsThisMonth counts what the read pool shows of the stored events; what
\* waits in the outbox is not among them.
Check(c, size, counted) ==
  /\ QuotaFree(c)
  /\ LET r == [QuotaIdle EXCEPT !.pc = "notify", !.level = AlertLevel(counted),
                                !.size = IF Fits(counted, size) THEN size ELSE 0] IN
     QuotaBecomes(c, IF r.level = 0 THEN Checked(r) ELSE r)
  /\ uncounted' = IF Fits(counted, size) THEN stored + waiting - counted ELSE uncounted
  /\ UNCHANGED <<calendar, stored, waiting, settings, quotaHistory>>

\* The three fields of tenants.settings that the alerts use.
GetQuotaAlertSettings == settings

\* Mutant: any alert of the month stands for all of them.
AlreadyAnnouncedAny(level) == settings.month = calendar /\ settings.level >= 66

AlreadyAnnounced(level) ==
  GetQuotaAlertSettings.month = calendar /\ GetQuotaAlertSettings.level >= level

\* maybeNotifyQuota and maybeNotifyQuotaExceeded up to the alert.
ReadAlertSettings(c) ==
  /\ quotaCall[c].pc \in {"notify", "exceeded"}
  /\ LET r == [quotaCall[c] EXCEPT !.label = calendar] IN
     QuotaBecomes(c, IF ~GetQuotaAlertSettings.email \/ AlreadyAnnounced(r.level) THEN Checked(r)
                     ELSE [r EXCEPT !.pc = IF @ = "notify" THEN "alert" ELSE "alertexceeded"])
  /\ UNCHANGED <<calendar, quotaEvents, settings, quotaHistory>>

\* QuotaAlert looks up the address again; a mail without one is not sent.
QuotaAlert(c) ==
  /\ quotaCall[c].pc \in {"alert", "alertexceeded"}
  /\ announced' = IF settings.email /\ quotaCall[c].level = 100
                  THEN announced \cup {quotaCall[c].label} ELSE announced
  /\ QuotaBecomes(c, [quotaCall[c] EXCEPT !.pc = IF @ = "alert" THEN "merge" ELSE "mergeexceeded"])
  /\ UNCHANGED <<calendar, quotaEvents, settings, emailOff>>

\* UpdateQuotaAlertSettings loads the settings once more and writes back the
\* email of the first reading with the new month and level.
UpdateQuotaAlertSettings(c) ==
  /\ quotaCall[c].pc \in {"merge", "mergeexceeded"}
  /\ settings' = [email |-> TRUE, month |-> quotaCall[c].label, level |-> quotaCall[c].level]
  /\ QuotaBecomes(c, Checked([quotaCall[c] EXCEPT !.pc = IF @ = "merge" THEN "notify"
                                                         ELSE "exceeded"]))
  /\ UNCHANGED <<calendar, quotaEvents, quotaHistory>>

Refuse(c) ==
  /\ quotaCall[c].pc = "refuse"
  /\ QuotaFinish(c)
  /\ UNCHANGED <<calendar, quotaEvents, settings, quotaHistory>>

\* The synchronous path, and the fall-back of the asynchronous one.  Of a batch,
\* any number of events come to count this month: the append may fail, an event
\* may be invalid or known already, and the client gives its time.
LogBatch(c) ==
  /\ quotaCall[c].pc = "admit"
  /\ \E n \in 0..quotaCall[c].size : stored' = stored + n
  /\ QuotaFinish(c)
  /\ UNCHANGED <<calendar, waiting, settings, uncounted, quotaHistory>>

Enqueue(c) ==
  /\ quotaCall[c].pc = "admit"
  /\ waiting' = waiting + quotaCall[c].size
  /\ QuotaFinish(c)
  /\ UNCHANGED <<calendar, stored, settings, uncounted, quotaHistory>>

\* The outbox worker appends a batch, or gives it up; it does not check the quota
\* again.
Drain(size) ==
  /\ size <= waiting
  /\ waiting' = waiting - size
  /\ \E n \in 0..size : stored' = stored + n
  /\ UNCHANGED <<calendar, settings, quotaCall, uncounted, quotaHistory>>

\* The platform's own event of a compliance export or of a policy change: the
\* handler calls Log without a check.
LogUnchecked ==
  /\ stored' = stored + 1
  /\ uncounted' = uncounted + 1
  /\ UNCHANGED <<calendar, waiting, settings, quotaCall, quotaHistory>>

\* putAlertSettings: load, set the dashboard's fields, write everything back.
LoadSettings(c, email) ==
  /\ QuotaFree(c)
  /\ QuotaBecomes(c, [QuotaIdle EXCEPT !.pc = "put", !.seen = [settings EXCEPT !.email = email]])
  /\ UNCHANGED <<calendar, quotaEvents, settings, quotaHistory>>

PutAlertSettings(c) ==
  /\ quotaCall[c].pc = "put"
  /\ settings' = quotaCall[c].seen
  /\ emailOff' = (emailOff \/ ~quotaCall[c].seen.email)
  /\ QuotaFinish(c)
  /\ UNCHANGED <<calendar, quotaEvents, announced>>

\* Events whose time lies ahead count in the new month too.
NextMonth ==
  /\ calendar < LastMonth
  /\ calendar' = calendar + 1
  /\ stored' \in 0..stored
  /\ uncounted' = stored' + waiting
  /\ UNCHANGED <<waiting, settings, quotaCall, quotaHistory>>

QuotaNext ==
  \/ \E c \in Callers :
       \/ \E size \in 1..MaxBatch, counted \in 0..stored : Check(c, size, counted)
       \/ ReadAlertSettings(c) \/ QuotaAlert(c) \/ UpdateQuotaAlertSettings(c)
       \/ Refuse(c) \/ LogBatch(c) \/ Enqueue(c)
       \/ \E email \in BOOLEAN : LoadSettings(c, email)
       \/ PutAlertSettings(c)
  \/ \E size \in 1..MaxBatch : Drain(size)
  \/ LogUnchecked \/ NextMonth

QuotaSpec == QuotaInit /\ [][QuotaNext]_quotaVars

-----------------------------------------------------------------------------

\* Type correctness of the counters, the settings and the outbox.
QuotaTypeOK ==
  /\ calendar \in 0..LastMonth /\ stored \in Nat /\ waiting \in Nat /\ uncounted \in Nat
  /\ settings \in [email : BOOLEAN, month : 0..NoMonth, level : {0, 66, 83, 100}]
  /\ announced \subseteq 0..LastMonth

\* MonthlyLimiter "enforces per-plan monthly audit event caps before ingest".
\* The count and the append are not atomic, the read pool lags, the outbox is not
\* counted and some appends are not checked.  But a month exceeds its cap by no
\* more than the other requests in flight can add and than what the check that
\* last admitted a batch could not count, whatever was admitted before it.
OvershootBounded ==
  stored + waiting <= MonthlyLimit + (Cardinality(Callers) - 1) * MaxBatch + uncounted

\* A tenant whose request is refused was told so: as long as the alert email
\* stays configured and the settings can be read and written, a request is only
\* refused in a month that has a 100% alert, whatever concurrent requests and
\* dashboard edits write into the settings.
RefusalIsAnnounced ==
  ~emailOff => \A c \in Callers :
    quotaCall[c].pc = "refuse" => quotaCall[c].label \in announced

\* limit.go: the cap holds up to what no check counts, and refusals are announced.
QuotaHolds == QuotaTypeOK /\ OvershootBounded /\ RefusalIsAnnounced

=============================================================================
